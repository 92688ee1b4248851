------------------------- MODULE DocumentGenerationProofs -------------------------
(***************************************************************************)
(* Proofs about DocumentGeneration.  Good says that a row somebody holds a *)
(* copy of names a file of its own operation, Lent that BullMQ's lock is   *)
(* on a job that may still run, and Stored that the file a worker commits  *)
(* was put before.  Single is why there is one document: the lock is its   *)
(* worker's alone, and what has a document is over.                        *)
(***************************************************************************)
EXTENDS DocumentGeneration, FiniteSetTheorems, TLAPS

Status == {"absent", "pending", "running", "succeeded", "failed", "cancelled"}
JobState == {"none", "waiting", "active", "delayed", "completed", "failed"}
Claimed == {"render", "recheck", "put", "commit", "fail", "announce", "letter"}

\* A copy of an operation's row, whose document is a file put for it.
Good(r) ==
  /\ r \in [op : Op \cup {None}, attempts : Nat, doc : (Op \X Nat) \cup {None, Unsaved}]
  /\ r.op \in Op => r.doc \in File(r.op) \cup {None, Unsaved}

\* TypeOK in parts that are disturbed by different actions.
RowTypes ==
  /\ status \in [Op -> Status]
  /\ attempts \in [Op -> Nat]
  /\ asked \subseteq Op
  /\ docId \in [Op -> (Op \X Nat) \cup {None, Unsaved}]
  /\ \A o \in Op : docId[o] \in File(o) \cup {None, Unsaved}

EventTypes ==
  /\ letter \in [Op -> {"none", "pending_review", "requeued", "discarded"}]
  /\ events \subseteq {"requested", "succeeded", "failed", "cancelled", "retention.deleted"} \X Op

FileTypes ==
  /\ documents \subseteq AllFiles /\ purged \subseteq AllFiles
  /\ objects \subseteq AllFiles /\ due \subseteq AllFiles /\ expired \subseteq AllFiles
  /\ tpc \in {"idle", "next", "delete", "announce"}
  /\ row \in AllFiles \cup {None}
  /\ tpc \in {"delete", "announce"} => row \in AllFiles

PutTypes == puts \in [Op -> Nat]

JobTypes ==
  /\ job \in [Op -> JobState]
  /\ made \in [Op -> 0..JobAttempts]
  /\ stalls \in [Op -> 0..(MaxStalled + 1)]
  /\ holder \in [Op -> Worker \cup {None}]
  /\ calls \subseteq {"request", "recovery", "operator"} \X Op

\* A lock is on an active job; a job that may still run has an attempt left, and has
\* not been given back too often.
Lent ==
  /\ \A o \in Op : holder[o] # None => job[o] = "active"
  /\ \A o \in Op : job[o] \in {"waiting", "active", "delayed"} =>
                     made[o] < JobAttempts /\ stalls[o] <= MaxStalled

WorkTypes ==
  /\ wpc \in [Worker -> {"idle", "read", "claim", "return", "throw"} \cup Claimed]
  /\ wop \in [Worker -> Op \cup {None}]
  /\ running \in [Worker -> [op : Op \cup {None}, attempts : Nat, doc : (Op \X Nat) \cup {None, Unsaved}]]
  /\ file \in [Worker -> (Op \X Nat) \cup {None, Unsaved}]
  /\ fatal \in [Worker -> BOOLEAN]
  /\ \A w \in Worker : wpc[w] = "idle" <=> wop[w] = None
  /\ \A w \in Worker : wpc[w] \in Claimed => running[w].op = wop[w]
  /\ \A w \in Worker : Good(running[w])
  /\ \A w \in Worker : wpc[w] = "commit" => file[w] \in File(wop[w])

CancelTypes ==
  /\ cpc \in [Caller -> {"idle", "save", "announce"}]
  /\ read \in [Caller -> [op : Op \cup {None}, attempts : Nat, doc : (Op \X Nat) \cup {None, Unsaved}]]
  /\ \A c \in Caller : cpc[c] # "idle" => read[c].op \in Op
  /\ \A c \in Caller : Good(read[c])

TInv ==
  /\ RowTypes /\ EventTypes /\ PutTypes /\ FileTypes /\ JobTypes /\ Lent /\ WorkTypes /\ CancelTypes

LEMMA NoneIsNoOp == None \notin Op /\ None \notin Worker
BY DocumentAssumption DEF DocumentAssumption

LEMMA TypesImply == TInv => TypeOK
<1> SUFFICES ASSUME TInv PROVE TypeOK
  OBVIOUS
<1>1. ASSUME NEW w \in Worker
      PROVE  CASE wpc[w] = "idle" -> wop[w] = None
               [] wpc[w] \in {"read", "claim", "return", "throw"} -> wop[w] \in Op
               [] wpc[w] \in {"render", "recheck", "put", "fail", "announce", "letter"} ->
                    wop[w] \in Op /\ running[w].op = wop[w]
               [] wpc[w] = "commit" -> running[w].op = wop[w] /\ file[w] \in File(wop[w])
  <2>1. /\ wpc[w] \in {"idle", "read", "claim", "return", "throw"} \cup Claimed
        /\ wop[w] \in Op \cup {None} /\ (wpc[w] = "idle" <=> wop[w] = None)
        /\ wpc[w] \in Claimed => running[w].op = wop[w]
        /\ wpc[w] = "commit" => file[w] \in File(wop[w])
    BY DEF TInv, WorkTypes
  <2> HIDE DEF File
  <2> QED
    BY <2>1 DEF Claimed
<1>2. \A c \in Caller : cpc[c] = "idle" \/ (cpc[c] \in {"save", "announce"} /\ read[c].op \in Op)
  BY DEF TInv, CancelTypes
<1> QED
  BY <1>1, <1>2 DEF TInv, RowTypes, EventTypes, PutTypes, FileTypes, JobTypes, WorkTypes, TypeOK,
                    Status, JobState

LEMMA TypesInit == Init => TInv
<1> SUFFICES ASSUME Init PROVE TInv
  OBVIOUS
<1>1. Good(NoRow)
  BY NoneIsNoOp DEF Good, NoRow
<1>2. NoRow \in [op : Op \cup {None}, attempts : Nat, doc : (Op \X Nat) \cup {None, Unsaved}]
  BY DEF NoRow
<1>3. JobTypes /\ Lent
  BY DocumentAssumption DEF DocumentAssumption, Init, JobTypes, Lent, JobState, MaxStalled
<1>4. RowTypes /\ EventTypes /\ PutTypes
  BY DEF Init, RowTypes, EventTypes, PutTypes, Status
<1>5. FileTypes
  BY DEF Init, FileTypes
<1>6. WorkTypes
  BY <1>1, <1>2 DEF Init, WorkTypes, Claimed
<1>7. CancelTypes
  BY <1>1, <1>2 DEF Init, CancelTypes
<1> QED
  BY <1>3, <1>4, <1>5, <1>6, <1>7 DEF TInv

-----------------------------------------------------------------------------
\* A put is answered with a reference given before, or with the next one.
LEMMA PutPuts ==
  ASSUME TInv, NEW w \in Worker, Put(w)
  PROVE  /\ wop[w] \in Op /\ wpc[w] = "put" /\ running[w].op = wop[w]
         /\ puts' \in [Op -> Nat] /\ \A o \in Op : puts[o] <= puts'[o]
         /\ \/ /\ wpc' = [wpc EXCEPT ![w] = "commit"]
               /\ \E n \in 1..puts'[wop[w]] :
                    /\ objects' = objects \cup {<<wop[w], n>>}
                    /\ file' = [file EXCEPT ![w] = <<wop[w], n>>]
                    /\ \/ n = puts[wop[w]] + 1 /\ UNCHANGED left
                       \/ Spend("repeat")
            \/ /\ wpc' = [wpc EXCEPT ![w] = "fail"]
               /\ objects' \subseteq objects \cup {<<wop[w], puts'[wop[w]]>>}
               /\ objects \subseteq objects' /\ puts'[wop[w]] > 0
               /\ UNCHANGED file /\ Spend("fault")
<1> DEFINE o == wop[w]
<1>1. /\ o \in Op /\ wpc[w] = "put" /\ running[w].op = o
      /\ puts \in [Op -> Nat] /\ puts[o] \in Nat
  BY DEF Put, Step, TInv, WorkTypes, PutTypes, Claimed
<1>2. CASE /\ Step(w, "put", "commit")
           /\ \E n \in 1..(puts[o] + 1) :
                /\ IF n <= puts[o] THEN Spend("repeat") /\ UNCHANGED puts
                   ELSE puts' = [puts EXCEPT ![o] = n] /\ UNCHANGED left
                /\ objects' = objects \cup {<<o, n>>}
                /\ file' = [file EXCEPT ![w] = <<o, n>>]
  <2>1. PICK n \in 1..(puts[o] + 1) :
          /\ IF n <= puts[o] THEN Spend("repeat") /\ UNCHANGED puts
             ELSE puts' = [puts EXCEPT ![o] = n] /\ UNCHANGED left
          /\ objects' = objects \cup {<<o, n>>}
          /\ file' = [file EXCEPT ![w] = <<o, n>>]
    BY <1>2
  <2>2. CASE n <= puts[o]
    <3>1. puts' = puts /\ Spend("repeat") /\ n \in 1..puts'[o]
      BY <1>1, <2>1, <2>2
    <3>2. wpc' = [wpc EXCEPT ![w] = "commit"]
      BY <1>2 DEF Step
    <3>3. \E m \in 1..puts'[o] :
            /\ objects' = objects \cup {<<o, m>>}
            /\ file' = [file EXCEPT ![w] = <<o, m>>]
            /\ \/ m = puts[o] + 1 /\ UNCHANGED left
               \/ Spend("repeat")
      <4> n \in 1..puts'[o]
        BY <3>1
      <4> WITNESS n \in 1..puts'[o]
      <4> QED
        BY <2>1, <3>1
    <3>4. puts' \in [Op -> Nat] /\ \A x \in Op : puts[x] <= puts'[x]
      BY <1>1, <3>1
    <3> HIDE DEF o
    <3> QED
      BY <1>1, <3>2, <3>3, <3>4 DEF o
  <2>3. CASE n > puts[o]
    <3>1. n = puts[o] + 1 /\ puts' = [puts EXCEPT ![o] = n] /\ UNCHANGED left
      BY <1>1, <2>1, <2>3
    <3>2. puts' \in [Op -> Nat] /\ puts'[o] = n /\ n \in 1..puts'[o]
          /\ \A x \in Op : puts[x] <= puts'[x]
      BY <1>1, <3>1
    <3> QED
      BY <1>1, <1>2, <2>1, <3>1, <3>2 DEF Step
  <2>4. n <= puts[o] \/ n > puts[o]
    BY <1>1
  <2> QED
    BY <2>2, <2>3, <2>4
<1>3. CASE /\ Step(w, "put", "fail") /\ Spend("fault")
           /\ puts' = [puts EXCEPT ![o] = @ + 1]
           /\ objects' \in {objects, objects \cup {<<o, puts[o] + 1>>}}
           /\ UNCHANGED file
  <2>1. puts' \in [Op -> Nat] /\ puts'[o] = puts[o] + 1 /\ \A x \in Op : puts[x] <= puts'[x]
    BY <1>1, <1>3
  <2> QED
    BY <1>1, <1>3, <2>1 DEF Step
<1> QED
  BY <1>2, <1>3 DEF Put

\* Objects are numbered upwards, so that a file stays a file.
LEMMA PutStep ==
  ASSUME TInv, [Next]_vars
  PROVE  /\ PutTypes'
         /\ \A o \in Op : File(o) \subseteq File(o)'
         /\ AllFiles \subseteq AllFiles'
<1>1. puts \in [Op -> Nat]
  BY DEF TInv, PutTypes
<1>2. ASSUME NEW w \in Worker, Put(w)
      PROVE  PutTypes' /\ \A o \in Op : puts[o] <= puts'[o]
  BY <1>1, <1>2, PutPuts DEF PutTypes
<1>3. PutTypes' /\ \A o \in Op : puts[o] <= puts'[o]
  <2>1. CASE UNCHANGED puts
    BY <1>1, <2>1 DEF PutTypes
  <2>2. CASE \E w \in Worker : Put(w)
    BY <1>2, <2>2
  <2>3. UNCHANGED puts \/ \E w \in Worker : Put(w)
    BY DEF Next, Run, Cancel, Recover, Retain, vars, dataVars, Request, Enqueue, EnqueueLost,
         StalledCheck, BackoffOver, Evict, TakeJob, JobSettles, WorkerCrash, GetOperation, Claim,
         Render, Recheck, Commit, CommitFails, SaveFailure, AppendFailure, DeadLetter,
         StatementFails, CancelRead, CancelSave, CancelAppend, CancelFails, RecoverStale,
         RetryDeadLetter, DiscardDeadLetter, Expire, ListExpired, DeleteObject, DeleteDocument,
         AnnounceDeleted, RetentionFails
  <2> QED
    BY <2>1, <2>2, <2>3
<1>4. ASSUME NEW o \in Op PROVE File(o) \subseteq File(o)'
  <2>1. puts[o] \in Nat /\ puts'[o] \in Nat /\ puts[o] <= puts'[o]
    BY <1>3 DEF TInv, PutTypes
  <2>2. 1..puts[o] \subseteq 1..puts'[o]
    BY <2>1
  <2> QED
    BY <2>2 DEF File
<1> QED
  BY <1>3, <1>4 DEF AllFiles

LEMMA GoodStays ==
  ASSUME TInv, [Next]_vars, NEW r, Good(r)
  PROVE  Good(r)'
<1>1. \A o \in Op : File(o) \subseteq File(o)'
  BY PutStep
<1> HIDE DEF File
<1> QED
  BY <1>1 DEF Good

\* A save puts a well-typed copy into the row.
LEMMA SaveTypes ==
  ASSUME RowTypes, NEW r, Good(r), r.op \in Op, NEW s \in Status, NEW b, SaveOperation(r, s, b),
         UNCHANGED puts
  PROVE  RowTypes'
<1>1. \A o \in Op : File(o)' = File(o)
  BY DEF File
<1> HIDE DEF File
<1>2. /\ r.attempts \in Nat /\ r.doc \in (Op \X Nat) \cup {None, Unsaved}
      /\ r.doc \in File(r.op) \cup {None, Unsaved}
  BY DEF Good
<1>3. status' \in [Op -> Status] /\ attempts' \in [Op -> Nat] /\ asked' \subseteq Op
  BY <1>2 DEF SaveOperation, RowTypes
<1>4. docId' \in [Op -> (Op \X Nat) \cup {None, Unsaved}]
  BY <1>2 DEF SaveOperation, RowTypes
<1>5. \A o \in Op : docId'[o] \in File(o) \cup {None, Unsaved}
  BY <1>2 DEF SaveOperation, RowTypes
<1> QED
  BY <1>1, <1>3, <1>4, <1>5 DEF RowTypes

LEMMA RowsStay ==
  ASSUME TInv, [Next]_vars, UNCHANGED opVars
  PROVE  RowTypes'
<1>1. \A o \in Op : File(o) \subseteq File(o)'
  BY PutStep
<1>2. UNCHANGED <<status, attempts, asked, docId>>
  BY DEF opVars
<1>3. RowTypes
  BY DEF TInv
<1> HIDE DEF File
<1> QED
  BY <1>1, <1>2, <1>3 DEF RowTypes

\* The copy that is saved names the document that was put, or none that is there.
LEMMA SavedCopy ==
  ASSUME TInv, NEW w \in Worker, wpc[w] = "commit"
  PROVE  LET r == [running[w] EXCEPT !.doc = DocumentId(w)] IN
         /\ Good(r) /\ r.op = wop[w] /\ r.doc = DocumentId(w)
         /\ r \in [op : Op \cup {None}, attempts : Nat, doc : (Op \X Nat) \cup {None, Unsaved}]
         /\ wop[w] \in Op /\ file[w] \in File(wop[w])
<1> DEFINE r == [running[w] EXCEPT !.doc = DocumentId(w)]
<1>1. /\ running[w] \in [op : Op \cup {None}, attempts : Nat, doc : (Op \X Nat) \cup {None, Unsaved}]
      /\ file[w] \in (Op \X Nat) \cup {None, Unsaved}
      /\ running[w].op = wop[w] /\ wop[w] \in Op /\ file[w] \in File(wop[w])
  BY DEF TInv, WorkTypes, Claimed
<1> HIDE DEF File
<1>2. DocumentId(w) \in {file[w], Unsaved}
  BY DEF DocumentId
<1>3. r.op = wop[w] /\ r.doc = DocumentId(w)
      /\ r \in [op : Op \cup {None}, attempts : Nat, doc : (Op \X Nat) \cup {None, Unsaved}]
  BY <1>1, <1>2
<1> HIDE DEF r
<1>4. Good(r)
  BY <1>1, <1>2, <1>3 DEF Good
<1> QED
  BY <1>1, <1>3, <1>4 DEF r

\* A worker at its commit saves a well-typed copy, for the document it has put.
LEMMA SuccessTypes ==
  ASSUME TInv, NEW w \in Worker, wpc[w] = "commit", SaveSuccess(w), UNCHANGED puts
  PROVE  RowTypes' /\ wop[w] \in Op /\ file[w] \in File(wop[w])
<1> DEFINE r == [running[w] EXCEPT !.doc = DocumentId(w)]
<1>1. Good(r) /\ r.op = wop[w] /\ wop[w] \in Op /\ file[w] \in File(wop[w])
  BY SavedCopy
<1>2. SaveOperation(r, "succeeded", FALSE)
  BY DEF SaveSuccess
<1> HIDE DEF r
<1> QED
  BY <1>1, <1>2, SaveTypes DEF TInv, Status

LEMMA RowStep ==
  ASSUME TInv, [Next]_vars
  PROVE  RowTypes'
<1>0. /\ status \in [Op -> Status] /\ attempts \in [Op -> Nat] /\ asked \subseteq Op
      /\ docId \in [Op -> (Op \X Nat) \cup {None, Unsaved}]
      /\ \A o \in Op : docId[o] \in File(o) \cup {None, Unsaved}
  BY DEF TInv, RowTypes
<1>1. ASSUME status' \in [Op -> Status], attempts' \in [Op -> Nat], UNCHANGED <<asked, docId, puts>>
      PROVE  RowTypes'
  BY <1>0, <1>1 DEF RowTypes, File
<1>2. ASSUME NEW o \in Op, Request(o) PROVE RowTypes'
  BY <1>0, <1>1, <1>2 DEF Request, Status
<1>3. ASSUME NEW o \in Op, Recover(o) PROVE RowTypes'
  <2>1. CASE RecoverStale(o)
    BY <1>0, <1>1, <2>1 DEF RecoverStale, Status, PendingAgain, dataVars
  <2>2. CASE RetryDeadLetter(o)
    BY <1>0, <1>1, <2>2 DEF RetryDeadLetter, Status, PendingAgain
  <2>3. CASE DiscardDeadLetter(o)
    BY <2>3, RowsStay DEF DiscardDeadLetter
  <2> QED
    BY <1>3, <2>1, <2>2, <2>3 DEF Recover
<1>4. ASSUME NEW w \in Worker, Run(w) PROVE RowTypes'
  <2>1. CASE Claim(w)
    <3>1. CASE Claimable(wop[w])
      <4>1. wop[w] \in Op
        BY <2>1 DEF Claim, TInv, WorkTypes
      <4>2. status' = [status EXCEPT ![wop[w]] = "running"]
            /\ attempts' = [attempts EXCEPT ![wop[w]] = attempts[wop[w]] + 1]
            /\ UNCHANGED <<asked, docId, puts>>
        BY <2>1, <3>1 DEF Claim, dataVars
      <4>3. attempts' \in [Op -> Nat]
        BY <1>0, <4>1, <4>2
      <4>4. status' \in [Op -> Status]
        BY <1>0, <4>2 DEF Status
      <4> QED
        BY <1>1, <4>2, <4>3, <4>4
    <3>2. CASE ~Claimable(wop[w])
      BY <2>1, <3>2, RowsStay DEF Claim, opVars
    <3> QED
      BY <3>1, <3>2
  <2>2. CASE SaveFailure(w)
    <3>1. Good(running[w]) /\ running[w].op \in Op
      BY <2>2 DEF SaveFailure, Step, TInv, WorkTypes, Claimed
    <3> QED
      BY <2>2, <3>1, SaveTypes DEF SaveFailure, TInv, Status, dataVars
  <2>3. CASE Commit(w)
    BY <2>3, SuccessTypes DEF Commit, Step
  <2>4. CASE CommitFails(w)
    <3>1. CASE SaveSuccess(w)
      BY <2>4, <3>1, SuccessTypes DEF CommitFails, Step
    <3>2. CASE UNCHANGED opVars
      BY <3>2, RowsStay
    <3> QED
      BY <2>4, <3>1, <3>2 DEF CommitFails
  <2>5. CASE GetOperation(w) \/ Render(w) \/ Recheck(w) \/ Put(w) \/ AppendFailure(w)
             \/ DeadLetter(w) \/ StatementFails(w)
    BY <2>5, RowsStay
       DEF GetOperation, Render, Recheck, Put, AppendFailure, DeadLetter, StatementFails
  <2> QED
    BY <1>4, <2>1, <2>2, <2>3, <2>4, <2>5 DEF Run
<1>5. ASSUME NEW c \in Caller, Cancel(c) PROVE RowTypes'
  <2>1. CASE CancelSave(c)
    <3>1. Good(read[c]) /\ read[c].op \in Op
      BY <2>1 DEF CancelSave, CancelStep, TInv, CancelTypes
    <3> QED
      BY <2>1, <3>1, SaveTypes DEF CancelSave, TInv, Status, dataVars
  <2>2. CASE ~CancelSave(c)
    BY <1>5, <2>2, RowsStay DEF Cancel, CancelRead, CancelAppend, CancelFails
  <2> QED
    BY <2>1, <2>2
<1>6. CASE UNCHANGED vars
  BY <1>6, RowsStay DEF vars
<1>7. ASSUME NEW o \in Op, StalledCheck(o) \/ BackoffOver(o) \/ Evict(o) PROVE RowTypes'
  BY <1>7, RowsStay DEF StalledCheck, BackoffOver, Evict
<1>8. ASSUME NEW call \in calls, Enqueue(call) \/ EnqueueLost(call) PROVE RowTypes'
  BY <1>8, RowsStay DEF Enqueue, EnqueueLost
<1>9. ASSUME NEW w \in Worker, JobSettles(w) \/ WorkerCrash(w) \/ \E o \in Op : TakeJob(w, o)
      PROVE  RowTypes'
  BY <1>9, RowsStay DEF JobSettles, WorkerCrash, TakeJob
<1>10. ASSUME NEW f, Expire(f) PROVE RowTypes'
  BY <1>10, RowsStay DEF Expire
<1>11. CASE Retain
  BY <1>11, RowsStay
     DEF Retain, ListExpired, DeleteObject, DeleteDocument, AnnounceDeleted, RetentionFails
<1> QED
  BY <1>2, <1>3, <1>4, <1>5, <1>6, <1>7, <1>8, <1>9, <1>10, <1>11 DEF Next

LEMMA EventStep ==
  ASSUME TInv, [Next]_vars
  PROVE  EventTypes'
<1> DEFINE L == {"none", "pending_review", "requeued", "discarded"}
           E == {"requested", "succeeded", "failed", "cancelled", "retention.deleted"} \X Op
<1>0. letter \in [Op -> L] /\ events \subseteq E
  BY DEF TInv, EventTypes
<1>1. ASSUME UNCHANGED <<letter, events>> PROVE EventTypes'
  BY <1>0, <1>1 DEF EventTypes
<1>2. ASSUME NEW o \in Op, UNCHANGED letter,
             NEW t \in {"requested", "succeeded", "failed", "cancelled", "retention.deleted"},
             Announce(t, o)
      PROVE  EventTypes'
  BY <1>0, <1>2 DEF EventTypes, Announce
<1>3. ASSUME NEW o \in Op, UNCHANGED events, NEW v \in L, letter' = [letter EXCEPT ![o] = v]
      PROVE  EventTypes'
  BY <1>0, <1>3 DEF EventTypes
<1> HIDE DEF E
<1>4. ASSUME NEW o \in Op, Request(o) \/ Recover(o) PROVE EventTypes'
  <2>1. CASE Request(o)
    BY <1>2, <2>1 DEF Request
  <2>2. CASE Recover(o)
    BY <1>1, <1>3, <2>2 DEF Recover, RecoverStale, RetryDeadLetter, DiscardDeadLetter, dataVars
  <2> QED
    BY <1>4, <2>1, <2>2
<1>5. ASSUME NEW w \in Worker, Run(w) PROVE EventTypes'
  <2>0. wpc[w] # "idle" => wop[w] \in Op
    BY DEF TInv, WorkTypes
  <2>1. CASE Commit(w)
    BY <1>2, <2>0, <2>1 DEF Commit, Step, SaveSuccess
  <2>2. CASE CommitFails(w)
    BY <1>1, <1>2, <2>0, <2>2 DEF CommitFails, Step, SaveSuccess
  <2>3. CASE AppendFailure(w)
    BY <1>2, <2>0, <2>3 DEF AppendFailure, Step
  <2>4. CASE DeadLetter(w)
    <3>1. wop[w] \in Op
      BY <2>0, <2>4 DEF DeadLetter, Step
    <3>2. letter[wop[w]] \in L
      BY <1>0, <3>1
    <3> DEFINE v == IF letter[wop[w]] = "none" THEN "pending_review" ELSE letter[wop[w]]
    <3>3. letter' = [letter EXCEPT ![wop[w]] = v] /\ v \in L /\ UNCHANGED events
      BY <2>4, <3>2 DEF DeadLetter
    <3> HIDE DEF v
    <3> QED
      BY <1>3, <3>1, <3>3
  <2>5. CASE GetOperation(w) \/ Render(w) \/ Recheck(w) \/ Put(w) \/ SaveFailure(w)
             \/ Claim(w) \/ StatementFails(w)
    BY <1>1, <2>5
       DEF GetOperation, Render, Recheck, Put, SaveFailure, Claim, StatementFails, dataVars
  <2> QED
    BY <1>5, <2>1, <2>2, <2>3, <2>4, <2>5 DEF Run
<1>6. ASSUME NEW c \in Caller, Cancel(c) PROVE EventTypes'
  <2>1. CASE CancelAppend(c)
    BY <1>2, <2>1 DEF CancelAppend, CancelStep, TInv, CancelTypes
  <2>2. CASE ~CancelAppend(c)
    BY <1>1, <1>6, <2>2 DEF Cancel, CancelRead, CancelSave, CancelFails, dataVars
  <2> QED
    BY <2>1, <2>2
<1>7. CASE AnnounceDeleted
  <2>1. row \in UNION {File(o) : o \in Op}
    BY <1>7 DEF AnnounceDeleted, TInv, FileTypes, AllFiles
  <2>2. row[1] \in Op
    BY <2>1 DEF File
  <2> QED
    BY <1>2, <1>7, <2>2 DEF AnnounceDeleted
<1>8. CASE Retain /\ ~AnnounceDeleted
  BY <1>1, <1>8 DEF Retain, ListExpired, DeleteObject, DeleteDocument, RetentionFails, dataVars
<1>9. ASSUME NEW o \in Op, StalledCheck(o) \/ BackoffOver(o) \/ Evict(o) PROVE EventTypes'
  BY <1>1, <1>9 DEF StalledCheck, BackoffOver, Evict, dataVars
<1>10. ASSUME NEW call \in calls, Enqueue(call) \/ EnqueueLost(call) PROVE EventTypes'
  BY <1>1, <1>10 DEF Enqueue, EnqueueLost, dataVars
<1>11. ASSUME NEW w \in Worker, JobSettles(w) \/ WorkerCrash(w) \/ \E o \in Op : TakeJob(w, o)
       PROVE  EventTypes'
  BY <1>1, <1>11 DEF JobSettles, WorkerCrash, TakeJob, dataVars
<1>12. ASSUME NEW f, Expire(f) PROVE EventTypes'
  BY <1>1, <1>12 DEF Expire, dataVars
<1>13. CASE UNCHANGED vars
  BY <1>1, <1>13 DEF vars, dataVars
<1> QED
  BY <1>4, <1>5, <1>6, <1>7, <1>8, <1>9, <1>10, <1>11, <1>12, <1>13 DEF Next

LEMMA FileStep ==
  ASSUME TInv, [Next]_vars
  PROVE  FileTypes'
<1>0. /\ documents \subseteq AllFiles /\ purged \subseteq AllFiles
      /\ objects \subseteq AllFiles /\ due \subseteq AllFiles /\ expired \subseteq AllFiles
      /\ tpc \in {"idle", "next", "delete", "announce"}
      /\ row \in AllFiles \cup {None}
      /\ tpc \in {"delete", "announce"} => row \in AllFiles
  BY DEF TInv, FileTypes
<1>1. AllFiles \subseteq AllFiles'
  BY PutStep
<1>2. ASSUME documents' \subseteq AllFiles', purged' \subseteq AllFiles', objects' \subseteq AllFiles',
             due' \subseteq due, UNCHANGED <<tpc, expired, row>>
      PROVE  FileTypes'
  BY <1>0, <1>1, <1>2 DEF FileTypes
<1>3. ASSUME UNCHANGED <<documents, purged, objects, retainVars>> PROVE FileTypes'
  BY <1>0, <1>1, <1>2, <1>3 DEF retainVars
<1>4. ASSUME NEW w \in Worker, Run(w) PROVE FileTypes'
  <2>1. CASE Put(w)
    <3>1. wop[w] \in Op /\ puts' \in [Op -> Nat]
      BY <2>1, PutPuts
    <3>2. \E n \in 1..puts'[wop[w]] : objects' \subseteq objects \cup {<<wop[w], n>>}
      BY <2>1, <3>1, PutPuts
    <3>3. PICK n \in 1..puts'[wop[w]] : objects' \subseteq objects \cup {<<wop[w], n>>}
      BY <3>2
    <3>4. PICK o \in Op : o = wop[w]
      BY <3>1
    <3>5. <<o, n>> \in File(o)'
      BY <3>3, <3>4 DEF File
    <3>6. <<o, n>> \in AllFiles'
      BY <3>5 DEF AllFiles
    <3>7. UNCHANGED <<documents, purged, tpc, expired, row, due>>
      BY <2>1 DEF Put, retainVars
    <3> QED
      BY <1>0, <1>1, <1>2, <3>3, <3>4, <3>6, <3>7
  <2>2. CASE Commit(w) \/ CommitFails(w)
    <3>1. wpc[w] = "commit"
      BY <2>2 DEF Commit, CommitFails, Step
    <3>2. file[w] \in AllFiles
      BY <3>1 DEF TInv, WorkTypes, AllFiles, Claimed
    <3>3. documents' \subseteq documents \cup {file[w]} /\ due' \subseteq due
          /\ UNCHANGED <<purged, objects, tpc, expired, row>>
      BY <2>2 DEF Commit, CommitFails, SaveDocument
    <3> QED
      BY <1>0, <1>1, <1>2, <3>2, <3>3
  <2>3. CASE GetOperation(w) \/ Render(w) \/ Recheck(w) \/ SaveFailure(w) \/ AppendFailure(w)
             \/ DeadLetter(w) \/ Claim(w) \/ StatementFails(w)
    BY <1>3, <2>3
       DEF GetOperation, Render, Recheck, SaveFailure, AppendFailure, DeadLetter, Claim,
           StatementFails, dataVars
  <2> QED
    BY <1>4, <2>1, <2>2, <2>3 DEF Run
<1>5. CASE Retain
  <2>1. CASE DeleteObject
    <3> USE <1>0, <1>1
    <3>1. PICK f \in expired : objects' = objects \ {f} /\ row' = f /\ expired' = expired \ {f}
      BY <2>1 DEF DeleteObject
    <3> QED
      BY <2>1, <3>1 DEF DeleteObject, FileTypes
  <2>2. CASE ListExpired \/ RetentionFails
    BY <1>0, <1>1, <2>2 DEF ListExpired, RetentionFails, FileTypes, dataVars
  <2>3. CASE DeleteDocument
    BY <1>0, <1>1, <2>3 DEF DeleteDocument, FileTypes
  <2>4. CASE AnnounceDeleted
    BY <1>0, <1>1, <2>4 DEF AnnounceDeleted, FileTypes
  <2> QED
    BY <1>5, <2>1, <2>2, <2>3, <2>4 DEF Retain
<1>6. ASSUME NEW f \in documents \ due, Expire(f) PROVE FileTypes'
  BY <1>0, <1>1, <1>6 DEF Expire, FileTypes, dataVars
<1>7. ASSUME NEW o \in Op, Request(o) \/ Recover(o) PROVE FileTypes'
  BY <1>3, <1>7
     DEF Request, Recover, RecoverStale, RetryDeadLetter, DiscardDeadLetter, dataVars
<1>8. ASSUME NEW c \in Caller, Cancel(c) PROVE FileTypes'
  BY <1>3, <1>8 DEF Cancel, CancelRead, CancelSave, CancelAppend, CancelFails, dataVars
<1>9. ASSUME NEW o \in Op, StalledCheck(o) \/ BackoffOver(o) \/ Evict(o) PROVE FileTypes'
  BY <1>3, <1>9 DEF StalledCheck, BackoffOver, Evict, dataVars
<1>10. ASSUME NEW call \in calls, Enqueue(call) \/ EnqueueLost(call) PROVE FileTypes'
  BY <1>3, <1>10 DEF Enqueue, EnqueueLost, dataVars
<1>11. ASSUME NEW w \in Worker, JobSettles(w) \/ WorkerCrash(w) \/ \E o \in Op : TakeJob(w, o)
       PROVE  FileTypes'
  BY <1>3, <1>11 DEF JobSettles, WorkerCrash, TakeJob, dataVars
<1>12. CASE UNCHANGED vars
  BY <1>3, <1>12 DEF vars, dataVars
<1> QED
  BY <1>4, <1>5, <1>6, <1>7, <1>8, <1>9, <1>10, <1>11, <1>12 DEF Next

LEMMA JobStep ==
  ASSUME TInv, [Next]_vars
  PROVE  JobTypes' /\ Lent'
<1>0. /\ job \in [Op -> JobState]
      /\ made \in [Op -> 0..JobAttempts]
      /\ stalls \in [Op -> 0..(MaxStalled + 1)]
      /\ holder \in [Op -> Worker \cup {None}]
      /\ calls \subseteq {"request", "recovery", "operator"} \X Op
  BY DEF TInv, JobTypes
<1>a. /\ \A o \in Op : holder[o] # None => job[o] = "active"
      /\ \A o \in Op : job[o] \in {"waiting", "active", "delayed"} =>
                         made[o] < JobAttempts /\ stalls[o] <= MaxStalled
  BY DEF TInv, Lent
<1>b. JobAttempts \in Nat /\ JobAttempts > 0 /\ MaxStalled = 1 /\ None \notin Worker
  BY NoneIsNoOp, DocumentAssumption DEF DocumentAssumption, MaxStalled
<1>1. ASSUME UNCHANGED jobVars, calls' \subseteq {"request", "recovery", "operator"} \X Op
      PROVE  JobTypes' /\ Lent'
  BY <1>0, <1>a, <1>1 DEF jobVars, JobTypes, Lent
<1>2. ASSUME UNCHANGED <<jobVars, calls>>
      PROVE  JobTypes' /\ Lent'
  BY <1>0, <1>1, <1>2
<1>3. ASSUME NEW o \in Op, NEW s \in JobState, NEW m \in 0..JobAttempts, NEW t \in 0..2,
             NEW h \in Worker \cup {None},
             job' = [job EXCEPT ![o] = s], made' = [made EXCEPT ![o] = m],
             stalls' = [stalls EXCEPT ![o] = t], holder' = [holder EXCEPT ![o] = h],
             calls' \subseteq calls,
             h # None => s = "active",
             s \in {"waiting", "active", "delayed"} => m < JobAttempts /\ t <= 1
      PROVE  JobTypes' /\ Lent'
  <2>1. JobTypes'
    BY <1>0, <1>b, <1>3 DEF JobTypes
  <2>2. Lent'
    BY <1>0, <1>a, <1>b, <1>3 DEF Lent
  <2> QED
    BY <2>1, <2>2
<1>c. /\ made = [o \in Op |-> made[o]] /\ \A o \in Op : made = [made EXCEPT ![o] = made[o]]
      /\ \A o \in Op : stalls = [stalls EXCEPT ![o] = stalls[o]]
      /\ \A o \in Op : holder = [holder EXCEPT ![o] = holder[o]]
      /\ \A o \in Op : made[o] \in 0..JobAttempts /\ stalls[o] \in 0..2
      /\ \A o \in Op : holder[o] \in Worker \cup {None}
  BY <1>0, <1>b
<1>4. ASSUME NEW call \in calls, Enqueue(call) \/ EnqueueLost(call) PROVE JobTypes' /\ Lent'
  <2>1. call[2] \in Op /\ calls' \subseteq calls
    BY <1>0, <1>4 DEF Enqueue, EnqueueLost
  <2>2. CASE UNCHANGED jobVars
    BY <1>0, <1>1, <2>1, <2>2
  <2>3. CASE Enqueue(call) /\ job[call[2]] = "none"
    <3>1. PICK o \in Op : o = call[2]
      BY <2>1
    <3>2. /\ job' = [job EXCEPT ![o] = "waiting"] /\ made' = [made EXCEPT ![o] = 0]
          /\ stalls' = [stalls EXCEPT ![o] = 0] /\ UNCHANGED holder /\ holder[o] = None
      BY <1>a, <2>3, <3>1 DEF Enqueue
    <3>3. holder' = [holder EXCEPT ![o] = None]
      BY <1>c, <3>2
    <3> QED
      <4>1. 0 \in 0..JobAttempts /\ 0 \in 0..2 /\ "waiting" \in JobState
        BY <1>b DEF JobState
      <4>2. None \in Worker \cup {None} /\ (None # None => "waiting" = "active")
        OBVIOUS
      <4>3. "waiting" \in {"waiting", "active", "delayed"} => 0 < JobAttempts /\ 0 <= 1
        BY <1>b
      <4> QED
        BY <1>3, <2>1, <3>2, <3>3, <4>1, <4>2, <4>3
  <2> QED
    BY <1>4, <2>2, <2>3 DEF Enqueue, EnqueueLost, jobVars
<1>5. ASSUME NEW o \in Op, Request(o) \/ Recover(o) PROVE JobTypes' /\ Lent'
  BY <1>0, <1>1, <1>5 DEF Request, Recover, RecoverStale, RetryDeadLetter, DiscardDeadLetter, jobVars
<1>6. ASSUME NEW o \in Op, StalledCheck(o) PROVE JobTypes' /\ Lent'
  <2>1. made[o] < JobAttempts /\ stalls[o] \in 0..1
    BY <1>6, <1>a, <1>b, <1>c DEF StalledCheck
  <2> DEFINE s == IF stalls[o] < MaxStalled THEN "waiting" ELSE "failed"
  <2>2. /\ job' = [job EXCEPT ![o] = s] /\ stalls' = [stalls EXCEPT ![o] = stalls[o] + 1]
        /\ holder' = [holder EXCEPT ![o] = None] /\ made' = [made EXCEPT ![o] = made[o]]
        /\ UNCHANGED calls
    BY <1>6, <1>c DEF StalledCheck
  <2>3. s \in JobState /\ (s = "waiting" => stalls[o] + 1 <= 1)
        /\ s \notin {"active", "delayed"} /\ stalls[o] + 1 \in 0..2
    BY <1>b, <2>1 DEF JobState
  <2> HIDE DEF s
  <2> QED
    BY <1>3, <1>c, <2>1, <2>2, <2>3
<1>7. ASSUME NEW o \in Op, BackoffOver(o) PROVE JobTypes' /\ Lent'
  <2>1. /\ job' = [job EXCEPT ![o] = "waiting"] /\ made' = [made EXCEPT ![o] = made[o]]
        /\ stalls' = [stalls EXCEPT ![o] = stalls[o]] /\ holder' = [holder EXCEPT ![o] = holder[o]]
        /\ UNCHANGED calls /\ holder[o] = None /\ made[o] < JobAttempts /\ stalls[o] <= 1
    BY <1>7, <1>a, <1>b, <1>c DEF BackoffOver
  <2> QED
    BY <1>3, <1>c, <2>1 DEF JobState
<1>8. ASSUME NEW o \in Op, Evict(o) PROVE JobTypes' /\ Lent'
  <2>1. /\ job' = [job EXCEPT ![o] = "none"] /\ made' = [made EXCEPT ![o] = made[o]]
        /\ stalls' = [stalls EXCEPT ![o] = stalls[o]] /\ holder' = [holder EXCEPT ![o] = holder[o]]
        /\ UNCHANGED calls /\ holder[o] = None
    BY <1>8, <1>a, <1>c DEF Evict
  <2> QED
    BY <1>3, <1>c, <2>1 DEF JobState
<1>9. ASSUME NEW w \in Worker, NEW o \in Op, TakeJob(w, o) PROVE JobTypes' /\ Lent'
  <2>1. /\ job' = [job EXCEPT ![o] = "active"] /\ made' = [made EXCEPT ![o] = made[o]]
        /\ stalls' = [stalls EXCEPT ![o] = stalls[o]] /\ holder' = [holder EXCEPT ![o] = w]
        /\ UNCHANGED calls /\ made[o] < JobAttempts /\ stalls[o] <= 1
    BY <1>9, <1>a, <1>b, <1>c DEF TakeJob
  <2> QED
    BY <1>3, <1>c, <2>1 DEF JobState
<1>10. ASSUME NEW w \in Worker, JobSettles(w) PROVE JobTypes' /\ Lent'
  <2>1. CASE holder[wop[w]] # w
    BY <1>2, <1>10, <2>1 DEF JobSettles, jobVars
  <2>2. CASE holder[wop[w]] = w
    <3>1. PICK o \in Op : o = wop[w]
      BY <1>10 DEF JobSettles, TInv, WorkTypes
    <3>2. job[o] = "active" /\ made[o] < JobAttempts /\ stalls[o] <= 1
      BY <1>a, <1>b, <2>2, <3>1
    <3> DEFINE s == IF wpc[w] = "return" THEN "completed"
                    ELSE IF made[o] + 1 < JobAttempts THEN "delayed"
                    ELSE "failed"
               m == IF wpc[w] = "throw" THEN made[o] + 1 ELSE made[o]
    <3>3. /\ job' = [job EXCEPT ![o] = s] /\ made' = [made EXCEPT ![o] = m]
          /\ holder' = [holder EXCEPT ![o] = None] /\ UNCHANGED <<stalls, calls>>
      BY <1>10, <2>2, <3>1 DEF JobSettles
    <3>4. wpc[w] \in {"return", "throw"}
      BY <1>10 DEF JobSettles
    <3>5. m \in 0..JobAttempts
      BY <1>b, <1>c, <3>2
    <3>6. s \in {"completed", "failed", "delayed"} /\ (s = "delayed" => m < JobAttempts)
      <4>1. CASE wpc[w] = "return"
        <5>1. s = "completed"
          BY <4>1
        <5> QED
          BY <5>1
      <4>2. CASE wpc[w] = "throw" /\ made[o] + 1 < JobAttempts
        <5>1. s = "delayed" /\ m = made[o] + 1
          BY <4>2
        <5> QED
          BY <4>2, <5>1
      <4>3. CASE wpc[w] = "throw" /\ ~(made[o] + 1 < JobAttempts)
        <5>1. s = "failed"
          BY <4>3
        <5> QED
          BY <5>1
      <4> QED
        BY <3>4, <4>1, <4>2, <4>3
    <3>7. stalls' = [stalls EXCEPT ![o] = stalls[o]]
      BY <1>c, <3>3
    <3> HIDE DEF s, m
    <3> QED
      BY <1>3, <1>c, <3>2, <3>3, <3>5, <3>6, <3>7 DEF JobState
  <2> QED
    BY <2>1, <2>2
<1>11. ASSUME NEW w \in Worker, WorkerCrash(w) PROVE JobTypes' /\ Lent'
  <2>1. holder' = [o \in Op |-> IF holder[o] = w THEN None ELSE holder[o]]
        /\ UNCHANGED <<job, made, stalls, calls>>
    BY <1>11 DEF WorkerCrash
  <2> QED
    BY <1>0, <1>a, <2>1 DEF JobTypes, Lent
<1>12. ASSUME NEW w \in Worker, Run(w) PROVE JobTypes' /\ Lent'
  BY <1>2, <1>12
     DEF Run, GetOperation, Claim, Render, Recheck, Put, Commit, CommitFails, SaveFailure,
         AppendFailure, DeadLetter, StatementFails
<1>13. ASSUME NEW c \in Caller, Cancel(c) PROVE JobTypes' /\ Lent'
  BY <1>2, <1>13 DEF Cancel, CancelRead, CancelSave, CancelAppend, CancelFails
<1>14. ASSUME NEW f, Expire(f) PROVE JobTypes' /\ Lent'
  BY <1>2, <1>14 DEF Expire
<1>15. CASE Retain
  BY <1>2, <1>15
     DEF Retain, ListExpired, DeleteObject, DeleteDocument, AnnounceDeleted, RetentionFails
<1>16. CASE UNCHANGED vars
  BY <1>2, <1>16 DEF vars
<1> QED
  BY <1>4, <1>5, <1>6, <1>7, <1>8, <1>9, <1>10, <1>11, <1>12, <1>13, <1>14, <1>15, <1>16 DEF Next

LEMMA CancelStepTypes ==
  ASSUME TInv, [Next]_vars
  PROVE  CancelTypes'
<1> DEFINE RowSet == [op : Op \cup {None}, attempts : Nat, doc : (Op \X Nat) \cup {None, Unsaved}]
<1>0. /\ cpc \in [Caller -> {"idle", "save", "announce"}]
      /\ read \in [Caller -> RowSet]
      /\ \A c \in Caller : cpc[c] # "idle" => read[c].op \in Op
      /\ \A c \in Caller : Good(read[c])
  BY DEF TInv, CancelTypes
<1>1. ASSUME NEW r, Good(r) PROVE Good(r)'
  BY <1>1, GoodStays
<1>2. Good(NoRow) /\ Good(NoRow)' /\ NoRow \in RowSet
  BY NoneIsNoOp DEF Good, NoRow
<1>3. \A o \in Op : Good(Row(o)) /\ Row(o).op = o /\ Row(o) \in RowSet
  <2>1. ASSUME NEW o \in Op PROVE Good(Row(o)) /\ Row(o).op = o /\ Row(o) \in RowSet
    <3>1. attempts[o] \in Nat /\ docId[o] \in (Op \X Nat) \cup {None, Unsaved} /\ docId[o] \in File(o) \cup {None, Unsaved}
      BY DEF TInv, RowTypes
    <3> HIDE DEF File
    <3>2. Row(o).op = o /\ Row(o).doc = docId[o] /\ Row(o) \in RowSet
      BY <3>1 DEF Row
    <3> QED
      BY <3>1, <3>2 DEF Good
  <2> QED
    BY <2>1
<1> HIDE DEF RowSet, File
<1>4. ASSUME UNCHANGED cancelVars PROVE CancelTypes'
  <2>1. UNCHANGED <<cpc, read>>
    BY <1>4 DEF cancelVars
  <2>2. \A c \in Caller : Good(read[c])'
    <3>1. ASSUME NEW c \in Caller PROVE Good(read[c])'
      <4>1. Good(read[c])
        BY <1>0
      <4>2. \A o \in Op : File(o) \subseteq File(o)'
        BY PutStep
      <4> QED
        BY <2>1, <4>1, <4>2 DEF Good
    <3> QED
      BY <3>1
  <2> QED
    BY <1>0, <2>1, <2>2 DEF CancelTypes, RowSet
<1>5. ASSUME NEW c \in Caller, NEW s \in {"idle", "save", "announce"}, cpc' = [cpc EXCEPT ![c] = s],
             NEW r, Good(r), r \in RowSet, s # "idle" => r.op \in Op,
             read' = [read EXCEPT ![c] = r]
      PROVE  CancelTypes'
  <2>1. \A o \in Op : File(o) \subseteq File(o)'
    BY PutStep
  <2>2. \A d \in Caller : Good(read'[d]) /\ (cpc'[d] # "idle" => read'[d].op \in Op)
    BY <1>0, <1>5
  <2>3. \A d \in Caller : Good(read[d])'
    BY <2>1, <2>2 DEF Good
  <2>4. cpc' \in [Caller -> {"idle", "save", "announce"}] /\ read' \in [Caller -> RowSet]
    BY <1>0, <1>5
  <2> QED
    BY <2>2, <2>3, <2>4 DEF CancelTypes, RowSet
<1>6. ASSUME NEW c \in Caller, Cancel(c) PROVE CancelTypes'
  <2>1. CASE CancelSave(c)
    <3>1. cpc' = [cpc EXCEPT ![c] = "announce"] /\ read' = read /\ cpc[c] = "save"
      BY <2>1 DEF CancelSave, CancelStep
    <3>2. Good(read[c]) /\ read[c] \in RowSet /\ read[c].op \in Op
      BY <1>0, <3>1
    <3>3. read' = [read EXCEPT ![c] = read[c]]
      BY <1>0, <3>1
    <3> QED
      BY <1>5, <3>1, <3>2, <3>3
  <2>2. CASE CancelAppend(c) \/ CancelFails(c)
    BY <1>2, <1>5, <2>2 DEF CancelAppend, CancelFails, CancelStep
  <2>3. ASSUME NEW o \in Op, CancelRead(c, o) PROVE CancelTypes'
    BY <1>3, <1>5, <2>3 DEF CancelRead, CancelStep
  <2> QED
    BY <1>6, <2>1, <2>2, <2>3 DEF Cancel
<1>7. ASSUME NEW w \in Worker, Run(w) \/ JobSettles(w) \/ WorkerCrash(w) \/ \E o \in Op : TakeJob(w, o)
      PROVE  CancelTypes'
  BY <1>4, <1>7
     DEF Run, GetOperation, Claim, Render, Recheck, Put, Commit, CommitFails, SaveFailure,
         AppendFailure, DeadLetter, StatementFails, JobSettles, WorkerCrash, TakeJob
<1>8. ASSUME NEW o \in Op, Request(o) \/ StalledCheck(o) \/ BackoffOver(o) \/ Evict(o) \/ Recover(o)
      PROVE  CancelTypes'
  BY <1>4, <1>8 DEF Request, StalledCheck, BackoffOver, Evict, Recover, RecoverStale,
                    RetryDeadLetter, DiscardDeadLetter
<1>9. ASSUME NEW call, Enqueue(call) \/ EnqueueLost(call) PROVE CancelTypes'
  BY <1>4, <1>9 DEF Enqueue, EnqueueLost
<1>10. ASSUME NEW f, Expire(f) PROVE CancelTypes'
  BY <1>4, <1>10 DEF Expire
<1>11. CASE Retain
  BY <1>4, <1>11
     DEF Retain, ListExpired, DeleteObject, DeleteDocument, AnnounceDeleted, RetentionFails
<1>12. CASE UNCHANGED vars
  BY <1>4, <1>12 DEF vars
<1> QED
  BY <1>6, <1>7, <1>8, <1>9, <1>10, <1>11, <1>12 DEF Next

LEMMA WorkStepTypes ==
  ASSUME TInv, [Next]_vars
  PROVE  WorkTypes'
<1> DEFINE RowSet == [op : Op \cup {None}, attempts : Nat, doc : (Op \X Nat) \cup {None, Unsaved}]
           FileSet == (Op \X Nat) \cup {None, Unsaved}
           Flags == [Worker -> BOOLEAN]
           PC == {"idle", "read", "claim", "return", "throw"} \cup Claimed
<1>0. /\ wpc \in [Worker -> PC]
      /\ wop \in [Worker -> Op \cup {None}]
      /\ running \in [Worker -> RowSet]
      /\ file \in [Worker -> FileSet]
      /\ fatal \in [Worker -> BOOLEAN]
      /\ \A w \in Worker : wpc[w] = "idle" <=> wop[w] = None
      /\ \A w \in Worker : wpc[w] \in Claimed => running[w].op = wop[w]
      /\ \A w \in Worker : Good(running[w])
      /\ \A w \in Worker : wpc[w] = "commit" => file[w] \in File(wop[w])
  BY DEF TInv, WorkTypes
<1>1. \A o \in Op : File(o) \subseteq File(o)'
  BY PutStep
<1>2. Good(NoRow) /\ NoRow \in RowSet
  BY NoneIsNoOp DEF Good, NoRow
<1>3. ASSUME NEW o \in Op
      PROVE  LET r == [Row(o) EXCEPT !.attempts = @ + 1] IN Good(r) /\ r.op = o /\ r \in RowSet
  <2>1. /\ attempts[o] \in Nat /\ docId[o] \in FileSet /\ docId[o] \in File(o) \cup {None, Unsaved}
    BY DEF TInv, RowTypes
  <2> DEFINE r == [Row(o) EXCEPT !.attempts = @ + 1]
  <2> HIDE DEF File
  <2>2. r.op = o /\ r.doc = docId[o] /\ r \in RowSet
    BY <2>1 DEF Row
  <2> HIDE DEF r
  <2>3. Good(r)
    BY <2>1, <2>2 DEF Good
  <2> QED
    BY <2>2, <2>3 DEF r
<1>4. ASSUME NEW w \in Worker, wpc[w] = "commit"
      PROVE  LET r == [running[w] EXCEPT !.doc = DocumentId(w)] IN Good(r) /\ r.op = wop[w] /\ r \in RowSet
  BY <1>4, SavedCopy
<1>f. fatal \in Flags /\ \A w \in Worker, b \in BOOLEAN : [fatal EXCEPT ![w] = b] \in Flags
  BY <1>0
<1> HIDE DEF RowSet, FileSet, Flags, PC, File
<1>5. ASSUME UNCHANGED <<wpc, workVars>> PROVE WorkTypes'
  <2>1. UNCHANGED <<wpc, wop, running, file, fatal>>
    BY <1>5 DEF workVars
  <2>2. \A w \in Worker : wpc[w] = "commit" => wop[w] \in Op
    BY <1>0
  <2>3. \A w \in Worker : (wpc[w] = "commit" => file[w] \in File(wop[w]))'
    <3>1. ASSUME NEW w \in Worker, wpc'[w] = "commit" PROVE (file[w] \in File(wop[w]))'
      <4>1. PICK o \in Op : o = wop[w] /\ o = wop'[w] /\ file[w] \in File(o) /\ file'[w] = file[w]
        BY <1>0, <2>1, <2>2, <3>1
      <4>2. (file[w] \in File(o))'
        BY <1>1, <4>1
      <4> QED
        BY <4>1, <4>2 DEF File
    <3> QED
      BY <3>1
  <2>4. \A w \in Worker : Good(running[w])'
    BY <1>0, <1>1, <2>1 DEF Good
  <2> QED
    BY <1>0, <2>1, <2>3, <2>4 DEF WorkTypes, PC, RowSet, FileSet, Flags
<1>6. ASSUME NEW w \in Worker, NEW p \in PC, NEW o \in Op \cup {None}, NEW r, Good(r), r \in RowSet,
             NEW f \in FileSet,
             wpc' = [wpc EXCEPT ![w] = p], wop' = [wop EXCEPT ![w] = o],
             running' = [running EXCEPT ![w] = r], file' = [file EXCEPT ![w] = f],
             fatal' \in Flags,
             p = "idle" <=> o = None, p \in Claimed => r.op = o, p = "commit" => f \in File(o)'
      PROVE  WorkTypes'
  <2>1. /\ wpc' \in [Worker -> PC] /\ wop' \in [Worker -> Op \cup {None}]
        /\ running' \in [Worker -> RowSet] /\ file' \in [Worker -> FileSet]
        /\ fatal' \in Flags
    BY <1>0, <1>6
  <2>2. /\ \A v \in Worker : wpc'[v] = "idle" <=> wop'[v] = None
        /\ \A v \in Worker : wpc'[v] \in Claimed => running'[v].op = wop'[v]
        /\ \A v \in Worker : Good(running'[v])
    BY <1>0, <1>6
  <2>3. \A v \in Worker : Good(running[v])'
    BY <1>1, <2>2 DEF Good
  <2>4. \A v \in Worker : (wpc[v] = "commit" => file[v] \in File(wop[v]))'
    <3>1. ASSUME NEW v \in Worker, wpc'[v] = "commit" PROVE (file[v] \in File(wop[v]))'
      <4>1. PICK x \in Op : x = wop'[v]
        BY <2>1, <2>2, <3>1
      <4>2. file'[v] \in File(x)'
        <5>1. CASE v = w
          BY <1>0, <1>6, <3>1, <4>1, <5>1
        <5>2. CASE v # w
          <6>1. wpc[v] = "commit" /\ wop[v] = x /\ file'[v] = file[v]
            BY <1>0, <1>6, <3>1, <4>1, <5>2
          <6> QED
            BY <1>0, <1>1, <6>1
        <5> QED
          BY <5>1, <5>2
      <4> QED
        BY <4>1, <4>2 DEF File
    <3> QED
      BY <3>1
  <2> QED
    BY <2>1, <2>2, <2>3, <2>4 DEF WorkTypes, PC, RowSet, FileSet, Flags
<1>7. ASSUME NEW w \in Worker
      PROVE  /\ wop = [wop EXCEPT ![w] = wop[w]] /\ running = [running EXCEPT ![w] = running[w]]
             /\ file = [file EXCEPT ![w] = file[w]] /\ fatal = [fatal EXCEPT ![w] = fatal[w]]
             /\ wop[w] \in Op \cup {None} /\ running[w] \in RowSet /\ Good(running[w])
             /\ file[w] \in FileSet /\ fatal[w] \in BOOLEAN
  BY <1>0
\* A step that moves the worker on, and may set its flag.
<1>8. ASSUME NEW w \in Worker, wpc[w] # "idle", NEW p \in PC \ {"idle", "commit"},
             wpc' = [wpc EXCEPT ![w] = p], UNCHANGED <<wop, running, file>>,
             NEW b \in BOOLEAN, fatal' = [fatal EXCEPT ![w] = b],
             p \in Claimed => wpc[w] \in Claimed
      PROVE  WorkTypes'
  <2>1. p # "idle" /\ p # "commit" /\ wop[w] # None /\ (p \in Claimed => running[w].op = wop[w])
    BY <1>0, <1>8
  <2>2. /\ wop' = [wop EXCEPT ![w] = wop[w]] /\ running' = [running EXCEPT ![w] = running[w]]
        /\ file' = [file EXCEPT ![w] = file[w]] /\ fatal' \in Flags
    BY <1>f, <1>7, <1>8
  <2>3. /\ wop[w] \in Op \cup {None} /\ running[w] \in RowSet /\ Good(running[w])
        /\ file[w] \in FileSet /\ p \in PC /\ (p = "idle" <=> wop[w] = None)
    BY <1>7, <1>8, <2>1
  <2>4. wpc' = [wpc EXCEPT ![w] = p] /\ (p = "commit" => file[w] \in File(wop[w])')
    BY <1>8
  <2> QED
    BY <1>6, <2>1, <2>2, <2>3, <2>4
<1>9. ASSUME NEW w \in Worker, wpc[w] # "idle", NEW p \in PC \ {"idle", "commit"},
             wpc' = [wpc EXCEPT ![w] = p], UNCHANGED workVars,
             p \in Claimed => wpc[w] \in Claimed
      PROVE  WorkTypes'
  <2>1. UNCHANGED <<wop, running, file>> /\ fatal' = [fatal EXCEPT ![w] = fatal[w]]
    BY <1>7, <1>9 DEF workVars
  <2> QED
    BY <1>7, <1>8, <1>9, <2>1
<1>10. ASSUME NEW w \in Worker, Run(w) PROVE WorkTypes'
  <2>1. CASE GetOperation(w) \/ Recheck(w)
    BY <1>9, <2>1 DEF GetOperation, Recheck, Step, PC, Claimed
  <2>2. CASE SaveFailure(w) \/ AppendFailure(w) \/ DeadLetter(w)
    BY <1>9, <2>2 DEF SaveFailure, AppendFailure, DeadLetter, Step, PC, Claimed
  <2>3. CASE Render(w)
    <3>1. CASE UNCHANGED fatal /\ Step(w, "render", "recheck")
      BY <1>9, <2>3, <3>1 DEF Render, Step, PC, Claimed, workVars
    <3>2. CASE Step(w, "render", "fail") /\ \E b \in BOOLEAN : fatal' = [fatal EXCEPT ![w] = b]
      BY <1>8, <2>3, <3>2 DEF Render, Step, PC, Claimed
    <3> QED
      BY <2>3, <3>1, <3>2 DEF Render
  <2>4. CASE StatementFails(w)
    <3>1. wpc[w] # "idle" /\ UNCHANGED <<wop, running, file>>
      BY <2>4 DEF StatementFails
    <3>2. CASE wpc[w] = "recheck"
      BY <1>8, <2>4, <3>1, <3>2 DEF StatementFails, Step, PC, Claimed
    <3>3. CASE wpc[w] # "recheck"
      BY <1>9, <2>4, <3>1, <3>3 DEF StatementFails, Step, PC, Claimed, workVars
    <3> QED
      BY <3>2, <3>3
  <2>5. CASE Claim(w)
    <3>1. CASE Claimable(wop[w])
      <4>1. wop[w] \in Op
        BY <1>0, <2>5 DEF Claim
      <4> DEFINE r == [Row(wop[w]) EXCEPT !.attempts = @ + 1]
      <4>2. /\ wpc' = [wpc EXCEPT ![w] = "render"] /\ running' = [running EXCEPT ![w] = r]
            /\ UNCHANGED <<wop, file, fatal>>
        BY <2>5, <3>1 DEF Claim, Step
      <4>3. Good(r) /\ r.op = wop[w] /\ r \in RowSet
        BY <1>3, <4>1
      <4> HIDE DEF r
      <4>4. "render" \in PC /\ "render" # "idle" /\ "render" # "commit"
        BY DEF PC, Claimed
      <4>5. wop[w] # None /\ wop[w] \in Op \cup {None} /\ file[w] \in FileSet
        BY <1>7, <4>1, NoneIsNoOp
      <4>6. /\ wop' = [wop EXCEPT ![w] = wop[w]] /\ file' = [file EXCEPT ![w] = file[w]]
            /\ fatal' \in Flags
        BY <1>f, <1>7, <4>2
      <4> QED
        BY <1>6, <4>2, <4>3, <4>4, <4>5, <4>6
    <3>2. CASE ~Claimable(wop[w])
      BY <1>9, <2>5, <3>2 DEF Claim, Step, PC, Claimed, workVars
    <3> QED
      BY <3>1, <3>2
  <2>6. CASE Put(w)
    <3>1. wop[w] \in Op /\ running[w].op = wop[w] /\ wpc[w] = "put" /\ puts' \in [Op -> Nat]
      BY <2>6, PutPuts
    <3>2. CASE /\ wpc' = [wpc EXCEPT ![w] = "commit"] /\ UNCHANGED fatal
               /\ \E n \in 1..puts'[wop[w]] : file' = [file EXCEPT ![w] = <<wop[w], n>>]
      <4>1. PICK o \in Op : o = wop[w]
        BY <3>1
      <4>2. PICK n \in 1..puts'[o] : file' = [file EXCEPT ![w] = <<o, n>>]
        BY <3>2, <4>1
      <4> DEFINE f == <<o, n>>
      <4>3. f \in File(o)' /\ f \in FileSet
        BY <3>1, <4>1, <4>2 DEF File, FileSet
      <4>4. file' = [file EXCEPT ![w] = f]
        BY <4>2
      <4> HIDE DEF f
      <4>5. wpc' = [wpc EXCEPT ![w] = "commit"] /\ UNCHANGED <<wop, running, fatal>>
        BY <2>6, <3>2 DEF Put
      <4>6. "commit" \in PC /\ "commit" # "idle" /\ o # None
        BY NoneIsNoOp DEF PC, Claimed
      <4>7. /\ wop' = [wop EXCEPT ![w] = o] /\ running' = [running EXCEPT ![w] = running[w]]
            /\ fatal' \in Flags
        BY <1>f, <1>7, <4>1, <4>5
      <4>8. /\ o \in Op \cup {None} /\ running[w] \in RowSet /\ Good(running[w])
            /\ running[w].op = o
        BY <1>7, <3>1, <4>1
      <4> QED
        BY <1>6, <4>3, <4>4, <4>5, <4>6, <4>7, <4>8
    <3>3. CASE Step(w, "put", "fail") /\ UNCHANGED file /\ \E b \in BOOLEAN : fatal' = [fatal EXCEPT ![w] = b]
      BY <1>8, <2>6, <3>3 DEF Put, Step, PC, Claimed
    <3>4. \/ /\ wpc' = [wpc EXCEPT ![w] = "commit"] /\ UNCHANGED fatal
             /\ \E n \in 1..puts'[wop[w]] : file' = [file EXCEPT ![w] = <<wop[w], n>>]
          \/ Step(w, "put", "fail") /\ UNCHANGED file /\ \E b \in BOOLEAN : fatal' = [fatal EXCEPT ![w] = b]
      <4>1. CASE wpc' = [wpc EXCEPT ![w] = "commit"]
        <5>1. ~Step(w, "put", "fail")
          BY <1>0, <4>1 DEF Step
        <5> QED
          BY <2>6, <4>1, <5>1, PutPuts, <1>0 DEF Put
      <4>2. CASE ~(wpc' = [wpc EXCEPT ![w] = "commit"])
        BY <2>6, <4>2 DEF Put, Step
      <4> QED
        BY <4>1, <4>2
    <3> QED
      BY <3>2, <3>3, <3>4
  <2>7. CASE Commit(w)
    BY <1>9, <2>7 DEF Commit, Step, PC, Claimed
  <2>8. CASE CommitFails(w)
    <3>1. /\ wpc[w] = "commit" /\ wpc' = [wpc EXCEPT ![w] = "fail"] /\ UNCHANGED <<wop, file>>
          /\ fatal' = [fatal EXCEPT ![w] = TRUE]
      BY <2>8 DEF CommitFails, Step
    <3>2. CASE UNCHANGED running
      BY <1>8, <3>1, <3>2 DEF PC, Claimed
    <3>3. CASE running' = [running EXCEPT ![w].doc = DocumentId(w)]
      <4> DEFINE r == [running[w] EXCEPT !.doc = DocumentId(w)]
      <4>1. Good(r) /\ r.op = wop[w] /\ r \in RowSet
        BY <1>4, <3>1
      <4>2. running' = [running EXCEPT ![w] = r]
        BY <3>3
      <4> HIDE DEF r
      <4>3. "fail" \in PC /\ "fail" # "idle" /\ "fail" # "commit" /\ wop[w] # None
        BY <1>0, <3>1 DEF PC, Claimed
      <4>4. wop' = [wop EXCEPT ![w] = wop[w]] /\ file' = [file EXCEPT ![w] = file[w]]
        BY <1>7, <3>1
      <4>5. wop[w] \in Op \cup {None} /\ file[w] \in FileSet
            /\ fatal' \in Flags
        BY <1>f, <1>7, <3>1
      <4> QED
        BY <1>6, <3>1, <4>1, <4>2, <4>3, <4>4, <4>5
    <3> QED
      BY <2>8, <3>2, <3>3 DEF CommitFails
  <2> QED
    BY <1>10, <2>1, <2>2, <2>3, <2>4, <2>5, <2>6, <2>7, <2>8 DEF Run
<1>11. ASSUME NEW w \in Worker, Forget(w) PROVE WorkTypes'
  <2>1. "idle" \in PC /\ "idle" \notin Claimed /\ None \in FileSet
    BY DEF PC, Claimed, FileSet
  <2> QED
    BY <1>2, <1>6, <1>f, <1>11, <2>1 DEF Forget
<1>12. ASSUME NEW w \in Worker, JobSettles(w) \/ WorkerCrash(w) PROVE WorkTypes'
  BY <1>11, <1>12 DEF JobSettles, WorkerCrash
<1>13. ASSUME NEW w \in Worker, NEW o \in Op, TakeJob(w, o) PROVE WorkTypes'
  <2>1. "read" \in PC /\ "read" # "idle" /\ "read" # "commit" /\ "read" \notin Claimed /\ o # None
    BY NoneIsNoOp DEF PC, Claimed
  <2>2. wpc' = [wpc EXCEPT ![w] = "read"] /\ wop' = [wop EXCEPT ![w] = o]
        /\ UNCHANGED <<running, file, fatal>>
    BY <1>13 DEF TakeJob
  <2>3. /\ running' = [running EXCEPT ![w] = running[w]] /\ file' = [file EXCEPT ![w] = file[w]]
        /\ fatal' \in Flags
    BY <1>f, <1>7, <2>2
  <2>4. /\ o \in Op \cup {None} /\ running[w] \in RowSet /\ Good(running[w])
        /\ file[w] \in FileSet
    BY <1>7
  <2>5. /\ wpc' = [wpc EXCEPT ![w] = "read"] /\ wop' = [wop EXCEPT ![w] = o]
        /\ ("read" = "idle" <=> o = None)
        /\ ("read" \in Claimed => running[w].op = o)
        /\ ("read" = "commit" => file[w] \in File(o)')
    BY <2>1, <2>2
  <2> QED
    BY <1>6, <2>1, <2>3, <2>4, <2>5
<1>14. ASSUME NEW c \in Caller, Cancel(c) PROVE WorkTypes'
  BY <1>5, <1>14 DEF Cancel, CancelRead, CancelSave, CancelAppend, CancelFails
<1>15. ASSUME NEW o \in Op, Request(o) \/ StalledCheck(o) \/ BackoffOver(o) \/ Evict(o) \/ Recover(o)
       PROVE  WorkTypes'
  BY <1>5, <1>15 DEF Request, StalledCheck, BackoffOver, Evict, Recover, RecoverStale,
                     RetryDeadLetter, DiscardDeadLetter
<1>16. ASSUME NEW call, Enqueue(call) \/ EnqueueLost(call) PROVE WorkTypes'
  BY <1>5, <1>16 DEF Enqueue, EnqueueLost
<1>17. ASSUME NEW f, Expire(f) PROVE WorkTypes'
  BY <1>5, <1>17 DEF Expire
<1>18. CASE Retain
  BY <1>5, <1>18
     DEF Retain, ListExpired, DeleteObject, DeleteDocument, AnnounceDeleted, RetentionFails
<1>19. CASE UNCHANGED vars
  BY <1>5, <1>19 DEF vars
<1> QED
  BY <1>10, <1>12, <1>13, <1>14, <1>15, <1>16, <1>17, <1>18, <1>19 DEF Next

LEMMA TypesNext == TInv /\ [Next]_vars => TInv'
BY PutStep, RowStep, EventStep, FileStep, JobStep, WorkStepTypes, CancelStepTypes DEF TInv

\* Every variable keeps its type: states are those of the table, every document, object
\* and expired row is a file that was put, and a worker past its claim holds the row it
\* has claimed (runGeneration).
THEOREM TypeCorrect == Spec => []TypeOK
<1>1. Spec => []TInv
  BY TypesInit, TypesNext, PTL DEF Spec
<1> QED
  BY <1>1, TypesImply, PTL

-----------------------------------------------------------------------------
(* What is stored is never forgotten, and who writes a status              *)

LEMMA StoreGrows ==
  ASSUME [Next]_vars
  PROVE  /\ documents \cup purged \subseteq (documents \cup purged)'
         /\ events \subseteq events'
         /\ \A f \in due \ due' : \E w \in Worker : wpc[w] = "commit" /\ file[w] = f
<1>1. CASE Retain
  BY <1>1 DEF Retain, ListExpired, DeleteObject, DeleteDocument, AnnounceDeleted, RetentionFails,
              Announce, dataVars
<1>2. ASSUME NEW w \in Worker, Run(w)
      PROVE  /\ documents \subseteq documents' /\ UNCHANGED purged /\ events \subseteq events'
             /\ \A f \in due \ due' : wpc[w] = "commit" /\ file[w] = f
  <2>1. CASE Commit(w) \/ CommitFails(w)
    BY <2>1 DEF Commit, CommitFails, Step, SaveSuccess, SaveDocument, Announce
  <2>2. CASE ~(Commit(w) \/ CommitFails(w))
    BY <1>2, <2>2 DEF Run, GetOperation, Claim, Render, Recheck, Put, SaveFailure, AppendFailure,
                      DeadLetter, StatementFails, Announce, dataVars, retainVars
  <2> QED
    BY <2>1, <2>2
<1>3. ASSUME NEW c \in Caller, Cancel(c)
      PROVE  UNCHANGED <<documents, purged, due>> /\ events \subseteq events'
  BY <1>3 DEF Cancel, CancelRead, CancelSave, CancelAppend, CancelFails, Announce, dataVars, retainVars
<1>4. ASSUME NEW o \in Op, Request(o) \/ StalledCheck(o) \/ BackoffOver(o) \/ Evict(o) \/ Recover(o)
      PROVE  UNCHANGED <<documents, purged, due>> /\ events \subseteq events'
  BY <1>4 DEF Request, StalledCheck, BackoffOver, Evict, Recover, RecoverStale, RetryDeadLetter,
              DiscardDeadLetter, Announce, dataVars, retainVars
<1>5. ASSUME NEW call, Enqueue(call) \/ EnqueueLost(call)
      PROVE  UNCHANGED <<documents, purged, due, events>>
  BY <1>5 DEF Enqueue, EnqueueLost, dataVars, retainVars
<1>6. ASSUME NEW w \in Worker, JobSettles(w) \/ WorkerCrash(w) \/ \E o \in Op : TakeJob(w, o)
      PROVE  UNCHANGED <<documents, purged, due, events>>
  BY <1>6 DEF JobSettles, WorkerCrash, TakeJob, dataVars, retainVars
<1>7. ASSUME NEW f, Expire(f)
      PROVE  UNCHANGED <<documents, purged, events>> /\ due \subseteq due'
  BY <1>7 DEF Expire, dataVars
<1>8. CASE UNCHANGED vars
  BY <1>8 DEF vars, dataVars, retainVars
<1> QED
  BY <1>1, <1>2, <1>3, <1>4, <1>5, <1>6, <1>7, <1>8 DEF Next

\* A row is written by a request, a recovery, a claim, or by a save of one of three kinds.
LEMMA WhoWrites ==
  ASSUME TInv, [Next]_vars, NEW o \in Op
  PROVE  \/ status'[o] = status[o] /\ docId'[o] = docId[o]
         \/ status[o] \notin {"succeeded", "cancelled"} /\ status'[o] \in {"pending", "running"}
         \/ status'[o] = "pending" /\ letter'[o] = "requeued"
         \/ status'[o] = "cancelled"
         \/ /\ \E w \in Worker : wop[w] = o /\ wpc[w] = "fail" /\ wpc'[w] = "announce"
            /\ status'[o] = "failed"
         \/ \E w \in Worker :
            /\ wop[w] = o /\ wpc[w] = "commit" /\ wpc'[w] \in {"return", "fail"}
            /\ status'[o] = "succeeded" /\ <<"succeeded", o>> \in events'
            /\ docId'[o] = DocumentId(w) /\ file[w] \in documents'
<1> DEFINE Goal == \/ status'[o] = status[o] /\ docId'[o] = docId[o]
                   \/ status[o] \notin {"succeeded", "cancelled"} /\ status'[o] \in {"pending", "running"}
                   \/ status'[o] = "pending" /\ letter'[o] = "requeued"
                   \/ status'[o] = "cancelled"
                   \/ /\ \E w \in Worker : wop[w] = o /\ wpc[w] = "fail" /\ wpc'[w] = "announce"
                      /\ status'[o] = "failed"
                   \/ \E w \in Worker :
                      /\ wop[w] = o /\ wpc[w] = "commit" /\ wpc'[w] \in {"return", "fail"}
                      /\ status'[o] = "succeeded" /\ <<"succeeded", o>> \in events'
                      /\ docId'[o] = DocumentId(w) /\ file[w] \in documents'
<1> SUFFICES Goal
  OBVIOUS
<1>0. /\ status \in [Op -> Status] /\ docId \in [Op -> (Op \X Nat) \cup {None, Unsaved}]
      /\ letter \in [Op -> {"none", "pending_review", "requeued", "discarded"}]
      /\ wpc \in [Worker -> {"idle", "read", "claim", "return", "throw"} \cup Claimed]
      /\ running \in [Worker -> [op : Op \cup {None}, attempts : Nat, doc : (Op \X Nat) \cup {None, Unsaved}]]
      /\ \A w \in Worker : wpc[w] \in Claimed => running[w].op = wop[w]
  BY DEF TInv, RowTypes, EventTypes, WorkTypes
<1>1. ASSUME UNCHANGED opVars PROVE Goal
  BY <1>1 DEF opVars
<1>2. ASSUME NEW x \in Op, Request(x) PROVE Goal
  BY <1>0, <1>2 DEF Request
<1>3. ASSUME NEW x \in Op, Recover(x) PROVE Goal
  BY <1>0, <1>1, <1>3 DEF Recover, RecoverStale, RetryDeadLetter, DiscardDeadLetter, PendingAgain
<1>4. ASSUME NEW w \in Worker, wpc[w] = "commit", SaveSuccess(w),
             SaveDocument(w), wpc'[w] \in {"return", "fail"}
      PROVE  Goal
  <2>1. running[w].op = wop[w]
    BY <1>0, <1>4 DEF Claimed
  <2> DEFINE r == [running[w] EXCEPT !.doc = DocumentId(w)]
  <2>2. r.op = wop[w] /\ r.doc = DocumentId(w) /\ DocumentId(w) \in (Op \X Nat) \cup {None, Unsaved}
    BY <1>4, SavedCopy
  <2>3. status' = [status EXCEPT ![r.op] = "succeeded"] /\ docId' = [docId EXCEPT ![r.op] = r.doc]
    BY <1>4 DEF SaveSuccess, SaveOperation
  <2>4. <<"succeeded", wop[w]>> \in events' /\ file[w] \in documents'
    BY <1>4 DEF SaveSuccess, SaveDocument, Announce
  <2> HIDE DEF r
  <2> QED
    BY <1>0, <1>4, <2>2, <2>3, <2>4
<1>5. ASSUME NEW w \in Worker, Run(w) PROVE Goal
  <2>1. CASE Claim(w)
    BY <1>0, <2>1 DEF Claim, Claimable, dataVars
  <2>2. CASE SaveFailure(w)
    <3>1. wpc[w] = "fail" /\ wpc'[w] = "announce" /\ running[w].op = wop[w]
      BY <1>0, <2>2 DEF SaveFailure, Step, Claimed
    <3>2. status' = [status EXCEPT ![wop[w]] = "failed"]
          /\ docId' = [docId EXCEPT ![wop[w]] = running[w].doc]
      BY <2>2, <3>1 DEF SaveFailure, SaveOperation
    <3> QED
      BY <1>0, <3>1, <3>2
  <2>3. CASE Commit(w)
    BY <1>0, <1>4, <2>3 DEF Commit, Step
  <2>4. CASE CommitFails(w)
    <3>1. wpc[w] = "commit" /\ wpc'[w] = "fail"
      BY <1>0, <2>4 DEF CommitFails, Step
    <3> QED
      BY <1>1, <1>4, <2>4, <3>1 DEF CommitFails
  <2>5. CASE GetOperation(w) \/ Render(w) \/ Recheck(w) \/ Put(w) \/ AppendFailure(w)
             \/ DeadLetter(w) \/ StatementFails(w)
    BY <1>1, <2>5
       DEF GetOperation, Render, Recheck, Put, AppendFailure, DeadLetter, StatementFails
  <2> QED
    BY <1>5, <2>1, <2>2, <2>3, <2>4, <2>5 DEF Run
<1>6. ASSUME NEW c \in Caller, Cancel(c) PROVE Goal
  <2>1. CASE CancelSave(c)
    BY <1>0, <2>1 DEF CancelSave, SaveOperation
  <2>2. CASE ~CancelSave(c)
    BY <1>1, <1>6, <2>2 DEF Cancel, CancelRead, CancelAppend, CancelFails
  <2> QED
    BY <2>1, <2>2
<1>7. ASSUME NEW x \in Op, StalledCheck(x) \/ BackoffOver(x) \/ Evict(x) PROVE Goal
  BY <1>1, <1>7 DEF StalledCheck, BackoffOver, Evict
<1>8. ASSUME NEW call, Enqueue(call) \/ EnqueueLost(call) PROVE Goal
  BY <1>1, <1>8 DEF Enqueue, EnqueueLost
<1>9. ASSUME NEW w \in Worker, JobSettles(w) \/ WorkerCrash(w) \/ \E x \in Op : TakeJob(w, x)
      PROVE  Goal
  BY <1>1, <1>9 DEF JobSettles, WorkerCrash, TakeJob
<1>10. ASSUME NEW f, Expire(f) PROVE Goal
  BY <1>1, <1>10 DEF Expire
<1>11. CASE Retain
  BY <1>1, <1>11
     DEF Retain, ListExpired, DeleteObject, DeleteDocument, AnnounceDeleted, RetentionFails
<1>12. CASE UNCHANGED vars
  BY <1>1, <1>12 DEF vars
<1> QED
  BY <1>2, <1>3, <1>5, <1>6, <1>7, <1>8, <1>9, <1>10, <1>11, <1>12 DEF Next

\* A cancelled operation comes back only through the save of a worker that had claimed it
\* before, or through an operator's retry of its letter (claim, recoverStale, cancel).
THEOREM CancellationHolds == Spec => CancelHolds
<1>1. TInv /\ [Next]_vars =>
        [\A o \in Op : status[o] = "cancelled" /\ status'[o] # "cancelled" =>
           \/ \E w \in Worker : wop[w] = o /\ wpc[w] \in PastClaim /\ wpc'[w] # wpc[w]
           \/ letter'[o] = "requeued"]_vars
  <2> SUFFICES ASSUME TInv, [Next]_vars, NEW o \in Op,
                      status[o] = "cancelled", status'[o] # "cancelled"
               PROVE  \/ \E w \in Worker : wop[w] = o /\ wpc[w] \in PastClaim /\ wpc'[w] # wpc[w]
                      \/ letter'[o] = "requeued"
    OBVIOUS
  <2> QED
    BY WhoWrites DEF PastClaim
<1>2. Spec => []TInv
  BY TypesInit, TypesNext, PTL DEF Spec
<1> QED
  BY <1>1, <1>2, PTL DEF Spec, CancelHolds

-----------------------------------------------------------------------------
(* What is left of the environment's steps                                 *)

Certain == left.slow = MaxSlow /\ left.doubt = MaxDoubt /\ left.retry = MaxRetry

Unrepeated == left.repeat = MaxRepeat

Kinds == {"fault", "slow", "doubt", "repeat", "cancel", "retry", "evict"}

LeftTypes ==
  /\ left \in [Kinds \cup {"any"} -> Nat]
  /\ left["repeat"] <= MaxRepeat
  /\ left["slow"] <= MaxSlow /\ left["doubt"] <= MaxDoubt /\ left["retry"] <= MaxRetry

\* Spent is spent.
LEMMA Spent ==
  ASSUME LeftTypes, NEW k \in Kinds, Spend(k)
  PROVE  /\ left' \in [Kinds \cup {"any"} -> Nat]
         /\ \A j \in Kinds : left'[j] = IF j = k THEN left[j] - 1 ELSE left[j]
         /\ left[k] > 0
<1>1. "any" \notin Kinds
  BY DEF Kinds
<1> HIDE DEF Kinds
<1>2. left[k] > 0 /\ left["any"] > 0
  BY DEF Spend
<1>3. left' = [[left EXCEPT ![k] = left[k] - 1] EXCEPT !["any"] = left["any"] - 1]
  BY <1>1 DEF Spend, LeftTypes
<1>4. left \in [Kinds \cup {"any"} -> Nat]
  BY DEF LeftTypes
<1>5. left[k] - 1 \in Nat /\ left["any"] - 1 \in Nat
  BY <1>2, <1>4
<1>6. left' \in [Kinds \cup {"any"} -> Nat]
  BY <1>3, <1>4, <1>5
<1>7. \A j \in Kinds : left'[j] = IF j = k THEN left[j] - 1 ELSE left[j]
  BY <1>1, <1>3, <1>4
<1> QED
  BY <1>2, <1>6, <1>7

LEMMA LeftStep ==
  ASSUME LeftTypes, [Next]_vars
  PROVE  LeftTypes' /\ (Certain' => Certain) /\ (Unrepeated' => Unrepeated)
<1>0. MaxRepeat \in Nat /\ MaxSlow \in Nat /\ MaxDoubt \in Nat /\ MaxRetry \in Nat
  BY DocumentAssumption DEF DocumentAssumption
<1>1. CASE UNCHANGED left
  BY <1>1 DEF LeftTypes, Certain, Unrepeated
<1>2. ASSUME NEW k \in Kinds, Spend(k)
      PROVE  LeftTypes' /\ (Certain' => Certain) /\ (Unrepeated' => Unrepeated)
  <2>1. /\ left \in [Kinds \cup {"any"} -> Nat] /\ left' \in [Kinds \cup {"any"} -> Nat]
        /\ \A j \in Kinds : left'[j] <= left[j]
    BY <1>2, Spent DEF LeftTypes
  <2>2. {"slow", "doubt", "retry", "repeat"} \subseteq Kinds
    BY DEF Kinds
  <2> HIDE DEF Kinds
  <2>3. LeftTypes'
    BY <1>0, <2>1, <2>2 DEF LeftTypes
  <2>4. Certain' => Certain
    BY <1>0, <2>1, <2>2 DEF LeftTypes, Certain
  <2>5. Unrepeated' => Unrepeated
    BY <1>0, <2>1, <2>2 DEF LeftTypes, Unrepeated
  <2> QED
    BY <2>3, <2>4, <2>5
<1>3. UNCHANGED left \/ \E k \in Kinds : Spend(k)
  BY DEF Kinds, Next, Run, Cancel, Recover, Retain, vars, Request, Enqueue, EnqueueLost,
         StalledCheck, BackoffOver, Evict, TakeJob, JobSettles, WorkerCrash, GetOperation, Claim,
         Render, Recheck, Put, Commit, CommitFails, SaveFailure, AppendFailure, DeadLetter,
         StatementFails, CancelRead, CancelSave, CancelAppend, CancelFails, RecoverStale,
         RetryDeadLetter, DiscardDeadLetter, Expire, ListExpired, DeleteObject, DeleteDocument,
         AnnounceDeleted, RetentionFails
<1> QED
  BY <1>1, <1>2, <1>3

LEMMA Repeated ==
  ASSUME LeftTypes, Unrepeated', Spend("repeat")
  PROVE  FALSE
<1>1. "repeat" \in Kinds
  BY DEF Kinds
<1>2. left'["repeat"] = left["repeat"] - 1 /\ left["repeat"] \in Nat
  BY <1>1, Spent DEF LeftTypes
<1> QED
  BY <1>2, DocumentAssumption DEF DocumentAssumption, LeftTypes, Unrepeated

LEMMA LeftInit == Init => LeftTypes
BY DocumentAssumption DEF DocumentAssumption, Init, LeftTypes, Kinds

-----------------------------------------------------------------------------
(* Objects, documents and successes                                        *)

Filed == documents \cup purged

\* What retention is about to delete is, or was, a document.
Expiring == expired \subseteq Filed /\ (tpc = "delete" => row \in Filed)

LEMMA ExpiringStep ==
  ASSUME Expiring, [Next]_vars
  PROVE  Expiring'
<1>1. Filed \subseteq Filed'
  BY StoreGrows DEF Filed
<1>2. expired' \subseteq expired \cup documents /\ (tpc' = "delete" => row' \in expired \/ (tpc = "delete" /\ row' = row))
  BY DEF Next, Run, Cancel, Recover, Retain, vars, retainVars, Request, Enqueue, EnqueueLost,
         StalledCheck, BackoffOver, Evict, TakeJob, JobSettles, WorkerCrash, GetOperation, Claim,
         Render, Recheck, Put, Commit, CommitFails, SaveFailure, AppendFailure, DeadLetter,
         StatementFails, CancelRead, CancelSave, CancelAppend, CancelFails, RecoverStale,
         RetryDeadLetter, DiscardDeadLetter, Expire, ListExpired, DeleteObject, DeleteDocument,
         AnnounceDeleted, RetentionFails
<1> QED
  BY <1>1, <1>2 DEF Expiring, Filed

\* As long as no reference is given twice: what is about to be committed has its object,
\* and is nobody else's.
Stored ==
  Unrepeated =>
    /\ documents \subseteq objects \cup due
    /\ expired \subseteq due
    /\ \A w \in Worker : wpc[w] = "commit" => file[w] \in objects /\ file[w] \notin Filed \cup due
    /\ \A v, w \in Worker : wpc[v] = "commit" /\ wpc[w] = "commit" /\ file[v] = file[w] => v = w

LEMMA StoredInit == Init => Stored
BY DEF Init, Stored, Filed

\* What a step that commits and puts nothing has to leave alone.
LEMMA StoredKept ==
  ASSUME Stored, Unrepeated, NEW gone \in SUBSET due,
         objects \ gone \subseteq objects', Filed' = Filed, documents' \subseteq documents,
         due \subseteq due', due' \subseteq due \cup documents, expired' \subseteq due',
         \A w \in Worker : wpc'[w] = "commit" => wpc[w] = "commit" /\ file'[w] = file[w]
  PROVE  Stored'
<1>1. \A w \in Worker : wpc'[w] = "commit" => file'[w] \in objects' /\ file'[w] \notin (Filed \cup due)'
  BY DEF Stored, Filed
<1>2. documents' \subseteq objects' \cup due'
  BY DEF Stored
<1>3. \A v, w \in Worker : wpc'[v] = "commit" /\ wpc'[w] = "commit" /\ file'[v] = file'[w] => v = w
  BY DEF Stored
<1> QED
  BY <1>1, <1>2, <1>3 DEF Stored

LEMMA StoredStep ==
  ASSUME TInv, LeftTypes, Expiring, Stored, [Next]_vars
  PROVE  Stored'
<1> SUFFICES ASSUME Unrepeated' PROVE Stored'
  BY DEF Stored
<1>u. Unrepeated
  BY LeftStep
<1>0. /\ documents \subseteq objects \cup due /\ expired \subseteq due
      /\ \A w \in Worker : wpc[w] = "commit" => file[w] \in objects /\ file[w] \notin Filed \cup due
      /\ \A v, w \in Worker : wpc[v] = "commit" /\ wpc[w] = "commit" /\ file[v] = file[w] => v = w
  BY <1>u DEF Stored
<1>t. /\ wpc \in [Worker -> {"idle", "read", "claim", "return", "throw"} \cup Claimed]
      /\ file \in [Worker -> (Op \X Nat) \cup {None, Unsaved}]
  BY DEF TInv, WorkTypes
<1>1. ASSUME UNCHANGED <<objects, documents, purged, due, expired>>,
             \A w \in Worker : wpc'[w] = "commit" => wpc[w] = "commit" /\ file'[w] = file[w]
      PROVE  Stored'
  BY <1>0, <1>1, <1>u, StoredKept DEF Filed
<1>2. ASSUME NEW w \in Worker, Run(w) PROVE Stored'
  <2>1. CASE Put(w)
    <3>1. CASE wpc' = [wpc EXCEPT ![w] = "fail"]
      <4>1. UNCHANGED <<documents, purged, due, expired, file>> /\ objects \subseteq objects'
        BY <1>t, <2>1, <3>1, PutPuts DEF Put, retainVars
      <4> QED
        BY <1>0, <1>t, <1>u, <3>1, <4>1, StoredKept DEF Filed
    <3>2. CASE wpc' = [wpc EXCEPT ![w] = "commit"]
      <4>1. PICK o \in Op : o = wop[w]
        BY <2>1, PutPuts
      <4>2. PICK n \in 1..puts'[o] :
              /\ objects' = objects \cup {<<o, n>>} /\ file' = [file EXCEPT ![w] = <<o, n>>]
              /\ n = puts[o] + 1 \/ Spend("repeat")
        BY <1>t, <2>1, <3>2, <4>1, PutPuts
      <4>3. n = puts[o] + 1 /\ puts[o] \in Nat
        BY <4>2, Repeated DEF TInv, PutTypes
      <4>4. <<o, n>> \notin AllFiles
        BY <4>3 DEF AllFiles, File
      <4>5. UNCHANGED <<documents, purged, due, expired>> /\ Filed' = Filed
        BY <2>1 DEF Put, retainVars, Filed
      <4>6. Filed \cup due \subseteq AllFiles
        BY DEF TInv, FileTypes, Filed
      <4>7. \A v \in Worker : wpc[v] = "commit" => file[v] \in AllFiles
        BY DEF TInv, WorkTypes, AllFiles, Claimed
      <4>8. /\ \A v \in Worker : wpc'[v] = "commit" =>
                 file'[v] \in objects' /\ file'[v] \notin Filed \cup due
            /\ \A v, x \in Worker :
                 wpc'[v] = "commit" /\ wpc'[x] = "commit" /\ file'[v] = file'[x] => v = x
        <5> DEFINE f == <<o, n>>
        <5> HIDE DEF f, AllFiles, Filed
        <5>1. objects' = objects \cup {f} /\ file' = [file EXCEPT ![w] = f] /\ f \notin AllFiles
          BY <4>2, <4>4 DEF f
        <5> QED
          BY <1>0, <1>t, <3>2, <4>6, <4>7, <5>1
      <4> QED
        BY <1>0, <4>2, <4>5, <4>8 DEF Stored
    <3> QED
      BY <2>1, <3>1, <3>2, PutPuts
  <2>2. CASE Commit(w) \/ CommitFails(w)
    <3>1. /\ wpc[w] = "commit" /\ UNCHANGED <<objects, purged, expired, file>>
          /\ SaveDocument(w) \/ UNCHANGED <<documents, due>>
          /\ wpc' = [wpc EXCEPT ![w] = "return"] \/ wpc' = [wpc EXCEPT ![w] = "fail"]
      BY <2>2 DEF Commit, CommitFails, Step, workVars
    <3>2. \A v \in Worker : wpc'[v] = "commit" => wpc[v] = "commit" /\ v # w
      BY <1>t, <3>1
    <3>3. CASE SaveDocument(w)
      <4>1. documents' = documents \cup {file[w]} /\ due' = due /\ Filed' = Filed \cup {file[w]}
            /\ file[w] \in objects
        BY <1>0, <3>1, <3>3 DEF SaveDocument, Filed
      <4>2. \A v \in Worker : wpc'[v] = "commit" => file'[v] \in objects' /\ file'[v] \notin (Filed \cup due)'
        BY <1>0, <3>1, <3>2, <4>1
      <4>3. \A v, x \in Worker : wpc'[v] = "commit" /\ wpc'[x] = "commit" /\ file'[v] = file'[x] => v = x
        BY <1>0, <3>1, <3>2
      <4> QED
        BY <1>0, <3>1, <4>1, <4>2, <4>3 DEF Stored
    <3>4. CASE UNCHANGED <<documents, due>>
      BY <1>1, <3>1, <3>2, <3>4
    <3> QED
      BY <3>1, <3>3, <3>4
  <2>3. CASE GetOperation(w) \/ Claim(w) \/ Render(w) \/ Recheck(w) \/ SaveFailure(w)
             \/ AppendFailure(w) \/ DeadLetter(w) \/ StatementFails(w)
    <3>1. UNCHANGED <<objects, documents, purged, due, expired, file>>
      BY <2>3 DEF GetOperation, Claim, Render, Recheck, SaveFailure, AppendFailure, DeadLetter,
                  StatementFails, workVars, dataVars, retainVars
    <3>2. \E p : p # "commit" /\ wpc' = [wpc EXCEPT ![w] = p]
      BY <2>3 DEF GetOperation, Claim, Render, Recheck, SaveFailure, AppendFailure, DeadLetter,
                  StatementFails, Step
    <3>3. \A v \in Worker : wpc'[v] = "commit" => wpc[v] = "commit"
      BY <1>t, <3>2
    <3> QED
      BY <1>1, <3>1, <3>3
  <2> QED
    BY <1>2, <2>1, <2>2, <2>3 DEF Run
<1>3. ASSUME NEW w \in Worker, Forget(w), UNCHANGED <<dataVars, retainVars>> PROVE Stored'
  BY <1>t, <1>1, <1>3 DEF Forget, dataVars, retainVars
<1>4. ASSUME NEW w \in Worker, JobSettles(w) \/ WorkerCrash(w) PROVE Stored'
  BY <1>3, <1>4 DEF JobSettles, WorkerCrash
<1>5. ASSUME NEW w \in Worker, NEW o \in Op, TakeJob(w, o) PROVE Stored'
  BY <1>t, <1>1, <1>5 DEF TakeJob, dataVars, retainVars
<1>6. CASE Retain
  <2>w. \A w \in Worker : wpc'[w] = "commit" => wpc[w] = "commit" /\ file'[w] = file[w]
    BY <1>6 DEF Retain, ListExpired, DeleteObject, DeleteDocument, AnnounceDeleted, RetentionFails,
                workVars
  <2>1. CASE ListExpired \/ RetentionFails \/ AnnounceDeleted
    <3>1. UNCHANGED <<objects, documents, purged, due>> /\ expired' \subseteq due
      BY <1>0, <2>1 DEF ListExpired, RetentionFails, AnnounceDeleted, dataVars
    <3> QED
      BY <1>u, <2>w, <3>1, StoredKept DEF Filed
  <2>2. CASE DeleteObject
    <3>1. /\ objects \ expired \subseteq objects' /\ UNCHANGED <<documents, purged, due>>
          /\ expired' \subseteq expired
      BY <2>2 DEF DeleteObject
    <3> QED
      BY <1>0, <1>u, <2>w, <3>1, StoredKept DEF Filed
  <2>3. CASE DeleteDocument
    <3>1. /\ UNCHANGED <<objects, due, expired>> /\ documents' \subseteq documents
          /\ Filed' \subseteq Filed \cup {row} /\ Filed \subseteq Filed'
      BY <2>3 DEF DeleteDocument, Filed
    <3>2. Filed' = Filed
      BY <2>3, <3>1 DEF DeleteDocument, Expiring
    <3> QED
      BY <1>0, <1>u, <2>w, <3>1, <3>2, StoredKept
  <2> QED
    BY <1>6, <2>1, <2>2, <2>3 DEF Retain
<1>7. ASSUME UNCHANGED <<documents, purged, objects, due, expired, wpc, workVars>> PROVE Stored'
  BY <1>1, <1>7 DEF workVars
<1>8. ASSUME NEW c \in Caller, Cancel(c) PROVE Stored'
  BY <1>7, <1>8 DEF Cancel, CancelRead, CancelSave, CancelAppend, CancelFails, dataVars, retainVars
<1>9. ASSUME NEW o \in Op, Request(o) \/ StalledCheck(o) \/ BackoffOver(o) \/ Evict(o) \/ Recover(o)
       PROVE  Stored'
  BY <1>7, <1>9 DEF Request, StalledCheck, BackoffOver, Evict, Recover, RecoverStale,
                     RetryDeadLetter, DiscardDeadLetter, dataVars, retainVars
<1>10. ASSUME NEW call, Enqueue(call) \/ EnqueueLost(call) PROVE Stored'
  BY <1>7, <1>10 DEF Enqueue, EnqueueLost, dataVars, retainVars
<1>11. ASSUME NEW f \in documents \ due, Expire(f) PROVE Stored'
  <2>1. /\ due' = due \cup {f} /\ UNCHANGED <<documents, purged, objects, expired, wpc, file>>
    BY <1>11 DEF Expire, dataVars, workVars
  <2> QED
    BY <1>0, <1>u, <1>11, <2>1, StoredKept DEF Filed
<1>12. CASE UNCHANGED vars
  BY <1>7, <1>12 DEF vars, dataVars, retainVars
<1> QED
  BY <1>2, <1>4, <1>5, <1>6, <1>8, <1>9, <1>10, <1>11, <1>12 DEF Next

\* A file bears the name of its operation.
LEMMA FileNames ==
  /\ \A o \in Op : \A f \in File(o) : f[1] = o
  /\ \A f \in AllFiles : f[1] \in Op
<1>1. \A o \in Op : \A f \in File(o) : f[1] = o
  BY DEF File
<1> QED
  BY <1>1 DEF AllFiles

\* What the environment has left, what retention is at, and the objects behind documents.
StoreInv == TInv /\ LeftTypes /\ Expiring /\ Stored

LEMMA StoreInvariant == Spec => []StoreInv
<1>1. Init => StoreInv
  <2>1. Init => Expiring
    BY DEF Init, Expiring
  <2> QED
    BY <2>1, TypesInit, LeftInit, StoredInit DEF StoreInv
<1>2. StoreInv /\ [Next]_vars => StoreInv'
  BY TypesNext, LeftStep, ExpiringStep, StoredStep DEF StoreInv
<1> QED
  BY <1>1, <1>2, PTL DEF Spec

\* A document row lacks its object only when retention has begun to delete it: the object
\* is put before the commit, and only an expired one is deleted; unless the storage gives a
\* reference twice (runGeneration, enforceRetention).
THEOREM ObjectBehindDocument == Spec => []DocumentHasObject
<1>1. StoreInv => DocumentHasObject
  BY DEF StoreInv, Stored, Unrepeated, DocumentHasObject
<1> QED
  BY <1>1, StoreInvariant, PTL

\* An operation that reports success names a document that was committed with it: no
\* other write sets the status, none that keeps it changes the document's id, and
\* documents only move to the purged; or the storage has given a reference twice, and then
\* an earlier document of the operation bears it (runGeneration, saveDocument,
\* enforceRetention).
THEOREM SuccessIsBacked == Spec => []SucceededHasDocument
<1>1. Init => SucceededHasDocument
  BY DEF Init, SucceededHasDocument
<1>2. StoreInv /\ StoreInv' /\ SucceededHasDocument /\ [Next]_vars => SucceededHasDocument'
  <2> SUFFICES ASSUME StoreInv, StoreInv', SucceededHasDocument, [Next]_vars,
                      NEW o \in Op, status'[o] = "succeeded"
               PROVE  /\ <<"succeeded", o>> \in events'
                      /\ \/ docId'[o] \in Filed'
                         \/ /\ docId'[o] = Unsaved /\ left'.repeat < MaxRepeat
                            /\ \E f \in Filed' : f[1] = o
    BY DEF SucceededHasDocument, Filed
  <2>0. TInv /\ LeftTypes /\ LeftTypes' /\ Stored
    BY DEF StoreInv
  <2>1. /\ left.repeat \in Nat /\ left'.repeat \in Nat
        /\ left.repeat <= MaxRepeat /\ left'.repeat <= MaxRepeat /\ MaxRepeat \in Nat
    BY <2>0, DocumentAssumption DEF DocumentAssumption, LeftTypes, Kinds
  <2>2. left.repeat < MaxRepeat => left'.repeat < MaxRepeat
    <3>1. Unrepeated' => Unrepeated
      BY <2>0, LeftStep
    <3> QED
      BY <2>1, <3>1 DEF Unrepeated
  <2>3. Filed \subseteq Filed' /\ events \subseteq events'
    BY StoreGrows DEF Filed
  <2>4. CASE status'[o] = status[o] /\ docId'[o] = docId[o]
    <3>1. /\ <<"succeeded", o>> \in events
          /\ \/ docId[o] \in Filed
             \/ docId[o] = Unsaved /\ left.repeat < MaxRepeat /\ \E f \in Filed : f[1] = o
      BY <2>4 DEF SucceededHasDocument, Filed
    <3> QED
      BY <2>2, <2>3, <2>4, <3>1
  <2>5. ASSUME NEW w \in Worker, wop[w] = o, wpc[w] = "commit", <<"succeeded", o>> \in events',
               docId'[o] = DocumentId(w), file[w] \in documents'
        PROVE  /\ <<"succeeded", o>> \in events'
               /\ \/ docId'[o] \in Filed'
                  \/ docId'[o] = Unsaved /\ left'.repeat < MaxRepeat /\ \E f \in Filed' : f[1] = o
    <3>1. file[w] \in Filed' /\ file[w][1] = o
      BY <2>0, <2>5, SavedCopy, FileNames DEF Filed
    <3>2. CASE file[w] \notin documents
      BY <2>5, <3>1, <3>2 DEF DocumentId
    <3>3. CASE file[w] \in documents
      <4>1. ~Unrepeated
        BY <2>0, <2>5, <3>3 DEF Stored, Filed
      <4>2. left'.repeat < MaxRepeat
        BY <2>1, <2>2, <4>1 DEF Unrepeated
      <4> QED
        BY <2>5, <3>1, <3>3, <4>2 DEF DocumentId
    <3> QED
      BY <3>2, <3>3
  <2> QED
    BY <2>0, <2>4, <2>5, WhoWrites
<1> QED
  BY <1>1, <1>2, StoreInvariant, PTL DEF Spec

-----------------------------------------------------------------------------
(***************************************************************************)
(* One document.  As long as no worker outlives its lock, no commit is in  *)
(* doubt and no letter is retried, the lock is the worker's alone, and     *)
(* what has a document is settled for good.                                *)
(***************************************************************************)
Unretried == \A o \in Op : letter[o] # "requeued"

\* Whoever works on a job has its lock.
Locked == \A w \in Worker : wpc[w] # "idle" => holder[wop[w]] = w

\* What has a document has succeeded, or was cancelled afterwards, and nobody is at it.
Over ==
  \A f \in Filed :
    /\ status[f[1]] \in {"succeeded", "cancelled"}
    /\ \A w \in Worker : wop[w] = f[1] => wpc[w] \notin PastClaim

Unique == \A f, g \in Filed : f[1] = g[1] => f = g

Single == Certain => Unretried /\ Locked /\ Over /\ Unique

\* No step that spends slowness, doubt or a retry leads to a certain state.
LEMMA Unspent ==
  ASSUME LeftTypes, Certain', NEW k \in {"slow", "doubt", "retry"}, Spend(k)
  PROVE  FALSE
<1>0. MaxSlow \in Nat /\ MaxDoubt \in Nat /\ MaxRetry \in Nat /\ k \in Kinds
  BY DocumentAssumption DEF DocumentAssumption, Kinds
<1>1. left'[k] = left[k] - 1 /\ left[k] \in Nat
  BY <1>0, Spent DEF LeftTypes
<1>2. left'["slow"] = MaxSlow /\ left'["doubt"] = MaxDoubt /\ left'["retry"] = MaxRetry
  BY DEF Certain
<1> QED
  BY <1>0, <1>1, <1>2 DEF LeftTypes

\* Only an operator's retry asks for a letter again.
LEMMA RetryStep ==
  ASSUME TInv, LeftTypes, [Next]_vars, Certain', Unretried
  PROVE  Unretried'
<1>0. letter \in [Op -> {"none", "pending_review", "requeued", "discarded"}]
  BY DEF TInv, EventTypes
<1>1. CASE UNCHANGED letter
  BY <1>1 DEF Unretried
<1>2. CASE \E w \in Worker : DeadLetter(w)
  BY <1>0, <1>2 DEF DeadLetter, Unretried
<1>3. ASSUME NEW o \in Op, RetryDeadLetter(o) \/ DiscardDeadLetter(o) PROVE FALSE
  BY <1>3, Unspent DEF RetryDeadLetter, DiscardDeadLetter
<1>4. \/ UNCHANGED letter \/ \E w \in Worker : DeadLetter(w)
      \/ \E o \in Op : RetryDeadLetter(o) \/ DiscardDeadLetter(o)
  BY DEF Next, Run, Cancel, Recover, Retain, vars, dataVars, Request, Enqueue, EnqueueLost,
         StalledCheck, BackoffOver, Evict, TakeJob, JobSettles, WorkerCrash, GetOperation, Claim,
         Render, Recheck, Put, Commit, CommitFails, SaveFailure, AppendFailure, DeadLetter,
         StatementFails, CancelRead, CancelSave, CancelAppend, CancelFails, RecoverStale,
         RetryDeadLetter, DiscardDeadLetter, Expire, ListExpired, DeleteObject, DeleteDocument,
         AnnounceDeleted, RetentionFails
<1> QED
  BY <1>1, <1>2, <1>3, <1>4

\* Documents come by a commit only, in doubt or not.
LEMMA FiledStep ==
  ASSUME Expiring, [Next]_vars
  PROVE  \/ Filed' = Filed
         \/ \E w \in Worker : Commit(w) /\ Filed' = Filed \cup {file[w]}
         \/ Spend("doubt")
<1>1. CASE UNCHANGED <<documents, purged>>
  BY <1>1 DEF Filed
<1>2. CASE DeleteDocument
  BY <1>2 DEF DeleteDocument, Filed, Expiring
<1>3. ASSUME NEW w \in Worker, Commit(w) \/ CommitFails(w)
      PROVE  \/ UNCHANGED <<documents, purged>>
             \/ Commit(w) /\ Filed' = Filed \cup {file[w]}
             \/ Spend("doubt")
  BY <1>3 DEF Commit, CommitFails, SaveDocument, Filed
<1>4. \/ UNCHANGED <<documents, purged>> \/ DeleteDocument
      \/ \E w \in Worker : Commit(w) \/ CommitFails(w)
  BY DEF Next, Run, Cancel, Recover, Retain, vars, dataVars, Request, Enqueue, EnqueueLost,
         StalledCheck, BackoffOver, Evict, TakeJob, JobSettles, WorkerCrash, GetOperation, Claim,
         Render, Recheck, Put, SaveFailure, AppendFailure, DeadLetter,
         StatementFails, CancelRead, CancelSave, CancelAppend, CancelFails, RecoverStale,
         RetryDeadLetter, DiscardDeadLetter, Expire, ListExpired, DeleteObject,
         AnnounceDeleted, RetentionFails
<1> QED
  BY <1>1, <1>2, <1>3, <1>4

\* What a step does to who works on what, and to the locks.
LEMMA LockStep ==
  ASSUME [Next]_vars
  PROVE  \/ UNCHANGED <<wpc, wop, holder>>
         \/ \E w \in Worker : Run(w) /\ UNCHANGED <<wop, holder>>
         \/ \E w \in Worker, o \in Op : TakeJob(w, o)
         \/ \E w \in Worker : JobSettles(w) \/ WorkerCrash(w)
         \/ \E o \in Op : StalledCheck(o) /\ UNCHANGED <<wpc, wop>>
<1>1. ASSUME NEW w \in Worker, Run(w) PROVE UNCHANGED <<wop, holder>>
  BY <1>1 DEF Run, GetOperation, Claim, Render, Recheck, Put, Commit, CommitFails, SaveFailure,
              AppendFailure, DeadLetter, StatementFails, workVars, jobVars
<1>2. ASSUME NEW c \in Caller, Cancel(c) PROVE UNCHANGED <<wpc, wop, holder>>
  BY <1>2 DEF Cancel, CancelRead, CancelSave, CancelAppend, CancelFails, workVars, jobVars
<1>3. ASSUME NEW o \in Op, Request(o) \/ BackoffOver(o) \/ Evict(o) \/ Recover(o)
      PROVE  UNCHANGED <<wpc, wop, holder>>
  BY <1>3 DEF Request, BackoffOver, Evict, Recover, RecoverStale, RetryDeadLetter,
              DiscardDeadLetter, workVars, jobVars
<1>4. ASSUME NEW o \in Op, StalledCheck(o) PROVE UNCHANGED <<wpc, wop>>
  BY <1>4 DEF StalledCheck, workVars
<1>5. ASSUME NEW call, Enqueue(call) \/ EnqueueLost(call) PROVE UNCHANGED <<wpc, wop, holder>>
  BY <1>5 DEF Enqueue, EnqueueLost, workVars, jobVars
<1>6. ASSUME NEW f, Expire(f) PROVE UNCHANGED <<wpc, wop, holder>>
  BY <1>6 DEF Expire, workVars, jobVars
<1>7. CASE Retain
  BY <1>7 DEF Retain, ListExpired, DeleteObject, DeleteDocument, AnnounceDeleted, RetentionFails,
              workVars, jobVars
<1>8. CASE UNCHANGED vars
  BY <1>8 DEF vars, workVars, jobVars
<1> QED
  BY <1>1, <1>2, <1>3, <1>4, <1>5, <1>6, <1>7, <1>8 DEF Next

\* A step of a worker is one of its own, and keeps it at work.
LEMMA RunMoves ==
  ASSUME TInv, NEW w \in Worker, Run(w)
  PROVE  /\ wpc[w] # "idle" /\ wpc'[w] # "idle" /\ \A v \in Worker \ {w} : wpc'[v] = wpc[v]
         /\ wpc'[w] \in PastClaim =>
              wpc[w] \in PastClaim \/ (wpc[w] = "claim" /\ Claimable(wop[w]))
<1>0. wpc \in [Worker -> {"idle", "read", "claim", "return", "throw"} \cup Claimed]
  BY DEF TInv, WorkTypes
<1>1. \E p \in {"return", "claim", "render", "recheck", "fail", "put", "commit", "throw", "announce", "letter"} :
        /\ wpc' = [wpc EXCEPT ![w] = p] /\ wpc[w] # "idle"
        /\ p \in PastClaim => wpc[w] \in PastClaim \/ (wpc[w] = "claim" /\ Claimable(wop[w]))
  <2>1. CASE GetOperation(w) \/ Recheck(w) \/ Render(w) \/ Put(w)
    BY <2>1 DEF GetOperation, Recheck, Render, Put, Step, PastClaim
  <2>2. CASE Claim(w)
    BY <2>2 DEF Claim, Step, PastClaim
  <2>3. CASE Commit(w) \/ CommitFails(w) \/ SaveFailure(w) \/ AppendFailure(w) \/ DeadLetter(w)
    BY <2>3 DEF Commit, CommitFails, SaveFailure, AppendFailure, DeadLetter, Step, PastClaim
  <2>4. CASE StatementFails(w)
    BY <2>4 DEF StatementFails, Step, PastClaim
  <2> QED
    BY <2>1, <2>2, <2>3, <2>4 DEF Run
<1> QED
  BY <1>0, <1>1

\* The lock goes from one worker to the next, and only a worker that is too slow loses it.
LEMMA LockedStep ==
  ASSUME TInv, LeftTypes, [Next]_vars, Certain', Locked
  PROVE  Locked'
<1>0. /\ wpc \in [Worker -> {"idle", "read", "claim", "return", "throw"} \cup Claimed]
      /\ wop \in [Worker -> Op \cup {None}] /\ holder \in [Op -> Worker \cup {None}]
      /\ \A o \in Op : holder[o] # None => job[o] = "active"
      /\ \A w \in Worker : wpc[w] = "idle" <=> wop[w] = None
      /\ None \notin Op /\ None \notin Worker
  BY NoneIsNoOp DEF TInv, WorkTypes, JobTypes, Lent
<1>1. CASE UNCHANGED <<wpc, wop, holder>>
  BY <1>1 DEF Locked
<1>2. ASSUME NEW w \in Worker, Run(w), UNCHANGED <<wop, holder>> PROVE Locked'
  BY <1>2, RunMoves DEF Locked
<1>3. ASSUME NEW w \in Worker, NEW o \in Op, TakeJob(w, o) PROVE Locked'
  <2>1. holder[o] = None
    BY <1>0, <1>3 DEF TakeJob
  <2>2. \A v \in Worker \ {w} : wpc[v] # "idle" => wop[v] # o
    BY <1>0, <2>1 DEF Locked
  <2>3. /\ holder' = [holder EXCEPT ![o] = w] /\ wpc' = [wpc EXCEPT ![w] = "read"]
        /\ wop' = [wop EXCEPT ![w] = o]
    BY <1>3 DEF TakeJob
  <2>4. ASSUME NEW v \in Worker, wpc'[v] # "idle" PROVE holder'[wop'[v]] = v
    BY <1>0, <2>2, <2>3, <2>4 DEF Locked
  <2> QED
    BY <2>4 DEF Locked
<1>4. ASSUME NEW w \in Worker, JobSettles(w) \/ WorkerCrash(w) PROVE Locked'
  <2>1. /\ wpc' = [wpc EXCEPT ![w] = "idle"] /\ wop' = [wop EXCEPT ![w] = None] /\ wpc[w] # "idle"
        /\ \A o \in Op : holder'[o] = holder[o] \/ holder[o] = w
    <3>1. CASE JobSettles(w)
      BY <1>0, <3>1 DEF JobSettles, Forget
    <3>2. CASE WorkerCrash(w)
      BY <1>0, <3>2 DEF WorkerCrash, Forget
    <3> QED
      BY <1>4, <3>1, <3>2
  <2>2. ASSUME NEW v \in Worker, wpc'[v] # "idle" PROVE holder'[wop'[v]] = v
    <3>1. v # w /\ wpc[v] # "idle" /\ wop'[v] = wop[v] /\ wop[v] \in Op /\ holder[wop[v]] = v
      BY <1>0, <2>1, <2>2 DEF Locked
    <3> QED
      BY <2>1, <3>1
  <2> QED
    BY <2>2 DEF Locked
<1>5. ASSUME NEW o \in Op, StalledCheck(o), UNCHANGED <<wpc, wop>> PROVE Locked'
  <2>1. holder[o] = None
    BY <1>5, Unspent DEF StalledCheck
  <2>2. holder' = [holder EXCEPT ![o] = None]
    BY <1>5 DEF StalledCheck
  <2>3. holder' = holder
    BY <1>0, <2>1, <2>2
  <2> QED
    BY <1>5, <2>3 DEF Locked
<1> QED
  BY <1>1, <1>2, <1>3, <1>4, <1>5, LockStep

\* Nobody gets past the claim of an operation that has succeeded or is cancelled.
LEMMA PastStep ==
  ASSUME TInv, [Next]_vars, NEW o \in Op, status[o] \in {"succeeded", "cancelled"},
         \A w \in Worker : wop[w] = o => wpc[w] \notin PastClaim
  PROVE  \A w \in Worker : wop'[w] = o => wpc'[w] \notin PastClaim
<1>0. /\ wpc \in [Worker -> {"idle", "read", "claim", "return", "throw"} \cup Claimed]
      /\ wop \in [Worker -> Op \cup {None}]
  BY DEF TInv, WorkTypes
<1> SUFFICES ASSUME NEW v \in Worker, wop'[v] = o PROVE wpc'[v] \notin PastClaim
  OBVIOUS
<1>1. CASE UNCHANGED <<wpc, wop>>
  BY <1>1
<1>2. ASSUME NEW w \in Worker, Run(w), UNCHANGED wop PROVE wpc'[v] \notin PastClaim
  BY <1>2, RunMoves DEF Claimable
<1>3. ASSUME NEW w \in Worker, NEW x \in Op, TakeJob(w, x) PROVE wpc'[v] \notin PastClaim
  <2>1. wpc' = [wpc EXCEPT ![w] = "read"] /\ wop' = [wop EXCEPT ![w] = x]
    BY <1>3 DEF TakeJob
  <2> QED
    BY <1>0, <2>1 DEF PastClaim
<1>4. ASSUME NEW w \in Worker, JobSettles(w) \/ WorkerCrash(w) PROVE wpc'[v] \notin PastClaim
  <2>1. wpc' = [wpc EXCEPT ![w] = "idle"] /\ wop' = [wop EXCEPT ![w] = None]
    BY <1>4 DEF JobSettles, WorkerCrash, Forget
  <2> QED
    BY <1>0, <2>1 DEF PastClaim
<1> QED
  BY <1>1, <1>2, <1>3, <1>4, LockStep

LEMMA SingleStep ==
  ASSUME TInv, LeftTypes, Expiring, Single, [Next]_vars
  PROVE  Single'
<1> SUFFICES ASSUME Certain' PROVE Unretried' /\ Locked' /\ Over' /\ Unique'
  BY DEF Single
<1>1. Unretried /\ Locked /\ Over /\ Unique
  BY LeftStep DEF Single
<1>2. Unretried' /\ Locked'
  BY <1>1, RetryStep, LockedStep
<1>3. ASSUME NEW f \in Filed
      PROVE  /\ status'[f[1]] \in {"succeeded", "cancelled"}
             /\ \A w \in Worker : wop'[w] = f[1] => wpc'[w] \notin PastClaim
  <2>1. f[1] \in Op
    BY FileNames DEF TInv, FileTypes, Filed
  <2>2. /\ status[f[1]] \in {"succeeded", "cancelled"}
        /\ \A w \in Worker : wop[w] = f[1] => wpc[w] \notin PastClaim
    BY <1>1 DEF Over
  <2>3. status'[f[1]] \in {"succeeded", "cancelled"}
    <3>1. \/ status'[f[1]] = status[f[1]]
          \/ status[f[1]] \notin {"succeeded", "cancelled"}
          \/ letter'[f[1]] = "requeued"
          \/ status'[f[1]] \in {"succeeded", "cancelled"}
          \/ \E w \in Worker : wop[w] = f[1] /\ wpc[w] = "fail"
      BY <2>1, WhoWrites
    <3>2. letter'[f[1]] # "requeued"
      BY <1>2, <2>1 DEF Unretried
    <3>3. ~ \E w \in Worker : wop[w] = f[1] /\ wpc[w] = "fail"
      BY <2>2 DEF PastClaim
    <3> QED
      BY <2>2, <3>1, <3>2, <3>3
  <2> QED
    BY <2>1, <2>2, <2>3, PastStep
<1>4. CASE Filed' = Filed
  BY <1>1, <1>2, <1>3, <1>4 DEF Over, Unique
<1>5. ASSUME NEW w \in Worker, Commit(w), Filed' = Filed \cup {file[w]}
      PROVE  Over' /\ Unique'
  <2>1. /\ wpc[w] = "commit" /\ wop[w] \in Op /\ file[w] \in File(wop[w])
        /\ status \in [Op -> Status] /\ running[w].op = wop[w]
        /\ wpc \in [Worker -> {"idle", "read", "claim", "return", "throw"} \cup Claimed]
        /\ running[w] \in [op : Op \cup {None}, attempts : Nat, doc : (Op \X Nat) \cup {None, Unsaved}]
    BY <1>5 DEF Commit, Step, TInv, WorkTypes, RowTypes, Claimed
  <2>2. file[w][1] = wop[w]
    BY <2>1, FileNames
  <2>3. \A f \in Filed : f[1] # wop[w]
    BY <1>1, <2>1 DEF Over, PastClaim
  <2>4. status'[wop[w]] = "succeeded"
    <3> DEFINE r == [running[w] EXCEPT !.doc = file[w]]
    <3>1. r.op = wop[w]
      BY <2>1
    <3>2. status' = [status EXCEPT ![r.op] = "succeeded"]
      BY <1>5 DEF Commit, SaveSuccess, SaveOperation
    <3> HIDE DEF r
    <3> QED
      BY <2>1, <3>1, <3>2
  <2>5. ASSUME NEW v \in Worker, wop'[v] = wop[w] PROVE wpc'[v] \notin PastClaim
    <3>1. wpc' = [wpc EXCEPT ![w] = "return"] /\ wop' = wop
      BY <1>5 DEF Commit, Step, workVars
    <3>2. v # w => wpc[v] = "idle"
      BY <1>1, <2>1, <2>5, <3>1 DEF Locked
    <3> QED
      BY <2>1, <3>1, <3>2 DEF PastClaim
  <2>6. Over'
    BY <1>3, <1>5, <2>2, <2>4, <2>5 DEF Over
  <2>7. Unique'
    BY <1>1, <1>5, <2>2, <2>3 DEF Unique
  <2> QED
    BY <2>6, <2>7
<1>6. ~Spend("doubt")
  BY Unspent
<1> QED
  BY <1>2, <1>4, <1>5, <1>6, FiledStep

\* Crashes, failing statements, retries of the job, recoveries and cancellations never
\* give an operation a second document, as long as no worker outlives its lock, no commit
\* is in doubt and no operator retries a dead letter: the lock is one worker's, a commit
\* settles the operation with its document, and what is settled is not claimed again
\* (documentQueue.js, runGeneration, enforceRetention).
THEOREM DocumentIsUnique == Spec => []OneDocument
<1>1. Init => LeftTypes /\ Expiring /\ Single
  <2> SUFFICES ASSUME Init PROVE LeftTypes /\ Expiring /\ Single
    OBVIOUS
  <2>1. LeftTypes
    BY LeftInit
  <2>2. Expiring /\ Single
    BY DEF Init, Expiring, Single, Unretried, Locked, Over, Unique, Filed
  <2> QED
    BY <2>1, <2>2
<1>2. TInv /\ LeftTypes /\ Expiring /\ Single /\ [Next]_vars => (LeftTypes /\ Expiring /\ Single)'
  BY LeftStep, ExpiringStep, SingleStep
<1>3. Single => OneDocument
  <2> SUFFICES ASSUME Single, Certain, NEW o \in Op
               PROVE  Cardinality({f \in documents \cup purged : f[1] = o}) <= 1
    BY DEF OneDocument, Certain
  <2> DEFINE F == {f \in documents \cup purged : f[1] = o}
  <2>1. \A f, g \in F : f = g
    BY DEF Single, Unique, Filed
  <2>2. CASE F = {}
    BY <2>2, FS_EmptySet
  <2>3. CASE F # {}
    <3>1. PICK f \in F : F = {f}
      BY <2>1, <2>3
    <3> HIDE DEF F
    <3>2. Cardinality(F) = 1
      BY <3>1, FS_Singleton
    <3> QED
      BY <3>2 DEF F
  <2> QED
    BY <2>2, <2>3
<1>4. Spec => []TInv
  BY TypesInit, TypesNext, PTL DEF Spec
<1> QED
  BY <1>1, <1>2, <1>3, <1>4, PTL DEF Spec

-----------------------------------------------------------------------------
\* What may take a succeeded operation out of that state: a cancellation, the failure that a
\* worker saves over it from the copy it claimed before, an operator's retry.
SuccessYields(o) ==
  \/ status'[o] = "cancelled"
  \/ status'[o] = "failed" /\ \E w \in Worker : wop[w] = o /\ wpc[w] = "fail"
  \/ status'[o] = "pending" /\ letter'[o] = "requeued"

\* "terminal operation cannot be cancelled" does not hold, and this is all that can happen to
\* a success: no request, no recovery and no later claim takes it back, so that no worker
\* starts on a succeeded operation unless an operator asks for it.
THEOREM SuccessIsKept ==
  Spec => [][\A o \in Op : status[o] = "succeeded" /\ status'[o] # "succeeded" => SuccessYields(o)]_vars
<1>1. TInv /\ [Next]_vars =>
        [\A o \in Op : status[o] = "succeeded" /\ status'[o] # "succeeded" => SuccessYields(o)]_vars
  <2> SUFFICES ASSUME TInv, [Next]_vars, NEW o \in Op, status[o] = "succeeded", status'[o] # "succeeded"
               PROVE  SuccessYields(o)
    OBVIOUS
  <2> QED
    BY WhoWrites DEF SuccessYields
<1>2. Spec => []TInv
  BY TypesInit, TypesNext, PTL DEF Spec
<1> QED
  BY <1>1, <1>2, PTL DEF Spec

-----------------------------------------------------------------------------
(* Legal holds                                                             *)

\* What keeps a held document: retention has nothing of its operation in hand, and a
\* commit finds its object.
Kept ==
  /\ \A f \in Filed : f[1] \in Held => f \in documents \cap objects
  /\ \A f \in due \cup expired : f[1] \notin Held
  /\ \A w \in Worker : wpc[w] = "commit" /\ file[w][1] \in Held => file[w] \in objects

LEMMA KeptInit == Init => Kept
BY DEF Init, Kept, Filed

\* What a step that puts nothing has to leave alone.
LEMMA KeptStays ==
  ASSUME Kept, NEW gone, \A f \in gone : f[1] \notin Held,
         objects \ gone \subseteq objects', documents \ gone \subseteq documents',
         Filed' \subseteq Filed \cup gone, \A f \in (due \cup expired)' : f[1] \notin Held,
         \A w \in Worker : wpc'[w] = "commit" => wpc[w] = "commit" /\ file'[w] = file[w]
  PROVE  Kept'
BY DEF Kept

LEMMA KeptStep ==
  ASSUME TInv, Kept, [Next]_vars
  PROVE  Kept'
<1>0. /\ \A f \in Filed : f[1] \in Held => f \in documents \cap objects
      /\ \A f \in due \cup expired : f[1] \notin Held
      /\ \A w \in Worker : wpc[w] = "commit" /\ file[w][1] \in Held => file[w] \in objects
  BY DEF Kept
<1>t. /\ wpc \in [Worker -> {"idle", "read", "claim", "return", "throw"} \cup Claimed]
      /\ file \in [Worker -> (Op \X Nat) \cup {None, Unsaved}]
  BY DEF TInv, WorkTypes
<1>1. ASSUME UNCHANGED <<objects, documents, purged, due, expired>>,
             \A w \in Worker : wpc'[w] = "commit" => wpc[w] = "commit" /\ file'[w] = file[w]
      PROVE  Kept'
  <2>1. Filed' = Filed
    BY <1>1 DEF Filed
  <2> QED
    BY <1>0, <1>1, <2>1 DEF Kept
<1>2. ASSUME NEW w \in Worker, Run(w) PROVE Kept'
  <2>1. CASE Put(w)
    <3>0. UNCHANGED <<documents, purged, due, expired>> /\ Filed' = Filed
      BY <2>1 DEF Put, retainVars, Filed
    <3>1. objects \subseteq objects'
      BY <2>1, PutPuts
    <3>2. \A v \in Worker : wpc'[v] = "commit" => file'[v] \in objects' \/ (wpc[v] = "commit" /\ file'[v] = file[v])
      <4>1. CASE wpc' = [wpc EXCEPT ![w] = "fail"] /\ UNCHANGED file
        BY <1>t, <4>1
      <4>2. CASE /\ wpc' = [wpc EXCEPT ![w] = "commit"]
                 /\ \E f \in objects' : file' = [file EXCEPT ![w] = f]
        BY <1>t, <4>2
      <4>3. ASSUME NEW n \in 1..puts'[wop[w]], objects' = objects \cup {<<wop[w], n>>},
                   file' = [file EXCEPT ![w] = <<wop[w], n>>]
            PROVE  \E f \in objects' : file' = [file EXCEPT ![w] = f]
        BY <4>3
      <4> QED
        BY <2>1, <4>1, <4>2, <4>3, PutPuts
    <3> QED
      BY <1>0, <3>0, <3>1, <3>2 DEF Kept
  <2>2. CASE Commit(w) \/ CommitFails(w)
    <3>1. /\ wpc[w] = "commit" /\ UNCHANGED <<objects, purged, expired, file>>
          /\ SaveDocument(w) \/ UNCHANGED <<documents, due>>
          /\ wpc' = [wpc EXCEPT ![w] = "return"] \/ wpc' = [wpc EXCEPT ![w] = "fail"]
      BY <2>2 DEF Commit, CommitFails, Step, workVars
    <3>2. \A v \in Worker : wpc'[v] = "commit" => wpc[v] = "commit" /\ file'[v] = file[v]
      BY <1>t, <3>1
    <3>3. CASE SaveDocument(w)
      <4>1. documents' = documents \cup {file[w]} /\ due' \subseteq due
            /\ Filed' = Filed \cup {file[w]}
        BY <3>1, <3>3 DEF SaveDocument, Filed
      <4> QED
        BY <1>0, <3>1, <3>2, <4>1 DEF Kept
    <3>4. CASE UNCHANGED <<documents, due>>
      BY <1>1, <3>1, <3>2, <3>4
    <3> QED
      BY <3>1, <3>3, <3>4
  <2>3. CASE GetOperation(w) \/ Claim(w) \/ Render(w) \/ Recheck(w) \/ SaveFailure(w)
             \/ AppendFailure(w) \/ DeadLetter(w) \/ StatementFails(w)
    <3>1. UNCHANGED <<objects, documents, purged, due, expired, file>>
      BY <2>3 DEF GetOperation, Claim, Render, Recheck, SaveFailure, AppendFailure, DeadLetter,
                  StatementFails, workVars, dataVars, retainVars
    <3>2. \E p : p # "commit" /\ wpc' = [wpc EXCEPT ![w] = p]
      BY <2>3 DEF GetOperation, Claim, Render, Recheck, SaveFailure, AppendFailure, DeadLetter,
                  StatementFails, Step
    <3>3. \A v \in Worker : wpc'[v] = "commit" => wpc[v] = "commit"
      BY <1>t, <3>2
    <3> QED
      BY <1>1, <3>1, <3>3
  <2> QED
    BY <1>2, <2>1, <2>2, <2>3 DEF Run
<1>3. ASSUME NEW w \in Worker, Forget(w), UNCHANGED <<dataVars, retainVars>> PROVE Kept'
  BY <1>t, <1>1, <1>3 DEF Forget, dataVars, retainVars
<1>4. ASSUME NEW w \in Worker, JobSettles(w) \/ WorkerCrash(w) PROVE Kept'
  BY <1>3, <1>4 DEF JobSettles, WorkerCrash
<1>5. ASSUME NEW w \in Worker, NEW o \in Op, TakeJob(w, o) PROVE Kept'
  BY <1>t, <1>1, <1>5 DEF TakeJob, dataVars, retainVars
<1>6. CASE Retain
  <2>w. \A w \in Worker : wpc'[w] = "commit" => wpc[w] = "commit" /\ file'[w] = file[w]
    BY <1>6 DEF Retain, ListExpired, DeleteObject, DeleteDocument, AnnounceDeleted, RetentionFails,
                workVars
  <2>1. CASE ListExpired \/ RetentionFails \/ AnnounceDeleted
    <3>1. UNCHANGED <<objects, documents, purged, due>> /\ expired' \subseteq due \cup expired
      BY <2>1 DEF ListExpired, RetentionFails, AnnounceDeleted, dataVars
    <3>2. Filed' = Filed
      BY <3>1 DEF Filed
    <3> QED
      BY <1>0, <2>w, <3>1, <3>2 DEF Kept
  <2>2. CASE DeleteObject
    <3>1. /\ objects \ expired \subseteq objects' /\ UNCHANGED <<documents, purged, due>>
          /\ expired' \subseteq expired
      BY <2>2 DEF DeleteObject
    <3>2. Filed' = Filed
      BY <3>1 DEF Filed
    <3> QED
      BY <1>0, <2>w, <3>1, <3>2 DEF Kept
  <2>3. CASE DeleteDocument
    <3> DEFINE gone == {f \in {row} : f[1] \notin Held}
    <3>1. /\ UNCHANGED <<objects, due, expired>> /\ documents' = documents \ gone
          /\ purged' = purged \cup gone
      BY <2>3 DEF DeleteDocument
    <3>2. \A f \in gone : f[1] \notin Held
      OBVIOUS
    <3>3. Filed' \subseteq Filed \cup gone
      BY <3>1 DEF Filed
    <3> HIDE DEF gone
    <3> QED
      BY <1>0, <2>w, <3>1, <3>2, <3>3, KeptStays
  <2> QED
    BY <1>6, <2>1, <2>2, <2>3 DEF Retain
<1>7. ASSUME UNCHANGED <<documents, purged, objects, due, expired, wpc, workVars>> PROVE Kept'
  BY <1>1, <1>7 DEF workVars
<1>8. ASSUME NEW c \in Caller, Cancel(c) PROVE Kept'
  BY <1>7, <1>8 DEF Cancel, CancelRead, CancelSave, CancelAppend, CancelFails, dataVars, retainVars
<1>9. ASSUME NEW o \in Op, Request(o) \/ StalledCheck(o) \/ BackoffOver(o) \/ Evict(o) \/ Recover(o)
       PROVE  Kept'
  BY <1>7, <1>9 DEF Request, StalledCheck, BackoffOver, Evict, Recover, RecoverStale,
                     RetryDeadLetter, DiscardDeadLetter, dataVars, retainVars
<1>10. ASSUME NEW call, Enqueue(call) \/ EnqueueLost(call) PROVE Kept'
  BY <1>7, <1>10 DEF Enqueue, EnqueueLost, dataVars, retainVars
<1>11. ASSUME NEW f \in documents \ due, Expire(f) PROVE Kept'
  <2>1. /\ due' = due \cup {f} /\ UNCHANGED <<documents, purged, objects, expired, wpc, file>>
        /\ f[1] \notin Held /\ Filed' = Filed
    BY <1>11 DEF Expire, dataVars, workVars, Filed
  <2> QED
    BY <1>0, <2>1 DEF Kept
<1>12. CASE UNCHANGED vars
  BY <1>7, <1>12 DEF vars, dataVars, retainVars
<1> QED
  BY <1>2, <1>4, <1>5, <1>6, <1>8, <1>9, <1>10, <1>11, <1>12 DEF Next

\* Legal holds, for every number of workers and of documents: a document whose operation
\* was requested under one keeps its row and its object through every pass of retention,
\* crashes between its steps and repeated references included.
THEOREM HoldIsKept == Spec => []HoldKept
<1>1. Init => TInv /\ Kept
  BY TypesInit, KeptInit
<1>2. TInv /\ Kept /\ [Next]_vars => (TInv /\ Kept)'
  BY TypesNext, KeptStep
<1>3. Kept => HoldKept
  BY DEF Kept, HoldKept, Filed
<1> QED
  BY <1>1, <1>2, <1>3, PTL DEF Spec
=============================================================================
