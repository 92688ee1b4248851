------------------------ MODULE OrganizationProvisioning ------------------------
(***************************************************************************)
(* POST /owner/organizations with one idempotency key, sent again by a     *)
(* wizard that resumes or is impatient: index.js, the canonical sequence   *)
(* of services/organizationProvisioningCore.js, its recorder and the       *)
(* drafts.  Logto is external: a call to it succeeds, is refused, or times *)
(* out (services/runtime/timeouts.js) after it took effect.                *)
(*                                                                         *)
(* A request inserts at most one row into operational_operations and       *)
(* creates at most one organization, so row and organization bear the name *)
(* of their request.  Since migration 0028 the unique index on the rows is *)
(* (logto_organization_id, idempotency_key): rows that have no             *)
(* organization yet never conflict.                                        *)
(*                                                                         *)
(* Definitions under "Mutant" are faulty variants of the definition after  *)
(* them; nothing in the specification uses one.                            *)
(***************************************************************************)
EXTENDS Naturals, Sequences, FiniteSets

CONSTANTS Request,     \* requests that carry the key
          Contacts,    \* sequence of the administrative contacts, by the keys of their steps
          Overlap,     \* bound: requests in progress at once
          MaxRefuse,   \* bound: calls to Logto refused, role and template checks failed
          MaxFault,    \* bound: timeouts after the effect, failed statements, crashes
          None         \* no row, no organization

ASSUME ProvisioningAssumption ==
  /\ None \notin Request
  /\ Contacts \in Seq(STRING)
  /\ \A i \in DOMAIN Contacts : Contacts[i] \notin {"create", "domains", "roles"}
  /\ Overlap \in Nat \ {0}
  /\ MaxRefuse \in Nat /\ MaxFault \in Nat

VARIABLES
  status,   \* status of a request's row, "absent" before its insert
  owner,    \* logto_organization_id of a row
  steps,    \* steps recorded as completed under a row
  draft,    \* submit_status of the wizard's draft, and the organization it names
  ledger,   \* status of the key in idempotency_records
  logto,    \* what exists in Logto
  pc, at,   \* where a request stands, and the next step of Plan
  call,     \* the next call within that step
  op,       \* operationId of the request's recorder
  resumed,  \* the row whose steps the request has read
  snap,     \* completedSteps as read from that row
  org,      \* organizationId of the request
  refused, faults,
  hit       \* requests that met a fault

rows == <<status, owner, steps>>
locals == <<at, call, op, resumed, snap, org>>
bounds == <<refused, faults, hit>>
vars == <<rows, draft, ledger, logto, pc, locals, bounds>>

Ended == {"answered", "failed", "dead"}

PC == Ended \union {"draft", "read", "insert", "started", "prepare", "validate", "call", "record",
                    "complete", "finish", "save", "fail", "excuse", "refuse"}

Plan == <<"create", "domains", "roles">> \o Contacts

Step == {Plan[i] : i \in DOMAIN Plan}

\* Steps of a contact are three calls, the others one.
Calls(s) == IF s \in {"create", "domains", "roles"} THEN <<s>> ELSE <<"user", "member", "role">>

\* createOrResolveLogtoUserByEmail finds the user of an email, or creates it, or finds it
\* after its creation has met another one: in the end it is the one user of that email.
UserOf(s) == <<"user", s>>

\* What call k of step s leaves in Logto, for request r.
Effect(r, s, k) ==
  CASE s = "create"          -> <<"organization", r>>
    [] Calls(s)[k] = "user"  -> UserOf(s)
    [] OTHER                 -> <<Calls(s)[k], org[r], s>>

\* Everything step s leaves in organization o.
EffectsOf(o, s) ==
  IF s = "create" THEN {<<"organization", o>>}
  ELSE {<<Calls(s)[k], o, s>> : k \in {j \in DOMAIN Calls(s) : Calls(s)[j] # "user"}}

Bootstrapped(o) == \A s \in Step : EffectsOf(o, s) \subseteq logto

Organizations == {r \in Request : <<"organization", r>> \in logto}

\* The index of the first step from i on that the snapshot S lacks.
NextStep(i, S) ==
  CHOOSE j \in i .. Len(Plan) + 1 :
    /\ \A k \in i .. j - 1 : Plan[k] \in S
    /\ j = Len(Plan) + 1 \/ Plan[j] \notin S

\* Mutant: the last step is taken for the end.
ContinueShort(r, j) ==
  /\ at' = [at EXCEPT ![r] = j]
  /\ call' = [call EXCEPT ![r] = 1]
  /\ pc' = [pc EXCEPT ![r] = IF j >= Len(Plan) THEN "complete" ELSE "call"]

\* Where the sequence stands when step j is the next to run.
Continue(r, j) ==
  /\ at' = [at EXCEPT ![r] = j]
  /\ call' = [call EXCEPT ![r] = 1]
  /\ pc' = [pc EXCEPT ![r] = IF j > Len(Plan) THEN "complete" ELSE "call"]

Go(r, l) == pc' = [pc EXCEPT ![r] = l]

\* Mutant: an error that no failOperation follows.
Escape(r) == Go(r, "refuse")

\* The catch block of runCanonicalOrganizationProvisioning.
Catch(r) == Go(r, "fail")

Refuse == refused < MaxRefuse /\ refused' = refused + 1 /\ UNCHANGED <<faults, hit>>

Fault(r) ==
  /\ faults < MaxFault /\ faults' = faults + 1
  /\ hit' = hit \union {r}
  /\ UNCHANGED refused

\* The unique index (logto_organization_id, idempotency_key).
Clash(o, x) == o # None /\ \E s \in Request \ {x} : owner[s] = o

Init ==
  /\ status = [r \in Request |-> "absent"]
  /\ owner = [r \in Request |-> None]
  /\ steps = [r \in Request |-> {}]
  /\ draft = [state |-> "draft", org |-> None]
  /\ ledger = "absent"
  /\ logto = {}
  /\ pc = [r \in Request |-> "draft"]
  /\ at = [r \in Request |-> 1]
  /\ call = [r \in Request |-> 1]
  /\ op = [r \in Request |-> None]
  /\ resumed = [r \in Request |-> None]
  /\ snap = [r \in Request |-> {}]
  /\ org = [r \in Request |-> None]
  /\ refused = 0 /\ faults = 0 /\ hit = {}

(***************************************************************************)
(* The route.                                                              *)
(***************************************************************************)
\* saveOrganizationProvisioningDraft: logto_organization_id defaults to null.
SaveDraft(r) ==
  /\ pc[r] = "draft"
  /\ Cardinality({s \in Request : pc[s] \notin Ended \union {"draft"}}) < Overlap
  /\ draft' = [state |-> "running", org |-> None]
  /\ Go(r, "read")
  /\ UNCHANGED <<rows, ledger, logto, locals, bounds>>

SaveCompleted(r) ==
  /\ pc[r] = "save"
  /\ draft' = [state |-> "completed", org |-> org[r]]
  /\ Go(r, "answered")
  /\ UNCHANGED <<rows, ledger, logto, locals, bounds>>

SaveFailed(r) ==
  /\ pc[r] = "refuse"
  /\ draft' = [state |-> "failed", org |-> None]
  /\ Go(r, "failed")
  /\ UNCHANGED <<rows, ledger, logto, locals, bounds>>

(***************************************************************************)
(* The recorder.                                                           *)
(***************************************************************************)
Rows == {s \in Request : status[s] # "absent"}

\* ensureExistingOperation: one row of the key, in no order.
Existing(x) == IF Rows = {} THEN x = None ELSE x \in Rows

\* getCompletedSteps
ReadSteps(r) ==
  /\ pc[r] = "read"
  /\ \E x \in Request \union {None} :
       /\ Existing(x)
       /\ op' = [op EXCEPT ![r] = x]
       /\ resumed' = [resumed EXCEPT ![r] = x]
       /\ snap' = [snap EXCEPT ![r] = IF x = None THEN {} ELSE steps[x]]
  /\ Go(r, "insert")
  /\ UNCHANGED <<rows, draft, ledger, logto, at, call, org, bounds>>

\* startOperation: the insert never conflicts, because the row has no organization.
InsertOperation(r) ==
  /\ pc[r] = "insert"
  /\ status' = [status EXCEPT ![r] = "running"]
  /\ op' = [op EXCEPT ![r] = r]
  /\ Go(r, "started")
  /\ UNCHANGED <<owner, steps, draft, ledger, logto, at, call, resumed, snap, org, bounds>>

\* startOperation: the key's record, after the update of the row just inserted.
RecordStarted(r) ==
  /\ pc[r] = "started"
  /\ ledger' = "started"
  /\ Go(r, "prepare")
  /\ UNCHANGED <<rows, draft, logto, locals, bounds>>

\* completeOperation: the unique index may refuse the update.
CompleteOperation(r) ==
  /\ pc[r] = "complete"
  /\ IF Clash(org[r], op[r])
     THEN Catch(r) /\ UNCHANGED rows
     ELSE /\ status' = [status EXCEPT ![op[r]] = "completed"]
          /\ owner' = [owner EXCEPT ![op[r]] = org[r]]
          /\ Go(r, "finish")
          /\ UNCHANGED steps
  /\ UNCHANGED <<draft, ledger, logto, locals, bounds>>

RecordCompleted(r) ==
  /\ pc[r] = "finish"
  /\ ledger' = "completed"
  /\ Go(r, "save")
  /\ UNCHANGED <<rows, draft, logto, locals, bounds>>

\* Mutant: the status meant for output_json reaches the column.
BootstrapStatus(r) == IF org[r] = None THEN "bootstrap_failed" ELSE "bootstrap_incomplete"

\* The status column of a failed operation.
FailedStatus(r) == "failed"

\* Mutant: the organization is not passed on.
Forgotten(r) == None

\* organizationId as failOperation gets it.
FailedOrganization(r) == org[r]

\* failOperation in the catch block; its own error replaces the one caught.
FailOperation(r) ==
  /\ pc[r] = "fail"
  /\ \E x \in IF op[r] = None THEN {y \in Request \union {None} : Existing(y)} ELSE {op[r]} :
       IF x = None \/ Clash(FailedOrganization(r), x)
       THEN Go(r, "refuse") /\ UNCHANGED <<rows, op>>
       ELSE /\ status' = [status EXCEPT ![x] = FailedStatus(r)]
            /\ owner' = [owner EXCEPT ![x] = FailedOrganization(r)]
            /\ op' = [op EXCEPT ![r] = x]
            /\ Go(r, "excuse")
            /\ UNCHANGED steps
  /\ UNCHANGED <<draft, ledger, logto, at, call, resumed, snap, org, bounds>>

RecordFailed(r) ==
  /\ pc[r] = "excuse"
  /\ ledger' = "failed"
  /\ Go(r, "refuse")
  /\ UNCHANGED <<rows, draft, logto, locals, bounds>>

(***************************************************************************)
(* runCanonicalOrganizationProvisioning.                                   *)
(***************************************************************************)
\* The organization of a skipped create step is the one in its output.
Resumed(r) == IF "create" \in snap[r] THEN resumed[r] ELSE None

\* The roles of Logto are listed again each time, and a required one may be missing.
ListRoles(r) ==
  /\ pc[r] = "prepare"
  /\ \/ Go(r, "validate") /\ UNCHANGED bounds
     \/ Refuse /\ Catch(r)
  /\ UNCHANGED <<rows, draft, ledger, logto, locals>>

\* ensureOrganizationTemplate is asked again each time; after it the steps not in snap run.
ValidateTemplate(r) ==
  /\ pc[r] = "validate"
  /\ \/ /\ org' = [org EXCEPT ![r] = Resumed(r)]
        /\ Continue(r, NextStep(1, snap[r]))
        /\ UNCHANGED bounds
     \/ Refuse /\ Catch(r) /\ UNCHANGED <<at, call, org>>
  /\ UNCHANGED <<rows, draft, ledger, logto, op, resumed, snap>>

\* One call to Logto in the effect of a step.
CallLogto(r) ==
  /\ pc[r] = "call"
  /\ LET s == Plan[at[r]]
         last == call[r] = Len(Calls(s))
     IN \/ /\ logto' = logto \union {Effect(r, s, call[r])}
           /\ call' = [call EXCEPT ![r] = IF last THEN 1 ELSE @ + 1]
           /\ Go(r, IF last THEN "record" ELSE "call")
           /\ UNCHANGED bounds
        \/ Refuse /\ Catch(r) /\ UNCHANGED <<logto, call>>
        \/ /\ Fault(r)
           /\ logto' = logto \union {Effect(r, s, call[r])}
           /\ Catch(r)
           /\ UNCHANGED call
  /\ UNCHANGED <<rows, draft, ledger, at, op, resumed, snap, org>>

\* Mutant: step s is recorded under the row that was resumed.
RecordUnder(r, s) == [steps EXCEPT ![IF resumed[r] = None THEN op[r] ELSE resumed[r]] = @ \union {s}]

Recorded(r, s) == [steps EXCEPT ![op[r]] = @ \union {s}]

\* The step is recorded as completed after its effect; a skipped step is not recorded.
RecordStep(r) ==
  /\ pc[r] = "record"
  /\ LET s == Plan[at[r]]
     IN /\ steps' = Recorded(r, s)
        /\ org' = [org EXCEPT ![r] = IF s = "create" THEN r ELSE @]
        /\ Continue(r, NextStep(at[r] + 1, snap[r]))
  /\ UNCHANGED <<status, owner, draft, ledger, logto, op, resumed, snap, bounds>>

(***************************************************************************)
(* Faults: a statement that fails sends the request where its code is      *)
(* caught; a process that dies leaves everything as it is.                 *)
(***************************************************************************)
StatementFails(r) ==
  /\ Fault(r)
  /\ \/ pc[r] \in {"insert", "started", "record", "complete", "finish"} /\ Catch(r)
     \/ pc[r] \in {"read", "save", "fail", "excuse"} /\ Go(r, "refuse")
     \/ pc[r] = "refuse" /\ Go(r, "failed")
  /\ UNCHANGED <<rows, draft, ledger, logto, locals>>

Crash(r) ==
  /\ pc[r] \notin Ended \union {"draft"}
  /\ Fault(r)
  /\ Go(r, "dead")
  /\ UNCHANGED <<rows, draft, ledger, logto, locals>>

Next ==
  \E r \in Request :
    \/ SaveDraft(r) \/ ReadSteps(r) \/ InsertOperation(r) \/ RecordStarted(r)
    \/ ListRoles(r) \/ ValidateTemplate(r) \/ CallLogto(r) \/ RecordStep(r)
    \/ CompleteOperation(r) \/ RecordCompleted(r) \/ SaveCompleted(r)
    \/ FailOperation(r) \/ RecordFailed(r) \/ SaveFailed(r)
    \/ StatementFails(r) \/ Crash(r)

Spec == Init /\ [][Next]_vars

(***************************************************************************)
(* Properties.                                                             *)
(***************************************************************************)
\* Every variable holds values of its kind.
TypeOK ==
  /\ status \in [Request -> {"absent", "running", "completed", "failed"}]
  /\ owner \in [Request -> Request \union {None}]
  /\ steps \in [Request -> SUBSET Step]
  /\ draft \in [state : {"draft", "running", "completed", "failed"}, org : Request \union {None}]
  /\ ledger \in {"absent", "started", "completed", "failed"}
  /\ Organizations \subseteq Request
  /\ pc \in [Request -> PC]
  /\ at \in [Request -> 1 .. Len(Plan) + 1]
  /\ call \in [Request -> 1 .. 3]
  /\ op \in [Request -> Request \union {None}]
  /\ resumed \in [Request -> Request \union {None}]
  /\ snap \in [Request -> SUBSET Step]
  /\ org \in [Request -> Request \union {None}]
  /\ refused \in 0 .. MaxRefuse /\ faults \in 0 .. MaxFault /\ hit \subseteq Request

\* The organization the steps of row r were run in.
Home(r) == IF "create" \in steps[r] THEN r ELSE org[r]

\* What operational_operation_steps says was completed is in Logto, in the organization of
\* that row's request: the record is written after the effect (runStep), so that a resumed
\* request never skips what nobody did.
StepsAreReal == \A r \in Request : \A s \in steps[r] : EffectsOf(Home(r), s) \subseteq logto

\* Request r has resumed a row that was itself a resumed one: it knows the steps of that
\* row and not the creation, which was skipped and therefore not recorded there.
ResumedPartial(r) == snap[r] # {} /\ "create" \notin snap[r]

\* An operation, or the draft, that says completed names an organization in which every
\* step of the plan took effect - unless its request has resumed a resumed row.
CompletedIsBootstrapped ==
  /\ \A r \in Request :
       status[r] = "completed" => owner[r] # None /\ (Bootstrapped(owner[r]) \/ ResumedPartial(r))
  /\ draft.state = "completed" =>
       Bootstrapped(draft.org) \/ \E r \in Request : org[r] = draft.org /\ ResumedPartial(r)

\* An organization that exists is named by an operation once the request that created it
\* has ended: failOperation stores organizationId, so support can find it again - unless a
\* fault hit some request (a creation in doubt, a record that failed, an insert whose
\* failure makes failOperation overwrite the row of another request).
OrganizationFound ==
  \A o \in Organizations : pc[o] \in Ended /\ hit = {} => \E r \in Request : owner[r] = o

\* An operation does not stay "running" when its request has ended: completeOperation and
\* failOperation settle it - unless a fault hit the request, or another request of the key
\* has worked in the same organization, whose row then makes the unique index refuse both.
RunningHasRequest ==
  \A r \in Request :
    status[r] = "running" /\ pc[r] \in Ended /\ r \notin hit =>
      org[r] # None /\ \E s \in Request \ {r} : org[s] = org[r]

\* "keyed by idempotency_key so owner wizard resumes do not create a parallel canonical
\* organization" (db/migrations/0000_foundation.sql:96): one key, one organization.
OneOrganization == \A r, s \in Organizations : r = s
=============================================================================
