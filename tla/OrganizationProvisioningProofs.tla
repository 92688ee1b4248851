--------------------- MODULE OrganizationProvisioningProofs ---------------------
(***************************************************************************)
(* Theorems about OrganizationProvisioning, for any number of requests,    *)
(* contacts, refusals and faults.                                          *)
(*                                                                         *)
(* A request writes the steps and, but for a failure, the row of itself    *)
(* alone (Own, Strangers), and the organization it works in is fixed once  *)
(* it is known (Before, Creating).  So what its row, the snapshot it has   *)
(* read and its place in the plan say was done was done in one             *)
(* organization (Backed, Snapshot, Passed, Called).                        *)
(***************************************************************************)
EXTENDS OrganizationProvisioning, FiniteSetTheorems, SequenceTheorems, TLAPS

\* Before the sequence runs: no step, and no organization.
Early == {"draft", "read", "insert", "started", "prepare", "validate"}

Before ==
  \A r \in Request :
    /\ pc[r] \in Early => steps[r] = {} /\ org[r] = None
    /\ pc[r] \in {"draft", "read", "insert"} => status[r] = "absent"

\* From its insert on, a request records under its own row.
Own ==
  /\ \A r \in Request :
       pc[r] \in {"started", "prepare", "validate", "call", "record", "complete", "finish"} =>
         op[r] = r
  /\ \A r \in Request : op[r] # None => status[op[r]] # "absent"

\* A request that is about to fail the row of another one has no organization.
Strangers == \A r \in Request : pc[r] = "fail" /\ op[r] # r => org[r] = None

\* The next step of the plan is one the snapshot lacks.
Positioned ==
  \A r \in Request :
    /\ pc[r] \in {"call", "record"} =>
         /\ at[r] \in 1 .. Len(Plan) /\ Plan[at[r]] \notin snap[r]
         /\ call[r] \in 1 .. Len(Calls(Plan[at[r]]))
    /\ pc[r] = "complete" => at[r] = Len(Plan) + 1

\* What is recorded was done in the organization of the request.
Backed ==
  \A r \in Request :
    /\ \A s \in steps[r] : EffectsOf(org[r], s) \subseteq logto
    /\ "create" \in steps[r] => org[r] = r

\* A snapshot is part of the row it was read from, which only grows.
Snapshot == \A r \in Request : snap[r] # {} => resumed[r] \in Request /\ snap[r] \subseteq steps[resumed[r]]

\* The steps before the one in hand are recorded, here or in the snapshot.
Passed ==
  \A r \in Request :
    pc[r] \in {"call", "record", "complete"} =>
      /\ "create" \in snap[r] => org[r] = resumed[r]
      /\ \A i \in 1 .. at[r] - 1 : Plan[i] \in snap[r] \union steps[r]

\* A request that creates its organization has none yet, and has recorded nothing.
Creating ==
  \A r \in Request :
    pc[r] \in {"call", "record"} /\ at[r] = 1 => org[r] = None /\ steps[r] = {}

\* The organization the step in hand works in.
Target(r) == IF Plan[at[r]] = "create" THEN r ELSE org[r]

\* The effects of the calls made in the step in hand.
EffectsBefore(o, s, k) ==
  IF s = "create" THEN {}
  ELSE {<<Calls(s)[j], o, s>> : j \in {i \in DOMAIN Calls(s) : Calls(s)[i] # "user" /\ i < k}}

Called ==
  \A r \in Request :
    /\ pc[r] = "call" => EffectsBefore(org[r], Plan[at[r]], call[r]) \subseteq logto
    /\ pc[r] = "record" => EffectsOf(Target(r), Plan[at[r]]) \subseteq logto

\* A row gets an organization at the end of its request, and that of its request.
Owned ==
  \A r \in Request :
    /\ pc[r] \in Early \union {"call", "record", "complete"} => owner[r] = None
    /\ owner[r] # None => owner[r] = org[r]

\* The end of the sequence was reached in an organization that is bootstrapped, or by the
\* resumption of a resumed row.
Reached(r) == org[r] # None /\ (Bootstrapped(org[r]) \/ ResumedPartial(r))

Finished ==
  /\ \A r \in Request : pc[r] \in {"finish", "save", "answered"} => Reached(r)
  /\ \A r \in Request : status[r] = "completed" => owner[r] = org[r] /\ Reached(r)

\* A completed draft is that of a request that was answered.
Drafted == draft.state = "completed" => \E r \in Request : pc[r] = "answered" /\ draft.org = org[r]

\* A request that met no fault fails its own row, and leaves it running only if the unique
\* index has refused it.
Settling ==
  \A r \in Request \ hit :
    /\ pc[r] # "dead"
    /\ pc[r] = "fail" => op[r] = r
    /\ pc[r] \in {"finish", "save", "answered", "excuse"} => status[r] # "running"
    /\ pc[r] \in {"refuse", "failed"} /\ status[r] = "running" =>
         org[r] # None /\ \E s \in Request \ {r} : org[s] = org[r]

\* Without a fault: the creation is recorded by the request that made it, a row gets its
\* organization once, and a request that has settled leaves its organization named.
Settled == {"finish", "save", "answered", "excuse", "refuse", "failed"}

Found ==
  hit = {} =>
    /\ \A r \in Request : pc[r] \notin Settled => owner[r] = None
    /\ \A o \in Organizations :
         /\ org[o] = o \/ (pc[o] = "record" /\ at[o] = 1)
         /\ pc[o] \in Settled => \E r \in Request : owner[r] = o

\* All but the kinds of values and the draft.
Rest ==
  /\ Before /\ Own /\ Strangers /\ Positioned
  /\ Backed /\ Snapshot /\ Passed /\ Creating /\ Called
  /\ Owned /\ Finished /\ Settling /\ Found

IInv == TypeOK /\ Rest /\ Drafted

-----------------------------------------------------------------------------
(***************************************************************************)
(* The plan.                                                               *)
(***************************************************************************)
\* A nonempty set of numbers has a least one.
LEMMA LeastNumber ==
  ASSUME NEW T, T \subseteq Nat, T # {}
  PROVE  \E x \in T : \A y \in T : x <= y
<1> DEFINE F == {0 .. x : x \in T}
<1>1. \A x \in T : 0 .. x \in FiniteSubsetsOf(Nat)
  BY FS_Interval DEF FiniteSubsetsOf
<1>2. F \subseteq FiniteSubsetsOf(Nat) /\ F # {}
  BY <1>1
<1>3. PICK I \in F : \A J \in F : ~(<<J, I>> \in StrictSubsetOrdering(Nat))
  BY <1>2, FS_StrictSubsetOrderingWellFounded, WFMin
<1>4. PICK x \in T : I = 0 .. x
  OBVIOUS
<1>5. ASSUME NEW y \in T, y < x PROVE FALSE
  <2>1. 0 .. y \in F /\ 0 .. y \subseteq 0 .. x /\ x \in 0 .. x /\ x \notin 0 .. y
    BY <1>5
  <2>2. 0 .. y \subseteq Nat /\ 0 .. x \subseteq Nat
    OBVIOUS
  <2> QED
    BY <1>3, <1>4, <2>1, <2>2 DEF StrictSubsetOrdering
<1> QED
  BY <1>5

\* The creation comes first, and only there.
LEMMA PlanFacts ==
  /\ Len(Plan) \in Nat /\ Len(Plan) >= 3 /\ DOMAIN Plan = 1 .. Len(Plan)
  /\ Plan[1] = "create"
  /\ \A i \in 1 .. Len(Plan) : Plan[i] = "create" => i = 1
  /\ \A i \in 1 .. Len(Plan) : Plan[i] \in Step
<1> USE ProvisioningAssumption DEF ProvisioningAssumption
<1> DEFINE first == <<"create", "domains", "roles">>
           S == STRING \union {"create", "domains", "roles"}
<1>a. Contacts \in Seq(S) /\ first \in Seq(S) /\ Len(first) = 3
  OBVIOUS
<1>b. first[1] = "create" /\ first[2] = "domains" /\ first[3] = "roles"
  OBVIOUS
<1>c. Plan = first \o Contacts
  BY DEF Plan
<1> HIDE DEF first, S
<1>1. Plan \in Seq(S) /\ Len(Plan) = 3 + Len(Contacts)
  BY <1>a, <1>c, ConcatProperties
<1>2. /\ Plan[1] = "create" /\ Plan[2] = "domains" /\ Plan[3] = "roles"
      /\ \A i \in 4 .. Len(Plan) : Plan[i] = Contacts[i - 3]
  <2>1. \A i \in 1 .. 3 + Len(Contacts) :
          Plan[i] = IF i <= 3 THEN first[i] ELSE Contacts[i - 3]
    <3>1. \A i \in 1 .. Len(first) + Len(Contacts) :
            (first \o Contacts)[i] = IF i <= Len(first) THEN first[i] ELSE Contacts[i - Len(first)]
      BY <1>a, ConcatProperties
    <3> QED
      BY <1>a, <1>c, <3>1
  <2>2. Len(Contacts) \in Nat
    BY <1>a
  <2> QED
    BY <1>1, <1>b, <2>1, <2>2
<1>3. ASSUME NEW i \in 1 .. Len(Plan), Plan[i] = "create" PROVE i = 1
  <2>1. CASE i \in 1 .. 3
    BY <1>2, <1>3, <2>1
  <2>2. CASE i \in 4 .. Len(Plan)
    <3>1. i - 3 \in DOMAIN Contacts
      BY <1>1, <1>a, <2>2
    <3> QED
      BY <1>2, <1>3, <2>2, <3>1
  <2> QED
    BY <2>1, <2>2
<1> QED
  BY <1>1, <1>2, <1>3 DEF Step

LEMMA CallsFacts ==
  ASSUME NEW s
  PROVE  /\ Len(Calls(s)) \in 1 .. 3 /\ DOMAIN Calls(s) = 1 .. Len(Calls(s))
         /\ s = "create" => Len(Calls(s)) = 1
<1>1. CASE s \in {"create", "domains", "roles"}
  <2>1. Calls(s) = <<s>>
    BY <1>1 DEF Calls
  <2>2. Len(<<s>>) = 1 /\ DOMAIN <<s>> = 1 .. 1
    OBVIOUS
  <2> QED
    BY <2>1, <2>2
<1>2. CASE s \notin {"create", "domains", "roles"}
  <2>1. Calls(s) = <<"user", "member", "role">>
    BY <1>2 DEF Calls
  <2> QED
    BY <1>2, <2>1
<1> QED
  BY <1>1, <1>2

\* NextStep finds a step, the first one that the snapshot lacks, or the end.
LEMMA NextStepFacts ==
  ASSUME NEW i \in 1 .. Len(Plan) + 1, NEW S
  PROVE  /\ NextStep(i, S) \in i .. Len(Plan) + 1
         /\ \A k \in i .. NextStep(i, S) - 1 : Plan[k] \in S
         /\ NextStep(i, S) = Len(Plan) + 1 \/ Plan[NextStep(i, S)] \notin S
<1> DEFINE T == {j \in i .. Len(Plan) + 1 : j = Len(Plan) + 1 \/ Plan[j] \notin S}
<1>1. T \subseteq Nat /\ Len(Plan) + 1 \in T
  BY PlanFacts
<1>2. PICK j \in T : \A k \in T : j <= k
  BY <1>1, LeastNumber
<1>3. \A k \in i .. j - 1 : Plan[k] \in S
  BY <1>2, PlanFacts
<1>4. \E m \in i .. Len(Plan) + 1 :
        /\ \A k \in i .. m - 1 : Plan[k] \in S
        /\ m = Len(Plan) + 1 \/ Plan[m] \notin S
  BY <1>2, <1>3
<1> QED
  BY <1>4 DEF NextStep

-----------------------------------------------------------------------------
(***************************************************************************)
(* What a step does to the rows, to Logto and to the request's variables.  *)
(***************************************************************************)
\* The request goes on, or is caught, and writes none of them.
Moved(r, l) ==
  \/ <<pc[r], l>> \in {<<"draft", "read">>, <<"started", "prepare">>, <<"prepare", "validate">>,
                       <<"finish", "save">>, <<"save", "answered">>, <<"excuse", "refuse">>,
                       <<"refuse", "failed">>}
  \/ l = "fail" /\ pc[r] \in {"prepare", "validate", "call", "complete"}
  \/ l = "refuse" /\ pc[r] = "fail" /\ (op[r] = None \/ Clash(org[r], op[r]))
  \/ r \in hit' /\ l \in {"refuse", "failed", "dead"} /\ pc[r] \notin Ended
  \/ r \in hit' /\ l = "fail" /\ pc[r] \in {"insert", "started", "record", "complete", "finish"}

Quiet(r) ==
  /\ \E l \in PC : Moved(r, l) /\ pc' = [pc EXCEPT ![r] = l]
  /\ UNCHANGED <<status, owner, steps, logto, at, call, op, resumed, snap, org>>
  /\ hit \subseteq hit'

Reading(r) ==
  /\ pc[r] = "read" /\ pc' = [pc EXCEPT ![r] = "insert"]
  /\ \E x \in Rows \union {None} :
       /\ op' = [op EXCEPT ![r] = x]
       /\ resumed' = [resumed EXCEPT ![r] = x]
       /\ snap' = [snap EXCEPT ![r] = IF x = None THEN {} ELSE steps[x]]
  /\ UNCHANGED <<status, owner, steps, logto, at, call, org, hit>>

Inserting(r) ==
  /\ pc[r] = "insert" /\ pc' = [pc EXCEPT ![r] = "started"]
  /\ status' = [status EXCEPT ![r] = "running"]
  /\ op' = [op EXCEPT ![r] = r]
  /\ UNCHANGED <<owner, steps, logto, at, call, resumed, snap, org, hit>>

Beginning(r) ==
  /\ pc[r] = "validate"
  /\ org' = [org EXCEPT ![r] = Resumed(r)]
  /\ Continue(r, NextStep(1, snap[r]))
  /\ UNCHANGED <<status, owner, steps, logto, op, resumed, snap, hit>>

\* A call takes effect; its answer is lost when a fault hits the request.
Calling(r) ==
  /\ pc[r] = "call"
  /\ logto' = logto \union {Effect(r, Plan[at[r]], call[r])}
  /\ \/ /\ call[r] # Len(Calls(Plan[at[r]]))
        /\ call' = [call EXCEPT ![r] = @ + 1] /\ pc' = pc /\ hit' = hit
     \/ /\ call[r] = Len(Calls(Plan[at[r]]))
        /\ call' = [call EXCEPT ![r] = 1] /\ pc' = [pc EXCEPT ![r] = "record"] /\ hit' = hit
     \/ call' = call /\ pc' = [pc EXCEPT ![r] = "fail"] /\ hit' = hit \union {r}
  /\ UNCHANGED <<status, owner, steps, at, op, resumed, snap, org>>

Recording(r) ==
  /\ pc[r] = "record"
  /\ steps' = [steps EXCEPT ![r] = @ \union {Plan[at[r]]}]
  /\ org' = [org EXCEPT ![r] = IF Plan[at[r]] = "create" THEN r ELSE @]
  /\ Continue(r, NextStep(at[r] + 1, snap[r]))
  /\ UNCHANGED <<status, owner, logto, op, resumed, snap, hit>>

Completing(r) ==
  /\ pc[r] = "complete" /\ pc' = [pc EXCEPT ![r] = "finish"]
  /\ status' = [status EXCEPT ![r] = "completed"]
  /\ owner' = [owner EXCEPT ![r] = org[r]]
  /\ UNCHANGED <<steps, logto, at, call, op, resumed, snap, org, hit>>

Failing(r) ==
  /\ pc[r] = "fail" /\ pc' = [pc EXCEPT ![r] = "excuse"]
  /\ \E x \in Rows :
       /\ op[r] = x \/ op[r] = None
       /\ status' = [status EXCEPT ![x] = "failed"]
       /\ owner' = [owner EXCEPT ![x] = org[r]]
       /\ op' = [op EXCEPT ![r] = x]
  /\ UNCHANGED <<steps, logto, at, call, resumed, snap, org, hit>>

Works(r) ==
  \/ Quiet(r) \/ Reading(r) \/ Inserting(r) \/ Beginning(r)
  \/ Calling(r) \/ Recording(r) \/ Completing(r) \/ Failing(r)

LEMMA QuietStep ==
  ASSUME IInv, NEW r \in Request, NEW l \in PC, Go(r, l), Moved(r, l),
         UNCHANGED <<rows, logto, locals>>, hit \subseteq hit'
  PROVE  Works(r)
BY DEF Works, Quiet, Go, rows, locals

\* Every step is the work of one request.
LEMMA StepWorks ==
  ASSUME IInv, Next
  PROVE  \E r \in Request : Works(r)
<1> USE ProvisioningAssumption DEF ProvisioningAssumption
<1>0. None \notin Request /\ \A r \in Request : pc[r] \in PC
  BY DEF IInv, TypeOK
<1>1. PICK r \in Request :
         \/ SaveDraft(r) \/ ReadSteps(r) \/ InsertOperation(r) \/ RecordStarted(r)
         \/ ListRoles(r) \/ ValidateTemplate(r) \/ CallLogto(r) \/ RecordStep(r)
         \/ CompleteOperation(r) \/ RecordCompleted(r) \/ SaveCompleted(r)
         \/ FailOperation(r) \/ RecordFailed(r) \/ SaveFailed(r)
         \/ StatementFails(r) \/ Crash(r)
  BY DEF Next
<1>2. CASE SaveDraft(r) \/ RecordStarted(r) \/ RecordCompleted(r) \/ SaveCompleted(r)
           \/ RecordFailed(r) \/ SaveFailed(r)
  BY <1>2, QuietStep DEF SaveDraft, RecordStarted, RecordCompleted, SaveCompleted, RecordFailed,
     SaveFailed, bounds, Moved, PC, Ended
<1>3. CASE ReadSteps(r)
  <2>1. \A x \in Request \union {None} : Existing(x) => x \in Rows \union {None}
    BY DEF Existing
  <2> QED
    BY <1>3, <2>1 DEF ReadSteps, Reading, Works, Go, rows, bounds
<1>4. CASE InsertOperation(r)
  BY <1>4 DEF InsertOperation, Inserting, Works, Go, bounds
<1>5. CASE ListRoles(r)
  BY <1>5, QuietStep DEF ListRoles, Catch, Refuse, bounds, Moved, PC, Ended
<1>6. CASE ValidateTemplate(r)
  <2>1. CASE Refuse /\ Catch(r) /\ UNCHANGED <<at, call, org>>
    BY <1>6, <2>1, QuietStep DEF ValidateTemplate, Catch, Refuse, locals, Moved, PC, Ended
  <2>2. CASE org' = [org EXCEPT ![r] = Resumed(r)] /\ Continue(r, NextStep(1, snap[r])) /\ UNCHANGED bounds
    BY <1>6, <2>2 DEF ValidateTemplate, Beginning, Works, rows, bounds
  <2> QED
    BY <1>6, <2>1, <2>2 DEF ValidateTemplate
<1>7. CASE CallLogto(r)
  <2> DEFINE s == Plan[at[r]]
             last == call[r] = Len(Calls(s))
  <2>0. /\ pc[r] = "call" /\ UNCHANGED <<rows, at, op, resumed, snap, org>>
        /\ \/ /\ logto' = logto \union {Effect(r, s, call[r])}
              /\ call' = [call EXCEPT ![r] = IF last THEN 1 ELSE @ + 1]
              /\ Go(r, IF last THEN "record" ELSE "call")
              /\ UNCHANGED bounds
           \/ Refuse /\ Catch(r) /\ UNCHANGED <<logto, call>>
           \/ /\ Fault(r)
              /\ logto' = logto \union {Effect(r, s, call[r])}
              /\ Catch(r)
              /\ UNCHANGED call
    BY <1>7 DEF CallLogto
  <2>1. CASE Refuse /\ Catch(r) /\ UNCHANGED <<logto, call>>
    BY <2>0, <2>1, QuietStep DEF Catch, Refuse, locals, Moved, PC, Ended
  <2>2. CASE /\ logto' = logto \union {Effect(r, s, call[r])}
             /\ call' = [call EXCEPT ![r] = IF last THEN 1 ELSE @ + 1]
             /\ Go(r, IF last THEN "record" ELSE "call")
             /\ UNCHANGED bounds
    <3>1. CASE last
      BY <2>0, <2>2, <3>1 DEF Calling, Works, Go, rows, bounds
    <3>2. CASE ~last
      <4>1. pc' = pc
        BY <2>0, <2>2, <3>2 DEF Go, IInv, TypeOK
      <4> QED
        BY <2>0, <2>2, <3>2, <4>1 DEF Calling, Works, rows, bounds
    <3> QED
      BY <3>1, <3>2
  <2>3. CASE Fault(r) /\ logto' = logto \union {Effect(r, s, call[r])} /\ Catch(r) /\ UNCHANGED call
    BY <2>0, <2>3 DEF Calling, Works, Go, Catch, Fault, rows
  <2> QED
    BY <2>0, <2>1, <2>2, <2>3
<1>8. CASE RecordStep(r)
  <2>1. op[r] = r
    BY <1>8 DEF RecordStep, IInv, Rest, Own
  <2> QED
    BY <1>8, <2>1 DEF RecordStep, Recording, Recorded, Works, bounds
<1>9. CASE CompleteOperation(r)
  <2>1. op[r] = r
    BY <1>9 DEF CompleteOperation, IInv, Rest, Own
  <2>2. CASE Clash(org[r], op[r])
    BY <1>9, <2>2, QuietStep DEF CompleteOperation, Catch, bounds, Moved, PC, Ended
  <2>3. CASE ~Clash(org[r], op[r])
    BY <1>9, <2>1, <2>3 DEF CompleteOperation, Completing, Works, Go, locals, bounds
  <2> QED
    BY <2>2, <2>3
<1>10. CASE FailOperation(r)
  <2>0. PICK x \in IF op[r] = None THEN {y \in Request \union {None} : Existing(y)} ELSE {op[r]} :
          IF x = None \/ Clash(org[r], x)
          THEN Go(r, "refuse") /\ UNCHANGED <<rows, op>>
          ELSE /\ status' = [status EXCEPT ![x] = "failed"]
               /\ owner' = [owner EXCEPT ![x] = org[r]]
               /\ op' = [op EXCEPT ![r] = x]
               /\ Go(r, "excuse")
               /\ UNCHANGED steps
    BY <1>10 DEF FailOperation, FailedStatus, FailedOrganization
  <2>1. /\ pc[r] = "fail" /\ UNCHANGED <<draft, ledger, logto, at, call, resumed, snap, org, bounds>>
    BY <1>10 DEF FailOperation
  <2>2. op[r] = None => ~Clash(org[r], x)
    BY <1>0, <2>1 DEF IInv, Rest, Strangers, Clash
  <2>3. CASE x = None \/ Clash(org[r], x)
    BY <2>0, <2>1, <2>2, <2>3, QuietStep DEF locals, bounds, Moved, PC, Ended
  <2>4. CASE ~(x = None \/ Clash(org[r], x))
    <3>1. x \in Rows /\ (op[r] = x \/ op[r] = None)
      BY <2>0, <2>4 DEF Existing, Rows, IInv, Rest, Own, TypeOK
    <3> QED
      BY <2>0, <2>1, <2>4, <3>1 DEF Failing, Works, Go, bounds
  <2> QED
    BY <2>3, <2>4
<1>11. CASE StatementFails(r)
  <2>1. r \in hit' /\ hit \subseteq hit' /\ UNCHANGED <<rows, logto, locals>>
    BY <1>11 DEF StatementFails, Fault
  <2>2. CASE pc[r] \in {"insert", "started", "record", "complete", "finish"} /\ Catch(r)
    BY <2>1, <2>2, QuietStep DEF Catch, Moved, PC, Ended
  <2>3. CASE pc[r] \in {"read", "save", "fail", "excuse"} /\ Go(r, "refuse")
    BY <2>1, <2>3, QuietStep DEF Moved, PC, Ended
  <2>4. CASE pc[r] = "refuse" /\ Go(r, "failed")
    BY <2>1, <2>4, QuietStep DEF Moved, PC, Ended
  <2> QED
    BY <1>11, <2>2, <2>3, <2>4 DEF StatementFails
<1>12. CASE Crash(r)
  BY <1>12, QuietStep DEF Crash, Fault, Moved, PC, Ended
<1> QED
  BY <1>1, <1>2, <1>3, <1>4, <1>5, <1>6, <1>7, <1>8, <1>9, <1>10, <1>11, <1>12

-----------------------------------------------------------------------------
(***************************************************************************)
(* The invariant holds at first, and values keep their kinds.              *)
(***************************************************************************)
LEMMA InitInv ==
  ASSUME Init
  PROVE  IInv
<1> USE ProvisioningAssumption DEF ProvisioningAssumption
<1>1. TypeOK
  BY PlanFacts DEF Init, TypeOK, Organizations, PC, Ended
<1>2. Organizations = {} /\ Rows = {}
  BY DEF Init, Organizations, Rows
<1>3. Before /\ Own /\ Strangers /\ Positioned /\ Backed /\ Snapshot /\ Passed /\ Creating /\ Called
  BY DEF Init, Before, Own, Strangers, Positioned, Backed, Snapshot, Passed, Creating, Called
<1>4. Owned /\ Finished /\ Settling /\ Found /\ Drafted
  BY <1>2 DEF Init, Owned, Finished, Settling, Found, Settled, Drafted
<1> QED
  BY <1>1, <1>3, <1>4 DEF IInv, Rest

\* A row that was read is a request, and what it created its organization.
LEMMA ResumedType ==
  ASSUME IInv, NEW r \in Request
  PROVE  Resumed(r) \in Request \union {None}
BY DEF Resumed, IInv, TypeOK

LEMMA ContinueType ==
  ASSUME TypeOK, NEW r \in Request, NEW j \in 1 .. Len(Plan) + 1, Continue(r, j)
  PROVE  /\ at' \in [Request -> 1 .. Len(Plan) + 1]
         /\ call' \in [Request -> 1 .. 3]
         /\ pc' \in [Request -> PC]
BY DEF TypeOK, Continue, PC, Ended

LEMMA GoType ==
  ASSUME TypeOK, NEW r \in Request, NEW l \in PC, Go(r, l)
  PROVE  pc' \in [Request -> PC]
BY DEF TypeOK, Go

LEMMA BoundsType ==
  ASSUME TypeOK, NEW r \in Request, Refuse \/ Fault(r) \/ UNCHANGED bounds
  PROVE  refused' \in 0 .. MaxRefuse /\ faults' \in 0 .. MaxFault /\ hit' \subseteq Request
BY ProvisioningAssumption DEF ProvisioningAssumption, TypeOK, Refuse, Fault, bounds

LEMMA TypeStep ==
  ASSUME IInv, [Next]_vars
  PROVE  TypeOK'
<1> USE ProvisioningAssumption DEF ProvisioningAssumption
<1>0. TypeOK
  BY DEF IInv
<1>1. CASE UNCHANGED vars
  BY <1>0, <1>1 DEF TypeOK, Organizations, vars, rows, locals, bounds
<1>2. CASE Next
  <2>1. PICK r \in Request :
           \/ SaveDraft(r) \/ ReadSteps(r) \/ InsertOperation(r) \/ RecordStarted(r)
           \/ ListRoles(r) \/ ValidateTemplate(r) \/ CallLogto(r) \/ RecordStep(r)
           \/ CompleteOperation(r) \/ RecordCompleted(r) \/ SaveCompleted(r)
           \/ FailOperation(r) \/ RecordFailed(r) \/ SaveFailed(r)
           \/ StatementFails(r) \/ Crash(r)
    BY <1>2 DEF Next
  <2>2. CASE SaveDraft(r) \/ RecordStarted(r) \/ RecordCompleted(r) \/ SaveCompleted(r)
             \/ RecordFailed(r) \/ SaveFailed(r)
    <3>1. /\ \E l \in PC : Go(r, l)
          /\ UNCHANGED <<rows, logto, locals, bounds>>
      BY <2>2 DEF SaveDraft, RecordStarted, RecordCompleted, SaveCompleted, RecordFailed, SaveFailed, PC, Ended
    <3>2. /\ draft' \in [state : {"draft", "running", "completed", "failed"}, org : Request \union {None}]
          /\ ledger' \in {"absent", "started", "completed", "failed"}
      BY <1>0, <2>2 DEF TypeOK, SaveDraft, RecordStarted, RecordCompleted, SaveCompleted, RecordFailed, SaveFailed
    <3> QED
      BY <1>0, <3>1, <3>2, GoType DEF TypeOK, Organizations, rows, locals, bounds
  <2>3. CASE ReadSteps(r)
    BY <1>0, <2>3 DEF TypeOK, ReadSteps, Go, Organizations, rows, bounds, PC, Ended
  <2>4. CASE InsertOperation(r)
    BY <1>0, <2>4 DEF TypeOK, InsertOperation, Go, Organizations, bounds, PC, Ended
  <2>5. CASE ListRoles(r)
    <3>1. (\E l \in PC : Go(r, l)) /\ (Refuse \/ UNCHANGED bounds) /\ UNCHANGED <<rows, draft, ledger, logto, locals>>
      BY <2>5 DEF ListRoles, Catch, PC, Ended
    <3> QED
      BY <1>0, <3>1, GoType, BoundsType DEF TypeOK, Organizations, rows, locals
  <2>6. CASE ValidateTemplate(r)
    <3>1. CASE Refuse /\ Catch(r) /\ UNCHANGED <<at, call, org>>
      BY <1>0, <2>6, <3>1 DEF TypeOK, ValidateTemplate, Go, Catch, Refuse, Organizations, rows, PC, Ended
    <3>2. CASE org' = [org EXCEPT ![r] = Resumed(r)] /\ Continue(r, NextStep(1, snap[r])) /\ UNCHANGED bounds
      <4>1. NextStep(1, snap[r]) \in 1 .. Len(Plan) + 1
        BY NextStepFacts, PlanFacts
      <4> QED
        BY <1>0, <2>6, <3>2, <4>1, ResumedType, ContinueType
        DEF TypeOK, ValidateTemplate, Organizations, rows, bounds
    <3> QED
      BY <2>6, <3>1, <3>2 DEF ValidateTemplate
  <2>7. CASE CallLogto(r)
    <3>1. /\ pc[r] = "call" /\ UNCHANGED <<rows, draft, ledger, at, op, resumed, snap, org>>
          /\ pc' \in [Request -> PC] /\ refused' \in 0 .. MaxRefuse /\ faults' \in 0 .. MaxFault
          /\ hit' \subseteq Request
      <4>1. /\ \E l \in PC : Go(r, l)
            /\ Refuse \/ Fault(r) \/ UNCHANGED bounds
        BY <2>7 DEF CallLogto, Catch, PC, Ended
      <4> QED
        BY <1>0, <2>7, <4>1, GoType, BoundsType DEF CallLogto
    <3>2. call' \in [Request -> 1 .. 3]
      <4>1. call[r] \in 1 .. Len(Calls(Plan[at[r]])) /\ Len(Calls(Plan[at[r]])) \in 1 .. 3
        BY <3>1, CallsFacts DEF IInv, Rest, Positioned
      <4> QED
        <5>1. \/ call' = call
              \/ call' = [call EXCEPT ![r] = 1]
              \/ call[r] # Len(Calls(Plan[at[r]])) /\ call' = [call EXCEPT ![r] = call[r] + 1]
          BY <2>7 DEF CallLogto
        <5>2. call \in [Request -> 1 .. 3]
          BY <1>0 DEF TypeOK
        <5>3. \A n \in 1 .. 3 : \A k \in 1 .. n : k # n => k + 1 \in 1 .. 3
          OBVIOUS
        <5>4. call[r] # Len(Calls(Plan[at[r]])) => call[r] + 1 \in 1 .. 3
          BY <4>1, <5>3, Zenon
        <5>5. CASE call[r] # Len(Calls(Plan[at[r]])) /\ call' = [call EXCEPT ![r] = call[r] + 1]
          BY <5>2, <5>4, <5>5
        <5>6. CASE call' = call \/ call' = [call EXCEPT ![r] = 1]
          BY <5>2, <5>6
        <5> QED
          BY <5>1, <5>5, <5>6
    <3> QED
      BY <1>0, <3>1, <3>2 DEF TypeOK, Organizations, rows
  <2>8. CASE RecordStep(r)
    <3>1. /\ pc[r] = "record" /\ op[r] = r /\ at[r] \in 1 .. Len(Plan)
          /\ steps' = [steps EXCEPT ![r] = @ \union {Plan[at[r]]}]
          /\ org' = [org EXCEPT ![r] = IF Plan[at[r]] = "create" THEN r ELSE @]
          /\ Continue(r, NextStep(at[r] + 1, snap[r]))
          /\ UNCHANGED <<status, owner, draft, ledger, logto, op, resumed, snap, bounds>>
      BY <2>8 DEF RecordStep, Recorded, IInv, Rest, Own, Positioned
    <3>2. at[r] + 1 \in 1 .. Len(Plan) + 1 /\ Plan[at[r]] \in Step
      BY <3>1, PlanFacts
    <3>3. NextStep(at[r] + 1, snap[r]) \in 1 .. Len(Plan) + 1
      BY <3>2, NextStepFacts, PlanFacts
    <3> QED
      BY <1>0, <3>1, <3>2, <3>3, ContinueType DEF TypeOK, Organizations, bounds
  <2>9. CASE CompleteOperation(r)
    BY <1>0, <2>9 DEF TypeOK, CompleteOperation, Go, Catch, Organizations, rows, locals, bounds, PC, Ended
  <2>10. CASE FailOperation(r)
    <3>1. PICK x \in IF op[r] = None THEN {y \in Request \union {None} : Existing(y)} ELSE {op[r]} :
            IF x = None \/ Clash(org[r], x)
            THEN Go(r, "refuse") /\ UNCHANGED <<rows, op>>
            ELSE /\ status' = [status EXCEPT ![x] = "failed"]
                 /\ owner' = [owner EXCEPT ![x] = org[r]]
                 /\ op' = [op EXCEPT ![r] = x]
                 /\ Go(r, "excuse")
                 /\ UNCHANGED steps
      BY <2>10 DEF FailOperation, FailedStatus, FailedOrganization
    <3>2. UNCHANGED <<draft, ledger, logto, at, call, resumed, snap, org, bounds>>
      BY <2>10 DEF FailOperation
    <3>3. x \in Request \union {None} /\ org[r] \in Request \union {None}
      BY <1>0, <3>1 DEF TypeOK
    <3>4. CASE x = None \/ Clash(org[r], x)
      BY <1>0, <3>1, <3>2, <3>4, GoType DEF TypeOK, Organizations, rows, bounds, PC, Ended
    <3>5. CASE ~(x = None \/ Clash(org[r], x))
      <4>1. pc' \in [Request -> PC]
        BY <1>0, <3>1, <3>5, GoType DEF PC, Ended
      <4> QED
        <5>1. /\ status' \in [Request -> {"absent", "running", "completed", "failed"}]
              /\ owner' \in [Request -> Request \union {None}]
              /\ op' \in [Request -> Request \union {None}]
              /\ steps' = steps
          <6>1. /\ status' = [status EXCEPT ![x] = "failed"]
                /\ owner' = [owner EXCEPT ![x] = org[r]]
                /\ op' = [op EXCEPT ![r] = x]
                /\ steps' = steps
            BY <3>1, <3>5
          <6> QED
            BY <1>0, <3>3, <6>1 DEF TypeOK
        <5> QED
          BY <1>0, <3>2, <4>1, <5>1 DEF TypeOK, Organizations, bounds
    <3> QED
      BY <3>4, <3>5
  <2>11. CASE StatementFails(r)
    <3>1. (\E l \in PC : Go(r, l)) /\ Fault(r) /\ UNCHANGED <<rows, draft, ledger, logto, locals>>
      BY <2>11 DEF StatementFails, Catch, PC, Ended
    <3> QED
      BY <1>0, <3>1, GoType, BoundsType DEF TypeOK, Organizations, rows, locals
  <2>12. CASE Crash(r)
    BY <1>0, <2>12 DEF TypeOK, Crash, Fault, Go, Organizations, rows, locals, PC, Ended
  <2> QED
    BY <2>1, <2>2, <2>3, <2>4, <2>5, <2>6, <2>7, <2>8, <2>9, <2>10, <2>11, <2>12
<1> QED
  BY <1>1, <1>2

-----------------------------------------------------------------------------
(***************************************************************************)
(* Each kind of step keeps the rest of the invariant.                      *)
(***************************************************************************)
LEMMA QuietKeeps ==
  ASSUME IInv, TypeOK', NEW r \in Request, Quiet(r)
  PROVE  Rest'
<1>0. None \notin Request /\ TypeOK /\ Rest
  BY ProvisioningAssumption DEF ProvisioningAssumption, IInv
<1>1. PICK l \in PC : Moved(r, l) /\ pc' = [pc EXCEPT ![r] = l]
  BY DEF Quiet
<1>2. /\ UNCHANGED <<status, owner, steps, logto, at, call, op, resumed, snap, org>>
      /\ hit \subseteq hit'
  BY DEF Quiet
<1>3. \A s \in Request : pc'[s] = IF s = r THEN l ELSE pc[s]
  BY <1>0, <1>1 DEF TypeOK
<1>4. l \notin {"draft", "insert", "started", "call", "record", "complete", "finish", "excuse"}
  BY <1>1 DEF Moved
<1>5. Before' /\ Own'
  BY <1>0, <1>1, <1>2, <1>3 DEF Rest, Before, Own, Moved, Early
<1>6. Strangers'
  BY <1>0, <1>1, <1>2, <1>3 DEF Rest, Before, Own, Strangers, Moved, Early
<1>7. Positioned' /\ Passed' /\ Creating' /\ Called'
  BY <1>0, <1>2, <1>3, <1>4 DEF Rest, Positioned, Passed, Creating, Called, Target
<1>8. Backed' /\ Snapshot'
  BY <1>0, <1>2 DEF Rest, Backed, Snapshot
<1>9. Owned'
  BY <1>0, <1>1, <1>2, <1>3 DEF Rest, Owned, Moved, Early
<1>10. Finished'
  BY <1>0, <1>1, <1>2, <1>3 DEF Rest, Finished, Reached, Bootstrapped, ResumedPartial, Moved
<1>11. Settling'
  <2> SUFFICES ASSUME NEW s \in Request, s \notin hit'
               PROVE  /\ pc'[s] # "dead"
                      /\ pc'[s] = "fail" => op[s] = s
                      /\ pc'[s] \in {"finish", "save", "answered", "excuse"} => status[s] # "running"
                      /\ pc'[s] \in {"refuse", "failed"} /\ status[s] = "running" =>
                           org[s] # None /\ \E q \in Request \ {s} : org[q] = org[s]
    BY <1>2 DEF Settling
  <2>1. /\ pc[s] # "dead"
        /\ pc[s] = "fail" => op[s] = s
        /\ pc[s] \in {"finish", "save", "answered", "excuse"} => status[s] # "running"
        /\ pc[s] \in {"refuse", "failed"} /\ status[s] = "running" =>
             org[s] # None /\ \E q \in Request \ {s} : org[q] = org[s]
    BY <1>0, <1>2 DEF Rest, Settling
  <2>2. CASE s # r
    BY <1>3, <2>1, <2>2
  <2>3. CASE s = r /\ l \in {"save", "answered", "failed"}
    BY <1>1, <1>3, <2>1, <2>3 DEF Moved, Ended
  <2>4. CASE s = r /\ l = "fail"
    BY <1>0, <1>1, <1>3, <2>4 DEF Moved, Rest, Own
  <2>5. CASE s = r /\ l = "refuse"
    <3>1. CASE pc[r] = "excuse"
      BY <1>3, <2>1, <2>5, <3>1
    <3>2. CASE pc[r] = "fail" /\ Clash(org[r], r)
      <4>1. org[r] # None /\ \E q \in Request \ {r} : owner[q] = org[r]
        BY <3>2 DEF Clash
      <4> QED
        BY <1>0, <1>3, <2>5, <4>1 DEF Rest, Owned
    <3> QED
      BY <1>0, <1>1, <2>1, <2>5, <3>1, <3>2 DEF Moved
  <2> QED
    BY <1>1, <1>3, <2>2, <2>3, <2>4, <2>5 DEF Moved
<1>12. Found'
  <2> SUFFICES ASSUME hit' = {}
               PROVE  /\ \A s \in Request : pc'[s] \notin Settled => owner[s] = None
                      /\ \A o \in Organizations :
                           /\ org[o] = o \/ (pc'[o] = "record" /\ at[o] = 1)
                           /\ pc'[o] \in Settled => \E s \in Request : owner[s] = o
    BY <1>2 DEF Found, Organizations
  <2>1. /\ \A s \in Request : pc[s] \notin Settled => owner[s] = None
        /\ \A o \in Organizations :
             /\ org[o] = o \/ (pc[o] = "record" /\ at[o] = 1)
             /\ pc[o] \in Settled => \E s \in Request : owner[s] = o
    BY <1>0, <1>2 DEF Rest, Found
  <2>2. /\ l \in {"read", "prepare", "validate", "fail", "save", "answered", "refuse", "failed"}
        /\ l \in {"read", "prepare", "validate", "fail"} => pc[r] \notin Settled /\ pc[r] # "record"
        /\ l \in {"save", "answered", "failed"} => pc[r] \in Settled
    BY <1>1 DEF Moved, Settled
  <2>3. l = "refuse" => pc[r] \in Settled \/ (pc[r] = "fail" /\ Clash(org[r], r))
    <3>1. pc[r] = "fail" => op[r] = r
      BY <1>0, <1>2 DEF Rest, Settling
    <3> QED
      BY <1>0, <1>1, <3>1 DEF Moved, Settled
  <2>4. ASSUME r \in Organizations, l = "refuse" PROVE \E s \in Request : owner[s] = r
    BY <2>1, <2>3, <2>4 DEF Clash
  <2>5. Organizations \subseteq Request
    BY DEF Organizations
  <2> QED
    BY <1>3, <2>1, <2>2, <2>3, <2>4, <2>5 DEF Settled
<1> QED
  BY <1>5, <1>6, <1>7, <1>8, <1>9, <1>10, <1>11, <1>12 DEF Rest

LEMMA ReadingKeeps ==
  ASSUME IInv, TypeOK', NEW r \in Request, Reading(r)
  PROVE  Rest'
<1>0. None \notin Request /\ TypeOK /\ Rest
  BY ProvisioningAssumption DEF ProvisioningAssumption, IInv
<1>1. PICK x \in Rows \union {None} :
        /\ op' = [op EXCEPT ![r] = x]
        /\ resumed' = [resumed EXCEPT ![r] = x]
        /\ snap' = [snap EXCEPT ![r] = IF x = None THEN {} ELSE steps[x]]
  BY DEF Reading
<1>2. /\ pc[r] = "read" /\ pc' = [pc EXCEPT ![r] = "insert"]
      /\ UNCHANGED <<status, owner, steps, logto, at, call, org, hit>>
  BY DEF Reading
<1>3. \A s \in Request :
        /\ pc'[s] = IF s = r THEN "insert" ELSE pc[s]
        /\ op'[s] = IF s = r THEN x ELSE op[s]
        /\ resumed'[s] = IF s = r THEN x ELSE resumed[s]
        /\ snap'[s] = IF s = r THEN (IF x = None THEN {} ELSE steps[x]) ELSE snap[s]
  BY <1>0, <1>1, <1>2 DEF TypeOK
<1>4. x # None => x \in Request /\ status[x] # "absent"
  BY DEF Rows
<1>5. status[r] = "absent" /\ steps[r] = {} /\ org[r] = None /\ owner[r] = None
  BY <1>0, <1>2 DEF Rest, Before, Owned, Early
<1>6. Before' /\ Own' /\ Strangers'
  BY <1>0, <1>2, <1>3, <1>4 DEF Rest, Before, Own, Strangers, Early
<1>7. Positioned' /\ Passed' /\ Creating' /\ Called'
  BY <1>0, <1>2, <1>3 DEF Rest, Positioned, Passed, Creating, Called, Target
<1>8. Backed' /\ Snapshot'
  BY <1>0, <1>2, <1>3, <1>4 DEF Rest, Backed, Snapshot
<1>9. Owned'
  BY <1>0, <1>2, <1>3 DEF Rest, Owned, Early
<1>10. Finished'
  BY <1>0, <1>2, <1>3, <1>5 DEF Rest, Finished, Reached, Bootstrapped, ResumedPartial
<1>11. Settling'
  BY <1>0, <1>2, <1>3 DEF Rest, Settling
<1>12. Found'
  BY <1>0, <1>2, <1>3 DEF Rest, Found, Settled, Organizations
<1> QED
  BY <1>6, <1>7, <1>8, <1>9, <1>10, <1>11, <1>12 DEF Rest

LEMMA InsertingKeeps ==
  ASSUME IInv, TypeOK', NEW r \in Request, Inserting(r)
  PROVE  Rest'
<1>0. None \notin Request /\ TypeOK /\ Rest
  BY ProvisioningAssumption DEF ProvisioningAssumption, IInv
<1>1. /\ pc[r] = "insert" /\ pc' = [pc EXCEPT ![r] = "started"]
      /\ status' = [status EXCEPT ![r] = "running"]
      /\ op' = [op EXCEPT ![r] = r]
      /\ UNCHANGED <<owner, steps, logto, at, call, resumed, snap, org, hit>>
  BY DEF Inserting
<1>2. \A s \in Request :
        /\ pc'[s] = IF s = r THEN "started" ELSE pc[s]
        /\ op'[s] = IF s = r THEN r ELSE op[s]
        /\ status'[s] = IF s = r THEN "running" ELSE status[s]
  BY <1>0, <1>1 DEF TypeOK
<1>3. op' \in [Request -> Request \union {None}]
  BY DEF TypeOK
<1>4. Before' /\ Strangers'
  BY <1>0, <1>1, <1>2 DEF Rest, Before, Strangers, Early
<1>5. Own'
  BY <1>0, <1>1, <1>2, <1>3 DEF Rest, Own
<1>6. Positioned' /\ Passed' /\ Creating' /\ Called'
  BY <1>0, <1>1, <1>2 DEF Rest, Positioned, Passed, Creating, Called, Target
<1>7. Backed' /\ Snapshot'
  BY <1>0, <1>1 DEF Rest, Backed, Snapshot
<1>8. Owned'
  BY <1>0, <1>1, <1>2 DEF Rest, Owned, Early
<1>9. Finished'
  BY <1>0, <1>1, <1>2 DEF Rest, Finished, Reached, Bootstrapped, ResumedPartial
<1>10. Settling'
  BY <1>0, <1>1, <1>2 DEF Rest, Settling
<1>11. Found'
  BY <1>0, <1>1, <1>2 DEF Rest, Found, Settled, Organizations
<1> QED
  BY <1>4, <1>5, <1>6, <1>7, <1>8, <1>9, <1>10, <1>11 DEF Rest

\* No call of a step has been made before its first.
LEMMA NothingBefore ==
  ASSUME NEW o, NEW s
  PROVE  EffectsBefore(o, s, 1) = {}
BY CallsFacts DEF EffectsBefore

LEMMA BeginningKeeps ==
  ASSUME IInv, TypeOK', NEW r \in Request, Beginning(r)
  PROVE  Rest'
<1>0. None \notin Request /\ TypeOK /\ Rest
  BY ProvisioningAssumption DEF ProvisioningAssumption, IInv
<1> DEFINE j == NextStep(1, snap[r])
<1>1. /\ pc[r] = "validate"
      /\ org' = [org EXCEPT ![r] = Resumed(r)]
      /\ at' = [at EXCEPT ![r] = j]
      /\ call' = [call EXCEPT ![r] = 1]
      /\ pc' = [pc EXCEPT ![r] = IF j > Len(Plan) THEN "complete" ELSE "call"]
      /\ UNCHANGED <<status, owner, steps, logto, op, resumed, snap, hit>>
  BY DEF Beginning, Continue
<1>2. /\ j \in 1 .. Len(Plan) + 1
      /\ \A k \in 1 .. j - 1 : Plan[k] \in snap[r]
      /\ j = Len(Plan) + 1 \/ Plan[j] \notin snap[r]
  BY NextStepFacts, PlanFacts
<1> HIDE DEF j
<1>3. \A s \in Request :
        /\ pc'[s] = IF s = r THEN (IF j > Len(Plan) THEN "complete" ELSE "call") ELSE pc[s]
        /\ org'[s] = IF s = r THEN Resumed(r) ELSE org[s]
        /\ at'[s] = IF s = r THEN j ELSE at[s]
        /\ call'[s] = IF s = r THEN 1 ELSE call[s]
  BY <1>0, <1>1 DEF TypeOK
<1>4. steps[r] = {} /\ org[r] = None /\ owner[r] = None /\ op[r] = r
  BY <1>0, <1>1 DEF Rest, Before, Owned, Own, Early
<1>5. Before' /\ Own' /\ Strangers'
  BY <1>0, <1>1, <1>3, <1>4 DEF Rest, Before, Own, Strangers, Early
<1>6. Positioned'
  <2>1. pc'[r] = "call" => j \in 1 .. Len(Plan) /\ Plan[j] \notin snap[r]
    BY <1>2, <1>3, PlanFacts
  <2>2. pc'[r] = "complete" => j = Len(Plan) + 1
    BY <1>2, <1>3, PlanFacts
  <2>3. 1 \in 1 .. Len(Calls(Plan[j]))
    BY CallsFacts
  <2>4. pc'[r] \in {"call", "complete"}
    BY <1>3
  <2> QED
    BY <1>0, <1>1, <1>3, <2>1, <2>2, <2>3, <2>4 DEF Rest, Positioned
<1>7. Backed' /\ Snapshot'
  BY <1>0, <1>1, <1>3, <1>4 DEF Rest, Backed, Snapshot
<1>8. Passed'
  BY <1>0, <1>1, <1>2, <1>3 DEF Rest, Passed, Resumed
<1>9. Creating'
  <2>1. pc'[r] \in {"call", "record"} /\ at'[r] = 1 => "create" \notin snap[r]
    BY <1>2, <1>3, PlanFacts
  <2> QED
    BY <1>0, <1>1, <1>3, <1>4, <2>1 DEF Rest, Creating, Resumed
<1>10. Called'
  BY <1>0, <1>1, <1>3, NothingBefore DEF Rest, Called, Target
<1>11. Owned'
  BY <1>0, <1>1, <1>3, <1>4 DEF Rest, Owned, Early
<1>12. Finished'
  BY <1>0, <1>1, <1>3, <1>4 DEF Rest, Finished, Reached, Bootstrapped, ResumedPartial
<1>13. Settling'
  BY <1>0, <1>1, <1>3, <1>4 DEF Rest, Settling
<1>14. Found'
  BY <1>0, <1>1, <1>3, <1>4 DEF Rest, Found, Settled, Organizations
<1> QED
  BY <1>5, <1>6, <1>7, <1>8, <1>9, <1>10, <1>11, <1>12, <1>13, <1>14 DEF Rest

LEMMA RecordingKeeps ==
  ASSUME IInv, TypeOK', NEW r \in Request, Recording(r)
  PROVE  Rest'
<1>0. None \notin Request /\ TypeOK /\ Rest
  BY ProvisioningAssumption DEF ProvisioningAssumption, IInv
<1> DEFINE j == NextStep(at[r] + 1, snap[r])
           p == Plan[at[r]]
<1>1. /\ pc[r] = "record"
      /\ steps' = [steps EXCEPT ![r] = @ \union {p}]
      /\ org' = [org EXCEPT ![r] = IF p = "create" THEN r ELSE @]
      /\ at' = [at EXCEPT ![r] = j]
      /\ call' = [call EXCEPT ![r] = 1]
      /\ pc' = [pc EXCEPT ![r] = IF j > Len(Plan) THEN "complete" ELSE "call"]
      /\ UNCHANGED <<status, owner, logto, op, resumed, snap, hit>>
  BY DEF Recording, Continue
<1>2. at[r] \in 1 .. Len(Plan) /\ p \notin snap[r]
  BY <1>0, <1>1 DEF Rest, Positioned
<1>3. /\ j \in at[r] + 1 .. Len(Plan) + 1
      /\ \A k \in at[r] + 1 .. j - 1 : Plan[k] \in snap[r]
      /\ j = Len(Plan) + 1 \/ Plan[j] \notin snap[r]
  <2>1. at[r] + 1 \in 1 .. Len(Plan) + 1
    BY <1>2, PlanFacts
  <2> QED
    BY <2>1, NextStepFacts
<1>4. p = "create" <=> at[r] = 1
  BY <1>2, PlanFacts
<1> HIDE DEF j, p
<1>5. \A s \in Request :
        /\ pc'[s] = IF s = r THEN (IF j > Len(Plan) THEN "complete" ELSE "call") ELSE pc[s]
        /\ org'[s] = IF s = r /\ p = "create" THEN r ELSE org[s]
        /\ steps'[s] = IF s = r THEN steps[r] \union {p} ELSE steps[s]
        /\ at'[s] = IF s = r THEN j ELSE at[s]
        /\ call'[s] = IF s = r THEN 1 ELSE call[s]
  BY <1>0, <1>1 DEF TypeOK
<1>6. owner[r] = None /\ op[r] = r /\ status[r] # "completed"
  BY <1>0, <1>1 DEF Rest, Owned, Own, Finished, Reached
<1>7. p = "create" => org[r] = None /\ steps[r] = {}
  BY <1>0, <1>1, <1>4 DEF Rest, Creating
<1>8. Before' /\ Own' /\ Strangers'
  BY <1>0, <1>1, <1>5, <1>6 DEF Rest, Before, Own, Strangers, Early
<1>9. Positioned'
  <2>1. pc'[r] = "call" => j \in 1 .. Len(Plan) /\ Plan[j] \notin snap[r]
    BY <1>2, <1>3, <1>5, PlanFacts
  <2>2. pc'[r] = "complete" => j = Len(Plan) + 1
    BY <1>2, <1>3, <1>5, PlanFacts
  <2>3. 1 \in 1 .. Len(Calls(Plan[j]))
    BY CallsFacts
  <2>4. pc'[r] \in {"call", "complete"}
    BY <1>5
  <2> QED
    BY <1>0, <1>1, <1>5, <2>1, <2>2, <2>3, <2>4 DEF Rest, Positioned
<1>10. Backed'
  <2>1. EffectsOf(IF p = "create" THEN r ELSE org[r], p) \subseteq logto
    BY <1>0, <1>1 DEF Rest, Called, Target, p
  <2>2. /\ \A s \in steps[r] : EffectsOf(org[r], s) \subseteq logto
        /\ "create" \in steps[r] => org[r] = r
    BY <1>0 DEF Rest, Backed
  <2>3. CASE p = "create"
    BY <1>0, <1>1, <1>5, <1>7, <2>1, <2>3 DEF Rest, Backed
  <2>4. CASE p # "create"
    BY <1>0, <1>1, <1>5, <2>1, <2>2, <2>4 DEF Rest, Backed
  <2> QED
    BY <2>3, <2>4
<1>11. Snapshot'
  BY <1>0, <1>1, <1>5 DEF Rest, Snapshot
<1>12. Passed'
  <2>1. "create" \in snap[r] => org'[r] = resumed[r]
    BY <1>0, <1>1, <1>2, <1>5 DEF Rest, Passed
  <2>2. ASSUME NEW i \in 1 .. j - 1 PROVE Plan[i] \in snap[r] \union steps'[r]
    <3>1. CASE i \in 1 .. at[r] - 1
      BY <1>0, <1>1, <1>5, <3>1 DEF Rest, Passed
    <3>2. CASE i = at[r]
      BY <1>5, <3>2 DEF p
    <3>3. CASE i \in at[r] + 1 .. j - 1
      BY <1>3, <3>3
    <3> QED
      BY <1>2, <1>3, <3>1, <3>2, <3>3, PlanFacts
  <2> QED
    BY <1>0, <1>1, <1>5, <2>1, <2>2 DEF Rest, Passed
<1>13. Creating'
  <2>1. j # 1
    BY <1>2, <1>3, PlanFacts
  <2> QED
    BY <1>0, <1>1, <1>5, <2>1 DEF Rest, Creating
<1>14. Called'
  BY <1>0, <1>1, <1>5, NothingBefore DEF Rest, Called, Target
<1>15. Owned'
  BY <1>0, <1>1, <1>5, <1>6 DEF Rest, Owned, Early
<1>16. Finished'
  BY <1>0, <1>1, <1>5, <1>6 DEF Rest, Finished, Reached, Bootstrapped, ResumedPartial
<1>17. Settling'
  BY <1>0, <1>1, <1>5, <1>7 DEF Rest, Settling
<1>18. Found'
  BY <1>0, <1>1, <1>4, <1>5, <1>6 DEF Rest, Found, Settled, Organizations
<1> QED
  BY <1>8, <1>9, <1>10, <1>11, <1>12, <1>13, <1>14, <1>15, <1>16, <1>17, <1>18 DEF Rest

\* What a call leaves is what its step wants, and only the creation leaves an organization.
LEMMA EffectFacts ==
  ASSUME NEW r \in Request, NEW s, NEW k \in 1 .. Len(Calls(s))
  PROVE  /\ k = Len(Calls(s)) =>
              EffectsOf(IF s = "create" THEN r ELSE org[r], s)
                \subseteq EffectsBefore(org[r], s, k) \union {Effect(r, s, k)}
         /\ EffectsBefore(org[r], s, k + 1) \subseteq EffectsBefore(org[r], s, k) \union {Effect(r, s, k)}
         /\ \A q : Effect(r, s, k) = <<"organization", q>> => s = "create" /\ q = r
         /\ s = "create" => Effect(r, s, k) = <<"organization", r>>
<1> DEFINE c == Calls(s)
<1>0. Len(c) \in 1 .. 3 /\ DOMAIN c = 1 .. Len(c)
  BY CallsFacts
<1>1. CASE s = "create"
  <2>1. Effect(r, s, k) = <<"organization", r>>
    <3>1. Calls(s) = <<"create">> /\ k = 1
      BY <1>0, <1>1 DEF Calls
    <3>2. Calls(s)[k] # "user"
      BY <3>1
    <3> QED
      BY <1>1, <3>2 DEF Effect
  <2>2. /\ EffectsOf(r, s) = {<<"organization", r>>}
        /\ \A m : EffectsBefore(org[r], s, m) = {}
    BY <1>1 DEF EffectsOf, EffectsBefore
  <2>3. \A q : <<"organization", r>> = <<"organization", q>> => q = r
    OBVIOUS
  <2> QED
    BY <1>1, <2>1, <2>2, <2>3
<1>2. CASE s # "create"
  <2>1. Effect(r, s, k) = IF c[k] = "user" THEN <<"user", s>> ELSE <<c[k], org[r], s>>
    BY <1>2 DEF Effect, UserOf
  <2>2. \A i : i \in DOMAIN c /\ i < k + 1 => i = k \/ i < k
    BY <1>0
  <2>3. \A i : i \in DOMAIN c /\ k = Len(c) => i = k \/ i < k
    BY <1>0
  <2> HIDE DEF c
  <2>4. /\ EffectsOf(org[r], s) = {<<c[i], org[r], s>> : i \in {j \in DOMAIN c : c[j] # "user"}}
        /\ \A m : EffectsBefore(org[r], s, m) =
                    {<<c[i], org[r], s>> : i \in {j \in DOMAIN c : c[j] # "user" /\ j < m}}
    BY <1>2 DEF EffectsOf, EffectsBefore, c
  <2>5. ASSUME NEW i \in DOMAIN c, c[i] # "user", i = k \/ i < k
        PROVE  <<c[i], org[r], s>> \in EffectsBefore(org[r], s, k) \union {Effect(r, s, k)}
    BY <2>1, <2>4, <2>5
  <2>6. k = Len(c) => EffectsOf(org[r], s) \subseteq EffectsBefore(org[r], s, k) \union {Effect(r, s, k)}
    BY <2>3, <2>4, <2>5
  <2>7. EffectsBefore(org[r], s, k + 1) \subseteq EffectsBefore(org[r], s, k) \union {Effect(r, s, k)}
    BY <2>2, <2>4, <2>5
  <2>8. ASSUME NEW q PROVE Effect(r, s, k) # <<"organization", q>>
    <3>1. Len(<<c[k], org[r], s>>) # Len(<<"organization", q>>)
      OBVIOUS
    <3>2. <<"user", s>> # <<"organization", q>>
      OBVIOUS
    <3> QED
      BY <2>1, <3>1, <3>2
  <2> QED
    BY <1>2, <2>6, <2>7, <2>8 DEF c
<1> QED
  BY <1>1, <1>2

LEMMA CallingKeeps ==
  ASSUME IInv, TypeOK', NEW r \in Request, Calling(r)
  PROVE  Rest'
<1>0. None \notin Request /\ TypeOK /\ Rest
  BY ProvisioningAssumption DEF ProvisioningAssumption, IInv
<1> DEFINE s == Plan[at[r]]
           e == Effect(r, s, call[r])
<1>1. /\ pc[r] = "call" /\ logto' = logto \union {e}
      /\ \/ /\ call[r] # Len(Calls(s))
            /\ call' = [call EXCEPT ![r] = @ + 1] /\ pc' = pc /\ hit' = hit
         \/ /\ call[r] = Len(Calls(s))
            /\ call' = [call EXCEPT ![r] = 1] /\ pc' = [pc EXCEPT ![r] = "record"] /\ hit' = hit
         \/ call' = call /\ pc' = [pc EXCEPT ![r] = "fail"] /\ hit' = hit \union {r}
      /\ UNCHANGED <<status, owner, steps, at, op, resumed, snap, org>>
  BY DEF Calling
<1>2. /\ at[r] \in 1 .. Len(Plan) /\ s \notin snap[r] /\ call[r] \in 1 .. Len(Calls(s))
      /\ op[r] = r /\ owner[r] = None
  BY <1>0, <1>1 DEF Rest, Positioned, Own, Owned
<1>3. /\ Len(Calls(s)) \in 1 .. 3
      /\ s = "create" => Len(Calls(s)) = 1
  BY CallsFacts
<1>4. /\ call[r] = Len(Calls(s)) => EffectsOf(Target(r), s) \subseteq EffectsBefore(org[r], s, call[r]) \union {e}
      /\ EffectsBefore(org[r], s, call[r] + 1) \subseteq EffectsBefore(org[r], s, call[r]) \union {e}
      /\ \A q : e = <<"organization", q>> => s = "create" /\ q = r
  <2>1. Target(r) = IF s = "create" THEN r ELSE org[r]
    BY DEF Target
  <2> HIDE DEF s
  <2> QED
    BY <1>2, <2>1, EffectFacts
<1>5. EffectsBefore(org[r], s, call[r]) \subseteq logto
  BY <1>0, <1>1 DEF Rest, Called
<1>6. s = "create" => at[r] = 1
  BY <1>2, PlanFacts
<1> HIDE DEF s, e
<1>7. /\ pc'[r] \in {"call", "record", "fail"}
      /\ \A q \in Request \ {r} : pc'[q] = pc[q] /\ call'[q] = call[q]
      /\ pc'[r] = "call" => call[r] # Len(Calls(s)) /\ call'[r] = call[r] + 1
      /\ pc'[r] = "record" => call[r] = Len(Calls(s)) /\ call'[r] = 1
      /\ pc'[r] = "fail" => r \in hit'
      /\ hit \subseteq hit'
  <2>1. CASE call[r] # Len(Calls(s)) /\ call' = [call EXCEPT ![r] = @ + 1] /\ pc' = pc /\ hit' = hit
    BY <1>0, <1>1, <2>1 DEF TypeOK
  <2>2. CASE call[r] = Len(Calls(s)) /\ call' = [call EXCEPT ![r] = 1] /\ pc' = [pc EXCEPT ![r] = "record"] /\ hit' = hit
    BY <1>0, <1>1, <2>2 DEF TypeOK
  <2>3. CASE call' = call /\ pc' = [pc EXCEPT ![r] = "fail"] /\ hit' = hit \union {r}
    <3>1. pc'[r] = "fail" /\ \A q \in Request \ {r} : pc'[q] = pc[q]
      BY <1>0, <2>3 DEF TypeOK
    <3> QED
      BY <2>3, <3>1
  <2> QED
    BY <1>1, <2>1, <2>2, <2>3
<1>8. Before' /\ Own' /\ Strangers'
  BY <1>0, <1>1, <1>2, <1>7 DEF Rest, Before, Own, Strangers, Early
<1>9. Positioned'
  <2>1. pc'[r] \in {"call", "record"} => call'[r] \in 1 .. Len(Calls(s))
    BY <1>2, <1>3, <1>7
  <2> QED
    BY <1>0, <1>1, <1>2, <1>7, <2>1 DEF Rest, Positioned, s
<1>10. Backed' /\ Snapshot'
  BY <1>0, <1>1 DEF Rest, Backed, Snapshot
<1>11. Passed' /\ Creating'
  BY <1>0, <1>1, <1>7 DEF Rest, Passed, Creating
<1>12. Called'
  <2> SUFFICES ASSUME NEW q \in Request
               PROVE  /\ pc'[q] = "call" => EffectsBefore(org[q], Plan[at[q]], call'[q]) \subseteq logto'
                      /\ pc'[q] = "record" => EffectsOf(Target(q), Plan[at[q]]) \subseteq logto'
    BY <1>1 DEF Called, Target
  <2>1. CASE q # r
    BY <1>0, <1>1, <1>7, <2>1 DEF Rest, Called
  <2>2. CASE q = r
    BY <1>1, <1>4, <1>5, <1>7, <2>2 DEF s
  <2> QED
    BY <2>1, <2>2
<1>13. Owned'
  BY <1>0, <1>1, <1>7, <1>2 DEF Rest, Owned, Early
<1>14. Finished'
  BY <1>0, <1>1, <1>7 DEF Rest, Finished, Reached, Bootstrapped, ResumedPartial
<1>15. Settling'
  BY <1>0, <1>1, <1>7 DEF Rest, Settling
<1>16. Found'
  <2> SUFFICES ASSUME hit' = {}
               PROVE  /\ \A q \in Request : pc'[q] \notin Settled => owner[q] = None
                      /\ \A o \in Organizations' :
                           /\ org[o] = o \/ (pc'[o] = "record" /\ at[o] = 1)
                           /\ pc'[o] \in Settled => \E q \in Request : owner[q] = o
    BY <1>1 DEF Found
  <2>1. /\ \A q \in Request : pc[q] \notin Settled => owner[q] = None
        /\ \A o \in Organizations :
             /\ org[o] = o \/ (pc[o] = "record" /\ at[o] = 1)
             /\ pc[o] \in Settled => \E q \in Request : owner[q] = o
    BY <1>0, <1>7 DEF Rest, Found
  <2>2. pc'[r] \in {"call", "record"}
    BY <1>7
  <2>3. Organizations' \subseteq Request /\ \A o \in Organizations' : o \in Organizations \/ (o = r /\ s = "create")
    BY <1>1, <1>4 DEF Organizations
  <2>4. s = "create" => pc'[r] = "record" /\ at[r] = 1
    <3>1. \A n : n = 1 => \A k \in 1 .. n : k = n
      OBVIOUS
    <3>2. s = "create" => call[r] = Len(Calls(s))
      BY <1>2, <1>3, <3>1, Zenon
    <3> QED
      BY <1>6, <1>7, <2>2, <3>2
  <2> QED
    BY <1>1, <1>2, <1>7, <2>1, <2>2, <2>3, <2>4 DEF Settled
<1> QED
  BY <1>8, <1>9, <1>10, <1>11, <1>12, <1>13, <1>14, <1>15, <1>16 DEF Rest

\* At the end of the plan every step is recorded, under the row of the request or under the
\* one it has resumed - in the same organization, if the creation was known to it.
LEMMA PlanReached ==
  ASSUME IInv, NEW r \in Request, pc[r] = "complete"
  PROVE  Reached(r)
<1>0. None \notin Request /\ Rest
  BY ProvisioningAssumption DEF ProvisioningAssumption, IInv
<1>1. /\ \A s \in steps[r] : EffectsOf(org[r], s) \subseteq logto
      /\ "create" \in steps[r] => org[r] = r
  BY <1>0 DEF Rest, Backed
<1>2. "create" \in snap[r] => org[r] = resumed[r]
  BY <1>0 DEF Rest, Passed
<1>3. \A s \in Step : s \in snap[r] \union steps[r]
  <2>1. \A i \in 1 .. Len(Plan) + 1 - 1 : Plan[i] \in snap[r] \union steps[r]
    BY <1>0 DEF Rest, Passed, Positioned
  <2>2. \A i \in 1 .. Len(Plan) : Plan[i] \in snap[r] \union steps[r]
    BY <2>1, PlanFacts
  <2> QED
    BY <2>2, PlanFacts DEF Step
<1>4. "create" \in Step
  BY PlanFacts
<1>5. CASE snap[r] = {}
  BY <1>0, <1>1, <1>3, <1>4, <1>5 DEF Reached, Bootstrapped
<1>6. CASE ResumedPartial(r)
  BY <1>0, <1>1, <1>3, <1>4, <1>6 DEF Reached, ResumedPartial
<1>7. CASE "create" \in snap[r]
  <2>1. resumed[r] \in Request /\ snap[r] \subseteq steps[resumed[r]]
    BY <1>0, <1>7 DEF Rest, Snapshot
  <2>2. org[resumed[r]] = resumed[r] /\ \A s \in steps[resumed[r]] : EffectsOf(org[resumed[r]], s) \subseteq logto
    BY <1>0, <1>7, <2>1 DEF Rest, Backed
  <2> QED
    BY <1>0, <1>1, <1>2, <1>3, <1>7, <2>1, <2>2 DEF Reached, Bootstrapped
<1> QED
  BY <1>5, <1>6, <1>7 DEF ResumedPartial

LEMMA CompletingKeeps ==
  ASSUME IInv, TypeOK', NEW r \in Request, Completing(r)
  PROVE  Rest'
<1>0. None \notin Request /\ TypeOK /\ Rest
  BY ProvisioningAssumption DEF ProvisioningAssumption, IInv
<1>1. /\ pc[r] = "complete" /\ pc' = [pc EXCEPT ![r] = "finish"]
      /\ status' = [status EXCEPT ![r] = "completed"]
      /\ owner' = [owner EXCEPT ![r] = org[r]]
      /\ UNCHANGED <<steps, logto, at, call, op, resumed, snap, org, hit>>
  BY DEF Completing
<1>2. \A s \in Request :
        /\ pc'[s] = IF s = r THEN "finish" ELSE pc[s]
        /\ status'[s] = IF s = r THEN "completed" ELSE status[s]
        /\ owner'[s] = IF s = r THEN org[r] ELSE owner[s]
  BY <1>0, <1>1 DEF TypeOK
<1>3. Reached(r) /\ op[r] = r /\ owner[r] = None
  BY <1>0, <1>1, PlanReached DEF Rest, Own, Owned
<1>4. Before' /\ Strangers'
  BY <1>0, <1>1, <1>2 DEF Rest, Before, Strangers, Early
<1>5. Own'
  <2>1. op \in [Request -> Request \union {None}]
    BY <1>0 DEF TypeOK
  <2> QED
    BY <1>0, <1>1, <1>2, <1>3, <2>1 DEF Rest, Own
<1>6. Positioned' /\ Passed' /\ Creating' /\ Called'
  BY <1>0, <1>1, <1>2 DEF Rest, Positioned, Passed, Creating, Called, Target
<1>7. Backed' /\ Snapshot'
  BY <1>0, <1>1 DEF Rest, Backed, Snapshot
<1>8. Owned'
  BY <1>0, <1>1, <1>2 DEF Rest, Owned, Early
<1>9. Finished'
  BY <1>0, <1>1, <1>2, <1>3 DEF Rest, Finished, Reached, Bootstrapped, ResumedPartial
<1>10. Settling'
  BY <1>0, <1>1, <1>2 DEF Rest, Settling
<1>11. Found'
  <2>1. Organizations \subseteq Request
    BY DEF Organizations
  <2> QED
    BY <1>0, <1>1, <1>2, <1>3, <2>1 DEF Rest, Found, Settled, Organizations
<1> QED
  BY <1>4, <1>5, <1>6, <1>7, <1>8, <1>9, <1>10, <1>11 DEF Rest

LEMMA FailingKeeps ==
  ASSUME IInv, TypeOK', NEW r \in Request, Failing(r)
  PROVE  Rest'
<1>0. None \notin Request /\ TypeOK /\ Rest
  BY ProvisioningAssumption DEF ProvisioningAssumption, IInv
<1>1. PICK x \in Rows :
        /\ op[r] = x \/ op[r] = None
        /\ status' = [status EXCEPT ![x] = "failed"]
        /\ owner' = [owner EXCEPT ![x] = org[r]]
        /\ op' = [op EXCEPT ![r] = x]
  BY DEF Failing
<1>2. /\ pc[r] = "fail" /\ pc' = [pc EXCEPT ![r] = "excuse"]
      /\ UNCHANGED <<steps, logto, at, call, resumed, snap, org, hit>>
  BY DEF Failing
<1>3. x \in Request /\ status[x] # "absent"
  BY DEF Rows
<1>4. \A s \in Request :
        /\ pc'[s] = IF s = r THEN "excuse" ELSE pc[s]
        /\ status'[s] = IF s = x THEN "failed" ELSE status[s]
        /\ owner'[s] = IF s = x THEN org[r] ELSE owner[s]
        /\ op'[s] = IF s = r THEN x ELSE op[s]
  BY <1>0, <1>1, <1>2, <1>3 DEF TypeOK
<1>5. x # r => org[r] = None
  BY <1>0, <1>1, <1>2 DEF Rest, Strangers
<1>6. r \notin hit => x = r
  BY <1>0, <1>1, <1>2 DEF Rest, Settling
<1>7. Before' /\ Strangers'
  BY <1>0, <1>2, <1>3, <1>4 DEF Rest, Before, Strangers, Early
<1>8. Own'
  <2>1. op' \in [Request -> Request \union {None}]
    BY DEF TypeOK
  <2> QED
    BY <1>0, <1>2, <1>3, <1>4, <2>1 DEF Rest, Own
<1>9. Positioned' /\ Passed' /\ Creating' /\ Called'
  BY <1>0, <1>2, <1>4 DEF Rest, Positioned, Passed, Creating, Called, Target
<1>10. Backed' /\ Snapshot'
  BY <1>0, <1>2 DEF Rest, Backed, Snapshot
<1>11. Owned'
  BY <1>0, <1>2, <1>4, <1>5 DEF Rest, Owned, Early
<1>12. Finished'
  BY <1>0, <1>2, <1>4 DEF Rest, Finished, Reached, Bootstrapped, ResumedPartial
<1>13. Settling'
  BY <1>0, <1>2, <1>4, <1>6 DEF Rest, Settling
<1>14. Found'
  <2>1. Organizations \subseteq Request
    BY DEF Organizations
  <2> QED
    BY <1>0, <1>2, <1>3, <1>4, <1>6, <2>1 DEF Rest, Found, Settled, Organizations
<1> QED
  BY <1>7, <1>8, <1>9, <1>10, <1>11, <1>12, <1>13, <1>14 DEF Rest

LEMMA StutterKeeps ==
  ASSUME Rest, UNCHANGED vars
  PROVE  Rest'
<1> USE DEF vars, rows, locals, bounds
<1>1. Before' /\ Own' /\ Strangers' /\ Positioned'
  BY DEF Rest, Before, Own, Strangers, Positioned
<1>2. Backed' /\ Snapshot' /\ Passed' /\ Creating' /\ Called'
  BY DEF Rest, Backed, Snapshot, Passed, Creating, Called, Target
<1>3. Owned' /\ Settling'
  BY DEF Rest, Owned, Settling
<1>4. Finished' /\ Found'
  BY DEF Rest, Finished, Reached, Bootstrapped, ResumedPartial, Found, Organizations
<1> QED
  BY <1>1, <1>2, <1>3, <1>4 DEF Rest

\* No request that was answered does anything.
LEMMA DraftStep ==
  ASSUME IInv, [Next]_vars
  PROVE  Drafted'
<1>0. TypeOK /\ Drafted
  BY DEF IInv
<1>1. CASE UNCHANGED vars
  BY <1>0, <1>1 DEF Drafted, vars, locals
<1>2. CASE Next
  <2>1. PICK r \in Request : Works(r)
    BY <1>2, StepWorks
  <2>2. \A q \in Request : pc[q] = "answered" => pc'[q] = "answered" /\ org'[q] = org[q]
    <3>1. pc[r] # "answered"
      BY <2>1 DEF Works, Quiet, Moved, Reading, Inserting, Beginning, Calling, Recording, Completing, Failing, Ended
    <3>2. \A q \in Request \ {r} : pc'[q] = pc[q] /\ org'[q] = org[q]
      <4>1. CASE Quiet(r) \/ Reading(r) \/ Inserting(r) \/ Completing(r) \/ Failing(r)
        BY <1>0, <4>1 DEF TypeOK, Quiet, Reading, Inserting, Completing, Failing
      <4>2. CASE Beginning(r) \/ Calling(r) \/ Recording(r)
        BY <1>0, <4>2 DEF TypeOK, Beginning, Calling, Recording, Continue
      <4> QED
        BY <2>1, <4>1, <4>2 DEF Works
    <3> QED
      BY <3>1, <3>2
  <2>3. \/ draft' = draft \/ draft' = [state |-> "running", org |-> None]
        \/ draft' = [state |-> "failed", org |-> None]
        \/ \E q \in Request : SaveCompleted(q)
    BY <1>2 DEF Next, SaveDraft, SaveFailed, ReadSteps, InsertOperation, RecordStarted, ListRoles,
       ValidateTemplate, CallLogto, RecordStep, CompleteOperation, RecordCompleted, FailOperation,
       RecordFailed, StatementFails, Crash
  <2>4. CASE \E q \in Request : SaveCompleted(q)
    <3>1. PICK q \in Request : SaveCompleted(q)
      BY <2>4
    <3>2. pc'[q] = "answered" /\ org' = org /\ draft'.org = org[q]
      BY <1>0, <3>1 DEF TypeOK, SaveCompleted, Go, locals
    <3> QED
      BY <3>2 DEF Drafted
  <2>5. CASE draft' = draft
    BY <1>0, <2>2, <2>5 DEF Drafted
  <2>6. CASE draft' = [state |-> "running", org |-> None] \/ draft' = [state |-> "failed", org |-> None]
    BY <2>6 DEF Drafted
  <2> QED
    BY <2>3, <2>4, <2>5, <2>6
<1> QED
  BY <1>1, <1>2

LEMMA StepInv ==
  ASSUME IInv, [Next]_vars
  PROVE  IInv'
<1>1. TypeOK' /\ Drafted'
  BY TypeStep, DraftStep
<1>2. CASE UNCHANGED vars
  BY <1>1, <1>2, StutterKeeps DEF IInv
<1>3. CASE Next
  <2>1. PICK r \in Request : Works(r)
    BY <1>3, StepWorks
  <2>2. Rest'
    BY <1>1, <2>1, QuietKeeps, ReadingKeeps, InsertingKeeps, BeginningKeeps, CallingKeeps,
       RecordingKeeps, CompletingKeeps, FailingKeeps DEF Works
  <2> QED
    BY <1>1, <2>2 DEF IInv
<1> QED
  BY <1>2, <1>3

-----------------------------------------------------------------------------
(***************************************************************************)
(* Theorems.                                                               *)
(***************************************************************************)
\* The invariant holds in every reachable state, for any number of requests of the key,
\* contacts, refusals, timeouts, failed statements and crashes.
THEOREM ProvisioningInductive == Spec => []IInv
<1>1. Init => IInv
  BY InitInv
<1>2. IInv /\ [Next]_vars => IInv'
  BY StepInv
<1> QED
  BY <1>1, <1>2, PTL DEF Spec

\* Every variable holds values of its kind.
THEOREM ProvisioningTypeCorrect == Spec => []TypeOK
<1>1. IInv => TypeOK
  BY DEF IInv
<1> QED
  BY <1>1, ProvisioningInductive, PTL

\* What operational_operation_steps says was completed was done in Logto, in the organization
\* of the row's request: runStep records after the effect, and a request that resumes a row
\* never records under it.
THEOREM RecordedStepsAreReal == Spec => []StepsAreReal
<1>1. IInv => StepsAreReal
  BY DEF IInv, Rest, Backed, StepsAreReal, Home
<1> QED
  BY <1>1, ProvisioningInductive, PTL

\* A completed row, or the completed draft, names an organization in which every step of
\* the plan took effect, however many requests have shared the work - unless its request
\* resumed a row that was itself a resumption (createdStep.output of a step never recorded).
THEOREM CompletionIsBootstrapped == Spec => []CompletedIsBootstrapped
<1>1. ASSUME IInv PROVE CompletedIsBootstrapped
  <2>1. Finished /\ Drafted
    BY <1>1 DEF IInv, Rest
  <2>2. \A r \in Request :
          status[r] = "completed" => owner[r] # None /\ (Bootstrapped(owner[r]) \/ ResumedPartial(r))
    BY <2>1 DEF Finished, Reached
  <2>3. ASSUME draft.state = "completed"
        PROVE  Bootstrapped(draft.org) \/ \E r \in Request : org[r] = draft.org /\ ResumedPartial(r)
    <3>1. PICK r \in Request : pc[r] = "answered" /\ draft.org = org[r]
      BY <2>1, <2>3 DEF Drafted
    <3> QED
      BY <2>1, <3>1 DEF Finished, Reached
  <2> QED
    BY <2>2, <2>3 DEF CompletedIsBootstrapped
<1> QED
  BY <1>1, ProvisioningInductive, PTL

\* Without a fault, an organization whose creator has ended is named by some row:
\* failOperation stores organizationId, and where the unique index refuses it, another row
\* already names that organization.
THEOREM OrganizationIsFound == Spec => []OrganizationFound
<1>1. ASSUME IInv PROVE OrganizationFound
  <2>1. Found /\ Settling
    BY <1>1 DEF IInv, Rest
  <2>2. Organizations \subseteq Request
    BY DEF Organizations
  <2> QED
    BY <2>1, <2>2 DEF OrganizationFound, Found, Settling, Settled, Ended
<1> QED
  BY <1>1, ProvisioningInductive, PTL

\* A row stays running after its request only if a fault hit that request, or if another
\* request works in the same organization and the unique index has refused both updates.
THEOREM RunningIsAccounted == Spec => []RunningHasRequest
<1>1. ASSUME IInv PROVE RunningHasRequest
  <2>1. Settling
    BY <1>1 DEF IInv, Rest
  <2> QED
    BY <2>1 DEF RunningHasRequest, Settling, Ended
<1> QED
  BY <1>1, ProvisioningInductive, PTL

\* An organization that a request works in exists.
LEMMA OrganizationExists ==
  ASSUME IInv, NEW r \in Request, pc[r] = "call", at[r] # 1
  PROVE  org[r] \in Organizations
<1>1. Backed /\ Snapshot /\ Passed /\ Positioned
  BY DEF IInv, Rest
<1>2. "create" \in snap[r] \union steps[r]
  <2>1. \A i \in 1 .. at[r] - 1 : Plan[i] \in snap[r] \union steps[r]
    BY <1>1 DEF Passed
  <2>2. 1 \in 1 .. at[r] - 1
    BY <1>1, PlanFacts DEF Positioned
  <2> QED
    BY <2>1, <2>2, PlanFacts
<1>3. \A q \in Request : "create" \in steps[q] => org[q] = q /\ q \in Organizations
  BY <1>1 DEF Backed, EffectsOf, Organizations
<1>4. CASE "create" \in snap[r]
  BY <1>1, <1>3, <1>4 DEF Snapshot, Passed
<1> QED
  BY <1>2, <1>3, <1>4

\* Nothing is left in an organization that does not exist, nor in none.
NothingAstray ==
  \A o \in Request \union {None}, s \in Step :
    EffectsOf(o, s) \intersect logto # {} => o \in Organizations

\* What a call adds for an organization, it adds for the one its request works in.
LEMMA EffectOf ==
  ASSUME NEW r \in Request, NEW s, NEW k \in 1 .. Len(Calls(s)), NEW o, NEW t,
         Effect(r, s, k) \in EffectsOf(o, t)
  PROVE  o = IF s = "create" THEN r ELSE org[r]
<1>1. CASE s = "create"
  <2>1. Effect(r, s, k) = <<"organization", r>>
    BY <1>1, EffectFacts
  <2>2. \A a, b, c : <<a, b, c>> # <<"organization", r>>
    <3>1. ASSUME NEW a, NEW b, NEW c PROVE Len(<<a, b, c>>) # Len(<<"organization", r>>)
      OBVIOUS
    <3> QED
      BY <3>1
  <2> QED
    BY <1>1, <2>1, <2>2 DEF EffectsOf
<1>2. CASE s # "create"
  <2>1. Effect(r, s, k) = IF Calls(s)[k] = "user" THEN <<"user", s>> ELSE <<Calls(s)[k], org[r], s>>
    BY <1>2 DEF Effect, UserOf
  <2>2. ASSUME NEW a, NEW b, NEW c
        PROVE  <<a, b, c>> # <<"user", s>> /\ <<a, b, c>> # <<"organization", o>>
    <3>1. Len(<<a, b, c>>) # Len(<<"user", s>>) /\ Len(<<a, b, c>>) # Len(<<"organization", o>>)
      OBVIOUS
    <3> QED
      BY <3>1
  <2>3. <<"user", s>> # <<"organization", o>>
    OBVIOUS
  <2> QED
    BY <1>2, <2>1, <2>2, <2>3 DEF EffectsOf
<1> QED
  BY <1>1, <1>2

LEMMA AstrayStep ==
  ASSUME IInv, NothingAstray, [Next]_vars
  PROVE  NothingAstray'
<1>1. CASE logto' = logto
  BY <1>1 DEF NothingAstray, EffectsOf, Organizations
<1>2. ASSUME NEW r \in Request, Calling(r) PROVE NothingAstray'
  <2> DEFINE s == Plan[at[r]]
             e == Effect(r, s, call[r])
  <2>1. pc[r] = "call" /\ logto' = logto \union {e} /\ call[r] \in 1 .. Len(Calls(s)) /\ at[r] \in 1 .. Len(Plan)
    BY <1>2 DEF Calling, IInv, Rest, Positioned
  <2>2. s = "create" => at[r] = 1 /\ e = <<"organization", r>>
    BY <2>1, PlanFacts, EffectFacts
  <2>3. s # "create" => at[r] # 1
    BY PlanFacts
  <2>4. Organizations \subseteq Organizations'
    BY <2>1 DEF Organizations
  <2>5. (IF s = "create" THEN r ELSE org[r]) \in Organizations'
    BY <2>1, <2>2, <2>3, <2>4, OrganizationExists DEF Organizations
  <2> SUFFICES ASSUME NEW o \in Request \union {None}, NEW t \in Step, EffectsOf(o, t) \intersect logto' # {}
               PROVE  o \in Organizations'
    BY DEF NothingAstray, EffectsOf
  <2>6. CASE EffectsOf(o, t) \intersect logto # {}
    BY <2>4, <2>6 DEF NothingAstray
  <2>7. CASE e \in EffectsOf(o, t)
    BY <2>1, <2>5, <2>7, EffectOf
  <2> QED
    BY <2>1, <2>6, <2>7
<1>3. CASE Next
  <2>1. PICK r \in Request : Works(r)
    BY <1>3, StepWorks
  <2>2. Calling(r) \/ logto' = logto
    BY <2>1 DEF Works, Quiet, Reading, Inserting, Beginning, Recording, Completing, Failing
  <2> QED
    BY <1>1, <1>2, <2>2
<1> QED
  BY <1>1, <1>3 DEF vars

\* Domains, members and roles are only ever written into an organization that Logto has: no
\* call of a step carries a missing organizationId, or one of an organization never created,
\* whichever rows a request resumed and whatever failed before.
THEOREM EffectsHaveOrganization == Spec => []NothingAstray
<1>1. Init => NothingAstray
  BY DEF Init, NothingAstray
<1> QED
  BY <1>1, AstrayStep, ProvisioningInductive, PTL DEF Spec

\* A request never leaves the organization it works in for another: once it knows
\* organizationId, from its own creation or from the row it resumed, it keeps it.
THEOREM OrganizationIsFinal ==
  Spec => [][\A r \in Request : org[r] # None => org'[r] = org[r]]_vars
<1> DEFINE Same == \A r \in Request : org[r] # None => org'[r] = org[r]
<1>1. ASSUME IInv, [Next]_vars PROVE [Same]_vars
  <2>0. org \in [Request -> Request \union {None}]
    BY <1>1 DEF IInv, TypeOK
  <2>1. CASE Next
    <3>1. PICK r \in Request : Works(r)
      BY <1>1, <2>1, StepWorks
    <3>2. CASE Beginning(r)
      <4>1. org[r] = None
        BY <1>1, <3>2 DEF Beginning, IInv, Rest, Before, Early
      <4> QED
        BY <2>0, <3>2, <4>1 DEF Beginning
    <3>3. CASE Recording(r)
      <4>1. Plan[at[r]] = "create" => org[r] = None
        BY <1>1, <3>3, PlanFacts DEF Recording, IInv, Rest, Positioned, Creating
      <4> QED
        BY <2>0, <3>3, <4>1 DEF Recording
    <3>4. CASE org' = org
      BY <3>4
    <3> QED
      BY <3>1, <3>2, <3>3, <3>4 DEF Works, Quiet, Reading, Inserting, Calling, Completing, Failing
  <2> QED
    BY <1>1, <2>1
<1> QED
  BY <1>1, ProvisioningInductive, PTL DEF Spec
=============================================================================
