-------------------------- MODULE ScimOperationLedger --------------------------
(***************************************************************************)
(* A SCIM operation from its request to its effect on the identity         *)
(* provider: backend/scim/scimOperationLedger.js over the inbox and        *)
(* operation calls of backend/services/integrationEvents.js.               *)
(*                                                                         *)
(* Requesters run enqueueScimOperation, consumers applyScimOperationEvent, *)
(* operators call transitionOperation.  Between them is the outbox, here   *)
(* IntegrationEventContract, which IntegrationOutbox implements.  A key is *)
(* an idempotency key, and with it an operation (unique per organization), *)
(* an event (uuidFromHash(key)) and an inbox receipt.                      *)
(*                                                                         *)
(* Definitions under "Mutant" are faulty variants of the definition after  *)
(* them; nothing in the specification uses one.                            *)
(***************************************************************************)
EXTENDS Naturals

CONSTANTS Key,        \* idempotency keys
          Requester,  \* processes calling enqueueScimOperation
          Consumer,   \* processes calling applyScimOperationEvent
          Operator,   \* principals calling transitionOperation
          MaxCrash,   \* bound: crashes and lost connections in a behaviour
          MaxSlow,    \* bound: leases that expire while their holder still works
          MaxReplay,  \* bound: deliveries of an event after its dead letter
          MaxMove,    \* bound: operator calls
          NoKey       \* no key in hand

ASSUME LedgerAssumption ==
  /\ MaxCrash \in Nat
  /\ MaxSlow \in Nat
  /\ MaxReplay \in Nat
  /\ MaxMove \in Nat
  /\ NoKey \notin Key
  /\ Consumer \cap Operator = {}

Mover == Consumer \cup Operator

VARIABLES
  \* operational_operations, by key
  opState,    \* operation_state, or "none"
  version,
  \* the outbox, as its contract describes it
  status, reached, letters,
  \* integration_inbox_receipts, by key
  receipt,    \* state, or "none"
  attempts,   \* attempt_count
  owner,      \* lease_owner
  expiry,     \* lease_expires_at: "none" (null), "live" or "expired"
  inboxDlq,   \* dead letters of source_kind 'inbox'
  applied,    \* adapter calls that took effect
  \* locals
  rpc, rkey,  \* by requester
  pc, ckey,   \* by mover
  token,      \* receipt.lease_owner of the consumer
  expected,   \* expectedVersion of transitionOperation
  to,         \* toState of transitionOperation
  \* clocks and bounds
  fresh, crashes, slips, replays, moves

opVars == <<opState, version>>
outVars == <<status, reached, letters>>
inVars == <<receipt, attempts, owner, expiry, inboxDlq>>
reqVars == <<rpc, rkey>>
locVars == <<pc, ckey, token, expected, to>>
bounds == <<crashes, slips, replays, moves>>
vars == <<opVars, outVars, inVars, applied, reqVars, locVars, fresh, bounds>>

Outbox == INSTANCE IntegrationEventContract WITH Event <- Key

NoOwner == 0
Final == {"processed", "dead_lettered"}
Terminal == {"succeeded", "partially_succeeded", "failed", "cancelled"}
OperationState == {"accepted", "queued", "running"} \cup Terminal

Transitions ==
  [s \in OperationState |->
     CASE s = "accepted" -> {"queued", "cancelled", "failed"}
       [] s = "queued" -> {"running", "cancelled", "failed"}
       [] s = "running" -> Terminal
       [] OTHER -> {}]

Init ==
  /\ opState = [k \in Key |-> "none"]
  /\ version = [k \in Key |-> 0]
  /\ Outbox!Init
  /\ receipt = [k \in Key |-> "none"]
  /\ attempts = [k \in Key |-> 0]
  /\ owner = [k \in Key |-> NoOwner]
  /\ expiry = [k \in Key |-> "none"]
  /\ inboxDlq = [k \in Key |-> 0]
  /\ applied = [k \in Key |-> 0]
  /\ rpc = [q \in Requester |-> "idle"]
  /\ rkey = [q \in Requester |-> NoKey]
  /\ pc = [c \in Mover |-> "idle"]
  /\ ckey = [c \in Mover |-> NoKey]
  /\ token = [c \in Mover |-> NoOwner]
  /\ expected = [c \in Mover |-> 0]
  /\ to = [c \in Mover |-> "succeeded"]
  /\ fresh = 1
  /\ crashes = MaxCrash /\ slips = MaxSlow /\ replays = MaxReplay /\ moves = MaxMove

-----------------------------------------------------------------------------
(* enqueueScimOperation: four statements, no transaction around them.      *)

RequesterAt(q, s) == rpc' = [rpc EXCEPT ![q] = s]

\* The call returns, rejects or dies.
RequesterDone(q) == RequesterAt(q, "idle") /\ rkey' = [rkey EXCEPT ![q] = NoKey]

\* Mutant: the event is appended before its operation is created.
AppendFirst == "append"

FirstCall == "create"

\* findOperationByIdempotencyKey finds nothing.  (If it finds the operation the
\* call returns it with idempotent: true and changes nothing.)
Request(q, k) ==
  /\ rpc[q] = "idle"
  /\ opState[k] = "none"
  /\ RequesterAt(q, FirstCall)
  /\ rkey' = [rkey EXCEPT ![q] = k]
  /\ UNCHANGED <<opVars, outVars, inVars, applied, locVars, fresh, bounds>>

\* createOperation: "on conflict do nothing", then the existing row.
CreateOperation(q) ==
  /\ rpc[q] = "create"
  /\ LET k == rkey[q] IN
       IF opState[k] = "none"
       THEN /\ opState' = [opState EXCEPT ![k] = "accepted"]
            /\ version' = [version EXCEPT ![k] = 1]
       ELSE UNCHANGED opVars
  /\ RequesterAt(q, "append")
  /\ UNCHANGED <<outVars, inVars, applied, rkey, locVars, fresh, bounds>>

\* appendEvent; a second insert of the event_id throws.
AppendEvent(q) ==
  /\ rpc[q] = "append"
  /\ \/ Outbox!Append(rkey[q]) /\ RequesterAt(q, "queue") /\ UNCHANGED rkey
     \/ status[rkey[q]] # "absent" /\ RequesterDone(q) /\ UNCHANGED outVars
  /\ UNCHANGED <<opVars, inVars, applied, locVars, fresh, bounds>>

Queueable(k) == opState[k] = "accepted"

\* markOperationQueued: no row is no error.
MarkOperationQueued(q) ==
  /\ rpc[q] = "queue"
  /\ LET k == rkey[q] IN
       IF Queueable(k)
       THEN /\ opState' = [opState EXCEPT ![k] = "queued"]
            /\ version' = [version EXCEPT ![k] = @ + 1]
       ELSE UNCHANGED opVars
  /\ RequesterDone(q)
  /\ UNCHANGED <<outVars, inVars, applied, locVars, fresh, bounds>>

RequesterCrash(q) ==
  /\ rpc[q] # "idle"
  /\ crashes > 0
  /\ crashes' = crashes - 1
  /\ RequesterDone(q)
  /\ UNCHANGED <<opVars, outVars, inVars, applied, locVars, fresh, slips, replays, moves>>

-----------------------------------------------------------------------------
(* The outbox's dispatchers, as far as its contract tells.                 *)

OutboxStep(k) ==
  /\ Outbox!Deliver(k) \/ Outbox!Publish(k) \/ Outbox!GiveUp(k)
  /\ UNCHANGED <<opVars, inVars, applied, reqVars, locVars, fresh, bounds>>

-----------------------------------------------------------------------------
(* applyScimOperationEvent                                                 *)

MoverAt(c, s) == pc' = [pc EXCEPT ![c] = s]

MoverDone(c) ==
  /\ MoverAt(c, "idle")
  /\ ckey' = [ckey EXCEPT ![c] = NoKey]
  /\ token' = [token EXCEPT ![c] = NoOwner]
  /\ expected' = [expected EXCEPT ![c] = 0]
  /\ to' = [to EXCEPT ![c] = "succeeded"]

\* Mutant: the receipt's lease is the consumer's bare name, the same each time.
SharedToken == fresh

NextToken == fresh + 1

Free(k) == receipt[k] = "none" \/ (receipt[k] = "processing" /\ expiry[k] = "expired")

\* Mutant: a takeover is not counted.
UncountedTakeover(k) == IF receipt[k] = "none" THEN 1 ELSE attempts[k]

Charge(k) == attempts[k] + 1

\* claimInbox inserts the receipt or takes over an expired lease.  (A receipt that
\* is processed or has a live lease throws and is left as it was.)
ClaimInbox(c, k) ==
  /\ pc[c] = "idle"
  /\ k \in reached
  /\ Free(k)
  /\ receipt' = [receipt EXCEPT ![k] = "processing"]
  /\ attempts' = [attempts EXCEPT ![k] = Charge(k)]
  /\ owner' = [owner EXCEPT ![k] = fresh]
  /\ expiry' = [expiry EXCEPT ![k] = "live"]
  /\ fresh' = NextToken
  /\ MoverAt(c, "call")
  /\ ckey' = [ckey EXCEPT ![c] = k]
  /\ token' = [token EXCEPT ![c] = fresh]
  /\ UNCHANGED <<opVars, outVars, inboxDlq, applied, reqVars, expected, to, bounds>>

\* claimInbox on a dead-lettered receipt: its lease is null, the row stays as it is
\* and is returned, and the consumer goes on without an owner.
ClaimDeadLettered(c, k) ==
  /\ pc[c] = "idle"
  /\ k \in reached
  /\ receipt[k] = "dead_lettered"
  /\ replays > 0
  /\ replays' = replays - 1
  /\ MoverAt(c, "call")
  /\ ckey' = [ckey EXCEPT ![c] = k]
  /\ UNCHANGED <<opVars, outVars, inVars, applied, reqVars, token, expected, to,
                 fresh, crashes, slips, moves>>

\* The adapter's call to the identity provider; one that throws may have taken
\* effect (a timeout, or the second of several role assignments failing).
CallAdapter(c) ==
  /\ pc[c] = "call"
  /\ \E took, ok \in BOOLEAN :
       /\ ok => took
       /\ applied' = IF took THEN [applied EXCEPT ![ckey[c]] = @ + 1] ELSE applied
       /\ MoverAt(c, IF ok THEN "mark" ELSE "catch")
  /\ UNCHANGED <<opVars, outVars, inVars, reqVars, ckey, token, expected, to, fresh, bounds>>

\* "state='processing' and ($n::text is null or lease_owner=$n)"
Owns(c) ==
  /\ receipt[ckey[c]] = "processing"
  /\ token[c] = NoOwner \/ owner[ckey[c]] = token[c]

\* Mutant: markInboxProcessed without "and lease_expires_at>now()" and its owner.
MarkableByAnyone(c) == receipt[ckey[c]] # "none"

\* markInboxProcessed also needs "lease_expires_at>now()".
Markable(c) == Owns(c) /\ expiry[ckey[c]] = "live"

SettleReceipt(c, s) ==
  /\ receipt' = [receipt EXCEPT ![ckey[c]] = s]
  /\ owner' = [owner EXCEPT ![ckey[c]] = NoOwner]
  /\ expiry' = [expiry EXCEPT ![ckey[c]] = "none"]
  /\ UNCHANGED attempts

MarkInboxProcessed(c) ==
  /\ pc[c] = "mark"
  /\ \/ Markable(c) /\ SettleReceipt(c, "processed") /\ UNCHANGED inboxDlq /\ MoverAt(c, "get")
     \/ ~Markable(c) /\ UNCHANGED inVars /\ MoverAt(c, "catch")
  /\ UNCHANGED <<opVars, outVars, applied, reqVars, ckey, token, expected, to, fresh, bounds>>

\* getOperation: the version the transition will expect.
GetOperation(c) ==
  /\ pc[c] = "get"
  /\ expected' = [expected EXCEPT ![c] = version[ckey[c]]]
  /\ MoverAt(c, "select")
  /\ UNCHANGED <<opVars, outVars, inVars, applied, reqVars, ckey, token, to, fresh, bounds>>

\* Mutant: a dead letter needs a live lease, as a mark does.
WhileLeased(c) == Owns(c) /\ expiry[ckey[c]] = "live"

\* Mutant: moveInboxToDeadLetter without its test of the receipt.
DeadLetterAnyway(c) == TRUE

\* moveInboxToDeadLetter has no test of lease_expires_at.
DeadLetterable(c) == Owns(c)

\* The catch block: moveInboxToDeadLetter, in one transaction with its dead letter,
\* or a conflict; the call rejects either way.
MoveInboxToDeadLetter(c) ==
  /\ pc[c] = "catch"
  /\ \/ /\ DeadLetterable(c)
        /\ SettleReceipt(c, "dead_lettered")
        /\ inboxDlq' = [inboxDlq EXCEPT ![ckey[c]] = @ + 1]
     \/ ~DeadLetterable(c) /\ UNCHANGED inVars
  /\ MoverDone(c)
  /\ UNCHANGED <<opVars, outVars, applied, reqVars, fresh, bounds>>

-----------------------------------------------------------------------------
(* transitionOperation: a select, then an update, each "where version=$3". *)

\* An operator calls it with the version of the operation it was shown.
OperatorCall(o, k, s) ==
  /\ pc[o] = "idle"
  /\ moves > 0
  /\ moves' = moves - 1
  /\ opState[k] # "none"
  /\ MoverAt(o, "select")
  /\ ckey' = [ckey EXCEPT ![o] = k]
  /\ expected' = [expected EXCEPT ![o] = version[k]]
  /\ to' = [to EXCEPT ![o] = s]
  /\ UNCHANGED <<opVars, outVars, inVars, applied, reqVars, token, fresh,
                 crashes, slips, replays>>

\* What an error of transitionOperation leads to: a consumer's catch block, or
\* the operator's rejected call.
Refused(c) == IF c \in Consumer THEN MoverAt(c, "catch") /\ UNCHANGED <<ckey, token, expected, to>>
                                ELSE MoverDone(c)

SelectForTransition(c) ==
  /\ pc[c] = "select"
  /\ LET cur == opState[ckey[c]] IN
       IF version[ckey[c]] = expected[c] /\ to[c] \in Transitions[cur]
       THEN MoverAt(c, "update") /\ UNCHANGED <<ckey, token, expected, to>>
       ELSE Refused(c)
  /\ UNCHANGED <<opVars, outVars, inVars, applied, reqVars, fresh, bounds>>

\* Mutant: the update without "and version=$3".
AnyVersion(c) == TRUE

SameVersion(c) == version[ckey[c]] = expected[c]

WriteOperation(c) ==
  /\ opState' = [opState EXCEPT ![ckey[c]] = to[c]]
  /\ version' = [version EXCEPT ![ckey[c]] = @ + 1]

UpdateOperation(c) ==
  /\ pc[c] = "update"
  /\ IF SameVersion(c)
     THEN WriteOperation(c) /\ MoverDone(c)
     ELSE UNCHANGED opVars /\ Refused(c)
  /\ UNCHANGED <<outVars, inVars, applied, reqVars, fresh, bounds>>

-----------------------------------------------------------------------------
\* A consumer's process dies, or a call of its catch block fails.
ConsumerCrash(c) ==
  /\ pc[c] # "idle"
  /\ crashes > 0
  /\ crashes' = crashes - 1
  /\ MoverDone(c)
  /\ UNCHANGED <<opVars, outVars, inVars, applied, reqVars, fresh, slips, replays, moves>>

\* The connection is lost in a call of the try block: its statement may have
\* committed, and the catch block runs.
ConnectionLost(c) ==
  /\ pc[c] \in {"mark", "get", "select", "update"}
  /\ crashes > 0
  /\ crashes' = crashes - 1
  /\ MoverAt(c, "catch")
  /\ \/ UNCHANGED <<inVars, opVars>>
     \/ /\ pc[c] = "mark" /\ Markable(c) /\ SettleReceipt(c, "processed")
        /\ UNCHANGED <<inboxDlq, opVars>>
     \/ /\ pc[c] = "update" /\ SameVersion(c) /\ WriteOperation(c)
        /\ UNCHANGED inVars
  /\ UNCHANGED <<outVars, applied, reqVars, ckey, token, expected, to, fresh,
                 slips, replays, moves>>

Attended(k) == \E c \in Consumer : ckey[c] = k /\ token[c] = owner[k]

\* Time: lease_expires_at passes, at most MaxSlow times under a working holder.
LeaseExpires(k) ==
  /\ receipt[k] = "processing"
  /\ expiry[k] = "live"
  /\ \/ Attended(k) /\ slips > 0 /\ slips' = slips - 1
     \/ ~Attended(k) /\ UNCHANGED slips
  /\ expiry' = [expiry EXCEPT ![k] = "expired"]
  /\ UNCHANGED <<opVars, outVars, receipt, attempts, owner, inboxDlq, applied, reqVars, locVars,
                 fresh, crashes, replays, moves>>

-----------------------------------------------------------------------------
Enqueue(q) ==
  \/ \E k \in Key : Request(q, k)
  \/ CreateOperation(q) \/ AppendEvent(q) \/ MarkOperationQueued(q)

Apply(c) ==
  \/ \E k \in Key : ClaimInbox(c, k) \/ ClaimDeadLettered(c, k)
  \/ CallAdapter(c) \/ MarkInboxProcessed(c) \/ GetOperation(c)
  \/ SelectForTransition(c) \/ UpdateOperation(c) \/ MoveInboxToDeadLetter(c)

Operate(o) ==
  \/ \E k \in Key, s \in OperationState : OperatorCall(o, k, s)
  \/ SelectForTransition(o) \/ UpdateOperation(o)

Next ==
  \/ \E q \in Requester : Enqueue(q) \/ RequesterCrash(q)
  \/ \E c \in Consumer : Apply(c) \/ ConsumerCrash(c) \/ ConnectionLost(c)
  \/ \E o \in Operator : Operate(o)
  \/ \E k \in Key : OutboxStep(k) \/ LeaseExpires(k)

Spec == Init /\ [][Next]_vars

\* Clients retry, consumers are delivered to again and run to their end, and time passes.
\* That is more than the code gives (no delivery follows once the outbox is done with an
\* event): what fails even so fails.
Fairness ==
  /\ \A q \in Requester : WF_vars(Enqueue(q))
  /\ \A c \in Consumer : WF_vars(Apply(c))
  /\ \A k \in Key : WF_vars(LeaseExpires(k))

FairSpec == Spec /\ Fairness

-----------------------------------------------------------------------------
\* Type invariant: every row holds a value its checks allow, and a process past
\* its first step has a key in hand whose operation or receipt exists.
TypeOK ==
  /\ opState \in [Key -> OperationState \cup {"none"}]
  /\ version \in [Key -> Nat]
  /\ status \in [Key -> {"absent", "open", "published", "dead_lettered"}]
  /\ reached \in SUBSET Key
  /\ letters \in [Key -> Nat]
  /\ receipt \in [Key -> {"none", "processing"} \cup Final]
  /\ attempts \in [Key -> Nat]
  /\ owner \in [Key -> Nat]
  /\ expiry \in [Key -> {"none", "live", "expired"}]
  /\ inboxDlq \in [Key -> Nat]
  /\ applied \in [Key -> Nat]
  /\ rpc \in [Requester -> {"idle", "create", "append", "queue"}]
  /\ rkey \in [Requester -> Key \cup {NoKey}]
  /\ \A q \in Requester : rpc[q] # "idle" => rkey[q] \in Key
  /\ pc \in [Mover -> {"idle", "call", "mark", "get", "select", "update", "catch"}]
  /\ ckey \in [Mover -> Key \cup {NoKey}]
  /\ \A c \in Mover : pc[c] # "idle" => ckey[c] \in Key /\ opState[ckey[c]] # "none"
  /\ token \in [Mover -> Nat]
  /\ expected \in [Mover -> Nat]
  /\ to \in [Mover -> OperationState]
  /\ fresh \in Nat /\ crashes \in Nat /\ slips \in Nat /\ replays \in Nat /\ moves \in Nat

\* The dead letters of the inbox are the dead-lettered receipts, one each, and
\* their leases are gone with them.
InboxLedger ==
  \A k \in Key :
    /\ inboxDlq[k] = IF receipt[k] = "dead_lettered" THEN 1 ELSE 0
    /\ expiry[k] = "none" <=> receipt[k] # "processing"

\* A receipt is in the hands of one consumer call: a holder that lost its lease
\* can neither mark nor dead-letter a receipt another has taken over.
ReceiptExclusive ==
  \A c, d \in Consumer :
    /\ pc[c] \notin {"idle", "call"} /\ pc[d] \notin {"idle", "call"}
    /\ ckey[c] = ckey[d] /\ Owns(c) /\ Owns(d)
    => c = d

\* The effect comes first: a receipt is processed only after its adapter call
\* took effect, and until it is dead-lettered every effect was charged an attempt.
EffectsCharged ==
  \A k \in Key :
    /\ receipt[k] = "processed" => applied[k] > 0
    /\ receipt[k] # "dead_lettered" => applied[k] <= attempts[k]

\* A processed or dead-lettered receipt stays so, whichever slow consumer's mark
\* or catch block arrives late and whatever is delivered again.
ReceiptFinal ==
  [][\A k \in Key : receipt[k] \in Final => receipt'[k] = receipt[k]]_vars

\* An operation moves only along TRANSITIONS and each move takes one version,
\* although transitionOperation tests the state in one statement and writes it in
\* another, with markOperationQueued and other callers between them.
LegalMoves ==
  [][\A k \in Key :
       /\ opState[k] # "none" /\ opState'[k] # opState[k]
            => opState'[k] \in Transitions[opState[k]] /\ version'[k] = version[k] + 1
       /\ version'[k] # version[k] => opState'[k] # opState[k]]_vars

\* A receipt is left in processing, with no consumer at work under its lease, only by a death
\* or a lost connection: whoever outlives its lease without being taken over can still
\* dead-letter it.  (What is left so is taken over by a delivery only, and once the outbox
\* is done with the event there is none.)
StuckByCrashOnly ==
  \A k \in Key : receipt[k] = "processing" /\ ~Attended(k) => crashes < MaxCrash

\* "PostgreSQL transactional outbox" (docs/operations/p3-010-integration-events-
\* operations-runbook.md, line 5): an accepted operation has its event appended,
\* at once or at least when its client retries the request.
EventuallyAppended ==
  \A k \in Key : opState[k] # "none" ~> status[k] # "absent"

\* "poison one event, observe the page, repair it, replay with the canonical event
\* ID twice ... empty owned DLQ" (docs/operations/phase3-production-readiness.md,
\* line 16): a delivery whose adapter call succeeds ends with a processed receipt,
\* also when the receipt was dead-lettered by an earlier one.
ReplayRepairs ==
  \A k \in Key : (\E c \in Consumer : pc[c] = "mark" /\ ckey[c] = k) ~> receipt[k] = "processed"

\* "reconcile inbox/outbox/operation ledgers ... zero unexplained drift" (same
\* line): once its consumer is done, a processed receipt has an operation that
\* succeeded.
LedgersAgree ==
  \A k \in Key :
    receipt[k] = "processed" /\ (\A c \in Consumer : ckey[c] # k) => opState[k] = "succeeded"
=============================================================================
