--------------------------- MODULE IntegrationOutbox ---------------------------
(***************************************************************************)
(* The transactional outbox of backend/services/integrationEvents.js: the  *)
(* table integration_outbox_events, the dead-letter table, and dispatchers *)
(* running createIntegrationDispatcher().dispatchOnce().                   *)
(*                                                                         *)
(* Every repository call is one SQL statement or one transaction, hence    *)
(* one action.  Time is abstracted to what the guards compare: a lease is  *)
(* "live" or "expired" (lease_expires_at against now()), and a retry is    *)
(* due or not (next_attempt_at <= now()).                                  *)
(*                                                                         *)
(* Definitions under "Mutant" are faulty variants of the definition after  *)
(* them; nothing in the specification uses one.                            *)
(***************************************************************************)
EXTENDS Naturals, FiniteSets

CONSTANTS Event,         \* rows that may be appended (event_id)
          Dispatcher,    \* processes calling dispatchOnce
          MaxAttempts,   \* max_attempts of a row
          BatchLimit,    \* "limit" of claimBatch
          MaxCrash,      \* bound: crashes and lost connections in a behaviour
          MaxSlow,       \* bound: leases that expire while their holder still works
          NoEvent        \* no row in hand

ASSUME OutboxAssumption ==
  /\ MaxAttempts \in Nat \ {0}
  /\ BatchLimit \in Nat \ {0}
  /\ MaxCrash \in Nat
  /\ MaxSlow \in Nat
  /\ NoEvent \notin Event

VARIABLES
  \* the columns of integration_outbox_events, by event
  state,
  attempts,   \* attempt_count
  owner,      \* lease_owner
  expiry,     \* lease_expires_at: "none" (null), "live" or "expired"
  due,        \* next_attempt_at <= now()
  created,    \* created_at
  dlq,        \* rows of integration_dead_letters, by event
  delivered,  \* the owner tokens under which the transport took the event
  \* the locals of dispatchOnce, by dispatcher
  pc,
  token,      \* row.lease_owner of the claimed rows
  batch,      \* claimed rows still to be handled
  cur,        \* row
  class,      \* class of classifyError(error)
  \* clocks and bounds
  fresh,      \* next claim owner: leaseOwner with its randomUUID()
  clock,      \* next created_at
  crashes,    \* crashes left
  slips       \* leases that may still expire under a working holder

rowVars == <<state, attempts, owner, expiry, due, created>>
dispVars == <<pc, token, batch, cur, class>>
vars == <<rowVars, dlq, delivered, dispVars, fresh, clock, crashes, slips>>

OutboxState == {"absent", "pending", "claimed", "retry_scheduled",
                "published", "dead_lettered"}
Settled == {"published", "dead_lettered"}
ErrorClass == {"retryable", "terminal", "reconciliation_required"}
NoOwner == 0

Init ==
  /\ state = [e \in Event |-> "absent"]
  /\ attempts = [e \in Event |-> 0]
  /\ owner = [e \in Event |-> NoOwner]
  /\ expiry = [e \in Event |-> "none"]
  /\ due = [e \in Event |-> FALSE]
  /\ created = [e \in Event |-> 0]
  /\ dlq = [e \in Event |-> 0]
  /\ delivered = [e \in Event |-> {}]
  /\ pc = [d \in Dispatcher |-> "idle"]
  /\ token = [d \in Dispatcher |-> NoOwner]
  /\ batch = [d \in Dispatcher |-> {}]
  /\ cur = [d \in Dispatcher |-> NoEvent]
  /\ class = [d \in Dispatcher |-> "retryable"]
  /\ fresh = 1
  /\ clock = 1
  /\ crashes = MaxCrash
  /\ slips = MaxSlow

-----------------------------------------------------------------------------
\* appendEvent: the column defaults of the insert make the row due at once.
AppendEvent(e) ==
  /\ state[e] = "absent"
  /\ state' = [state EXCEPT ![e] = "pending"]
  /\ due' = [due EXCEPT ![e] = TRUE]
  /\ created' = [created EXCEPT ![e] = clock]
  /\ clock' = clock + 1
  /\ UNCHANGED <<attempts, owner, expiry, dlq, delivered, dispVars, fresh, crashes, slips>>

\* Mutant: claimBatch never takes over an expired lease.
ClaimableNeverExpired(e) == state[e] \in {"pending", "retry_scheduled"} /\ due[e]

Claimable(e) ==
  \/ state[e] \in {"pending", "retry_scheduled"} /\ due[e]
  \/ state[e] = "claimed" /\ expiry[e] = "expired"

\* "order by created_at ... limit $1"
Picked ==
  {e \in Event : /\ Claimable(e)
                 /\ Cardinality({f \in Event : Claimable(f) /\ created[f] < created[e]})
                      < BatchLimit}

\* Mutant: a claim taken over from an expired lease is not counted.
UncountedTakeover(e) == IF state[e] = "claimed" THEN attempts[e] ELSE attempts[e] + 1

\* attempt_count=attempt_count+1: never compared with max_attempts here.
Charge(e) == attempts[e] + 1

\* Mutant: the owner is the bare leaseOwner, the same for every call.
SharedOwner == fresh

NextOwner == fresh + 1

\* claimBatch: one statement claims the batch under a fresh owner token.
ClaimBatch(d) ==
  /\ pc[d] = "idle"
  /\ Picked # {}
  /\ state' = [e \in Event |-> IF e \in Picked THEN "claimed" ELSE state[e]]
  /\ owner' = [e \in Event |-> IF e \in Picked THEN fresh ELSE owner[e]]
  /\ expiry' = [e \in Event |-> IF e \in Picked THEN "live" ELSE expiry[e]]
  /\ attempts' = [e \in Event |-> IF e \in Picked THEN Charge(e) ELSE attempts[e]]
  /\ fresh' = NextOwner
  /\ pc' = [pc EXCEPT ![d] = "next"]
  /\ token' = [token EXCEPT ![d] = fresh]
  /\ batch' = [batch EXCEPT ![d] = Picked]
  /\ UNCHANGED <<due, created, dlq, delivered, cur, class, clock, crashes, slips>>

\* dispatchOnce returns, rejects or dies: its locals are gone.  What it had not
\* handled stays claimed.
Leave(d) ==
  /\ pc' = [pc EXCEPT ![d] = "idle"]
  /\ token' = [token EXCEPT ![d] = NoOwner]
  /\ batch' = [batch EXCEPT ![d] = {}]
  /\ cur' = [cur EXCEPT ![d] = NoEvent]
  /\ class' = [class EXCEPT ![d] = "retryable"]

\* The row in hand is dealt with; on to the next of the batch.
Proceed(d) ==
  /\ pc' = [pc EXCEPT ![d] = "next"]
  /\ cur' = [cur EXCEPT ![d] = NoEvent]
  /\ class' = [class EXCEPT ![d] = "retryable"]
  /\ UNCHANGED <<token, batch>>

\* Mutant: a row is marked before it is published.
MarkFirst == "mark"

FirstStep == "publish"

\* for (const row of claimed): the statement returns the rows in no set order.
NextRow(d) ==
  /\ pc[d] = "next"
  /\ \/ \E e \in batch[d] :
          /\ pc' = [pc EXCEPT ![d] = FirstStep]
          /\ cur' = [cur EXCEPT ![d] = e]
          /\ batch' = [batch EXCEPT ![d] = @ \ {e}]
          /\ UNCHANGED <<token, class>>
     \/ batch[d] = {} /\ Leave(d)
  /\ UNCHANGED <<rowVars, dlq, delivered, fresh, clock, crashes, slips>>

\* registry.validate and transport.publish.  A publish that throws may or may not
\* have reached the transport (a timeout after the send).
Publish(d) ==
  /\ pc[d] = "publish"
  /\ \E sent \in BOOLEAN, outcome \in {"ok"} \cup ErrorClass :
       /\ outcome = "ok" => sent
       /\ delivered' = [delivered EXCEPT ![cur[d]] = IF sent THEN @ \cup {token[d]} ELSE @]
       /\ pc' = [pc EXCEPT ![d] = IF outcome = "ok" THEN "mark" ELSE "failed"]
       /\ class' = [class EXCEPT ![d] = IF outcome = "ok" THEN @ ELSE outcome]
  /\ UNCHANGED <<rowVars, dlq, token, batch, cur, fresh, clock, crashes, slips>>

\* "where event_id=$1 and state='claimed' and lease_owner=$2 and lease_expires_at>now()"
HoldsLease(d) ==
  /\ state[cur[d]] = "claimed"
  /\ owner[cur[d]] = token[d]
  /\ expiry[cur[d]] = "live"

\* A write that ends the claim of the row in hand in state s and clears its lease.
EndClaim(d, s) ==
  /\ state' = [state EXCEPT ![cur[d]] = s]
  /\ owner' = [owner EXCEPT ![cur[d]] = NoOwner]
  /\ expiry' = [expiry EXCEPT ![cur[d]] = "none"]
  /\ UNCHANGED <<attempts, created>>

\* markPublished.  A lost lease throws integration_outbox_claim_conflict, which
\* classifyError makes "reconciliation_required".
MarkPublished(d) ==
  /\ pc[d] = "mark"
  /\ \/ HoldsLease(d) /\ EndClaim(d, "published") /\ UNCHANGED due /\ Proceed(d)
     \/ /\ ~HoldsLease(d)
        /\ pc' = [pc EXCEPT ![d] = "failed"]
        /\ class' = [class EXCEPT ![d] = "reconciliation_required"]
        /\ UNCHANGED <<rowVars, token, batch, cur>>
  /\ UNCHANGED <<dlq, delivered, fresh, clock, crashes, slips>>

\* The connection is lost in markPublished, before or after the update committed;
\* classifyError judges the driver's message.
MarkPublishedError(d) ==
  /\ pc[d] = "mark"
  /\ crashes > 0
  /\ crashes' = crashes - 1
  /\ pc' = [pc EXCEPT ![d] = "failed"]
  /\ class' \in {[class EXCEPT ![d] = "retryable"], [class EXCEPT ![d] = "terminal"]}
  /\ UNCHANGED rowVars \/ (HoldsLease(d) /\ EndClaim(d, "published") /\ UNCHANGED due)
  /\ UNCHANGED <<dlq, delivered, token, batch, cur, fresh, clock, slips>>

\* Mutant: the row is given a state of the inbox table.
InboxRetryState(e) ==
  IF attempts[e] >= MaxAttempts THEN "dead_lettered" ELSE "retryable_failed"

RetryState(e) ==
  IF attempts[e] >= MaxAttempts THEN "dead_lettered" ELSE "retry_scheduled"

\* if(row.state==='dead_lettered') insert into integration_dead_letters
Letter(e) == IF RetryState(e) = "dead_lettered" THEN 1 ELSE 0

\* scheduleRetry: retry_scheduled, or dead_lettered with its dead letter when the
\* attempts are used up, in one transaction.
ScheduleRetry(d) ==
  /\ pc[d] = "failed"
  /\ class[d] = "retryable"
  /\ HoldsLease(d)
  /\ EndClaim(d, RetryState(cur[d]))
  /\ due' = [due EXCEPT ![cur[d]] = FALSE]
  /\ dlq' = [dlq EXCEPT ![cur[d]] = @ + Letter(cur[d])]
  /\ Proceed(d)
  /\ UNCHANGED <<delivered, fresh, clock, crashes, slips>>

\* moveToDeadLetter: leaves lease_owner and lease_expires_at on the row.
MoveToDeadLetter(d) ==
  /\ pc[d] = "failed"
  /\ class[d] # "retryable"
  /\ HoldsLease(d)
  /\ state' = [state EXCEPT ![cur[d]] = "dead_lettered"]
  /\ dlq' = [dlq EXCEPT ![cur[d]] = @ + 1]
  /\ Proceed(d)
  /\ UNCHANGED <<attempts, owner, expiry, due, created, delivered, fresh, clock, crashes, slips>>

\* scheduleRetry or moveToDeadLetter finds the lease lost and throws out of the
\* catch block: dispatchOnce rejects and the rest of its batch stays claimed.
FailureConflict(d) ==
  /\ pc[d] = "failed"
  /\ ~HoldsLease(d)
  /\ Leave(d)
  /\ UNCHANGED <<rowVars, dlq, delivered, fresh, clock, crashes, slips>>

\* releaseExpiredClaims: next_attempt_at is left as it was.
ReleaseExpiredClaims ==
  LET stale == {e \in Event : state[e] = "claimed" /\ expiry[e] = "expired"}
  IN /\ stale # {}
     /\ state' = [e \in Event |-> IF e \in stale THEN "retry_scheduled" ELSE state[e]]
     /\ owner' = [e \in Event |-> IF e \in stale THEN NoOwner ELSE owner[e]]
     /\ expiry' = [e \in Event |-> IF e \in stale THEN "none" ELSE expiry[e]]
     /\ UNCHANGED <<attempts, due, created, dlq, delivered, dispVars, fresh, clock, crashes, slips>>

\* The dispatcher's process dies, or a repository call of its fails.
Crash(d) ==
  /\ pc[d] # "idle"
  /\ crashes > 0
  /\ crashes' = crashes - 1
  /\ Leave(d)
  /\ UNCHANGED <<rowVars, dlq, delivered, fresh, clock, slips>>

-----------------------------------------------------------------------------
\* Time: next_attempt_at passes.
RetryFallsDue(e) ==
  /\ state[e] = "retry_scheduled"
  /\ ~due[e]
  /\ due' = [due EXCEPT ![e] = TRUE]
  /\ UNCHANGED <<state, attempts, owner, expiry, created, dlq, delivered, dispVars,
                 fresh, clock, crashes, slips>>

InHand(d, e) == e \in batch[d] \cup {cur[d]}

\* Some dispatcher still works on e under the lease on its row.
Attended(e) == \E d \in Dispatcher : InHand(d, e) /\ token[d] = owner[e]

\* Time: lease_expires_at passes.  For a row its holder still works on this is a
\* holder slower than the lease, which happens at most MaxSlow times.
LeaseExpires(e) ==
  /\ state[e] = "claimed"
  /\ expiry[e] = "live"
  /\ \/ Attended(e) /\ slips > 0 /\ slips' = slips - 1
     \/ ~Attended(e) /\ UNCHANGED slips
  /\ expiry' = [expiry EXCEPT ![e] = "expired"]
  /\ UNCHANGED <<state, attempts, owner, due, created, dlq, delivered, dispVars,
                 fresh, clock, crashes>>

-----------------------------------------------------------------------------
Dispatch(d) ==
  \/ ClaimBatch(d)
  \/ NextRow(d)
  \/ Publish(d)
  \/ MarkPublished(d)
  \/ ScheduleRetry(d)
  \/ MoveToDeadLetter(d)
  \/ FailureConflict(d)

Next ==
  \/ \E e \in Event : AppendEvent(e) \/ RetryFallsDue(e) \/ LeaseExpires(e)
  \/ \E d \in Dispatcher : Dispatch(d) \/ MarkPublishedError(d) \/ Crash(d)
  \/ ReleaseExpiredClaims

Spec == Init /\ [][Next]_vars

\* A dispatcher is called again and again and runs each call to its end; time
\* passes.  Nothing obliges anyone to append, to crash, or to sweep.
Fairness ==
  /\ \A d \in Dispatcher : WF_vars(Dispatch(d))
  /\ \A e \in Event : WF_vars(RetryFallsDue(e)) /\ WF_vars(LeaseExpires(e))

FairSpec == Spec /\ Fairness

-----------------------------------------------------------------------------
\* Type invariant: every column holds a value the table's checks allow, and a
\* dispatcher that is publishing, marking or failing has a row in hand.
TypeOK ==
  /\ state \in [Event -> OutboxState]
  /\ attempts \in [Event -> Nat]
  /\ owner \in [Event -> Nat]
  /\ expiry \in [Event -> {"none", "live", "expired"}]
  /\ due \in [Event -> BOOLEAN]
  /\ created \in [Event -> Nat]
  /\ dlq \in [Event -> Nat]
  /\ delivered \in [Event -> SUBSET Nat]
  /\ pc \in [Dispatcher -> {"idle", "next", "publish", "mark", "failed"}]
  /\ token \in [Dispatcher -> Nat]
  /\ batch \in [Dispatcher -> SUBSET Event]
  /\ cur \in [Dispatcher -> Event \cup {NoEvent}]
  /\ \A d \in Dispatcher : pc[d] \in {"publish", "mark", "failed"} => cur[d] \in Event
  /\ class \in [Dispatcher -> ErrorClass]
  /\ fresh \in Nat /\ clock \in Nat /\ crashes \in Nat /\ slips \in Nat

\* A row is never published unless the transport took the event: a crash, a
\* lost lease or an error after the send may repeat a delivery, none drops one.
AtLeastOnce ==
  \A e \in Event : state[e] = "published" => delivered[e] # {}

\* integration_dead_letters is the ledger of the rows given up: one entry for
\* each dead-lettered row and none for any other, whichever of scheduleRetry and
\* moveToDeadLetter gave it up, and however many dispatchers tried to.
DeadLetterLedger ==
  \A e \in Event : dlq[e] = IF state[e] = "dead_lettered" THEN 1 ELSE 0

Holding(d, e) ==
  InHand(d, e) /\ state[e] = "claimed" /\ owner[e] = token[d] /\ expiry[e] = "live"

\* A row's live lease belongs to one dispatcher call: after a takeover the slow
\* dispatcher and the new one never both pass the lease test of the updates.
LeaseExclusive ==
  \A e \in Event, c, d \in Dispatcher : Holding(c, e) /\ Holding(d, e) => c = d

\* Every delivery is paid for with an attempt: the transport never takes a row
\* more often than attempt_count says, whatever expired or crashed on the way.
DeliveriesCharged ==
  \A e \in Event : Cardinality(delivered[e]) <= attempts[e]

\* What is published or dead-lettered stays as it is: no late mark, retry or
\* dead-lettering of a dispatcher that lost its lease, and no sweep, reopens it.
SettledForever ==
  [][\A e \in Event : state[e] \in Settled => state'[e] = state[e]]_vars

\* Every appended row ends up published or dead-lettered, through any number of
\* retryable failures and the crashes and lost leases of the bounds.
EventuallySettled ==
  \A e \in Event : state[e] # "absent" ~> state[e] \in Settled

\* The runbook's bound on delivery attempts: "bounded backoff and attempts"
\* (docs/operations/p3-010-integration-events-operations-runbook.md, line 13).
AttemptsBounded == \A e \in Event : attempts[e] <= MaxAttempts

Status(e) ==
  CASE state[e] \in Settled -> state[e]
    [] state[e] = "absent" -> "absent"
    [] OTHER -> "open"

\* The outbox as its producers see it.
Contract == INSTANCE IntegrationEventContract WITH
  status <- [e \in Event |-> Status(e)],
  reached <- {e \in Event : delivered[e] # {}},
  letters <- dlq

\* Every behaviour of the outbox is one that IntegrationEventContract allows:
\* append, repeated deliveries, then one settlement, with a dead letter if given up.
ImplementsContract == Contract!Spec
=============================================================================
