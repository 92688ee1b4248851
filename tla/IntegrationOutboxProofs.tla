------------------------ MODULE IntegrationOutboxProofs ------------------------
(***************************************************************************)
(* Proofs about IntegrationOutbox, for any rows, dispatchers and bounds.   *)
(* The invariants of the runs are not inductive: they rest on Ready (a row *)
(* is marked only after its delivery), Tokens (claim owners are fresh and  *)
(* not shared) and Charged (every token that has delivered an event, or    *)
(* still may, was paid for with an attempt).  Paid accounts for attempts   *)
(* beyond the limit.                                                       *)
(***************************************************************************)
EXTENDS IntegrationOutbox, FiniteSetTheorems, TLAPS

-----------------------------------------------------------------------------
LEMMA TypeInit == Init => TypeOK
BY OutboxAssumption
   DEF OutboxAssumption, Init, TypeOK, OutboxState, ErrorClass, NoOwner

LEMMA TypeNext == TypeOK /\ [Next]_vars => TypeOK'
<1> SUFFICES ASSUME TypeOK, [Next]_vars PROVE TypeOK'
  OBVIOUS
<1> USE OutboxAssumption DEF OutboxAssumption, TypeOK, OutboxState, ErrorClass, NoOwner,
        rowVars, dispVars
<1>1. ASSUME NEW e \in Event, AppendEvent(e) PROVE TypeOK'
  BY <1>1 DEF AppendEvent
<1>2. ASSUME NEW e \in Event, RetryFallsDue(e) PROVE TypeOK'
  BY <1>2 DEF RetryFallsDue
<1>3. ASSUME NEW e \in Event, LeaseExpires(e) PROVE TypeOK'
  BY <1>3 DEF LeaseExpires
<1>4. ASSUME NEW d \in Dispatcher, ClaimBatch(d) PROVE TypeOK'
  <2>1. Picked \in SUBSET Event
    BY DEF Picked
  <2> QED
    BY <1>4, <2>1 DEF ClaimBatch, Charge, NextOwner
<1>5. ASSUME NEW d \in Dispatcher, NextRow(d) PROVE TypeOK'
  <2>1. UNCHANGED <<rowVars, dlq, delivered, fresh, clock, crashes, slips>>
    BY <1>5 DEF NextRow
  <2>2. CASE Leave(d)
    BY <2>1, <2>2 DEF Leave
  <2>3. CASE \E e \in batch[d] : /\ pc' = [pc EXCEPT ![d] = "publish"]
                                 /\ cur' = [cur EXCEPT ![d] = e]
                                 /\ batch' = [batch EXCEPT ![d] = @ \ {e}]
                                 /\ UNCHANGED <<token, class>>
    BY <2>1, <2>3
  <2> QED
    BY <1>5, <2>2, <2>3 DEF NextRow, FirstStep
<1>6. ASSUME NEW d \in Dispatcher, Publish(d) PROVE TypeOK'
  BY <1>6 DEF Publish
<1>7. ASSUME NEW d \in Dispatcher, MarkPublished(d) PROVE TypeOK'
  <2>1. CASE HoldsLease(d)
    <3>1. /\ state' \in [Event -> OutboxState] /\ owner' \in [Event -> Nat]
          /\ expiry' \in [Event -> {"none", "live", "expired"}]
      BY <1>7, <2>1 DEF MarkPublished, EndClaim
    <3>2. UNCHANGED <<attempts, due, created, dlq, delivered, fresh, clock, crashes, slips>>
      BY <1>7, <2>1 DEF MarkPublished, EndClaim
    <3>3. UNCHANGED <<token, batch>> /\ cur' = [cur EXCEPT ![d] = NoEvent]
      BY <1>7, <2>1 DEF MarkPublished, Proceed
    <3>4. pc' = [pc EXCEPT ![d] = "next"] /\ class' = [class EXCEPT ![d] = "retryable"]
      BY <1>7, <2>1 DEF MarkPublished, Proceed
    <3> QED
      BY <3>1, <3>2, <3>3, <3>4
  <2>2. CASE ~HoldsLease(d)
    BY <1>7, <2>2 DEF MarkPublished
  <2> QED
    BY <2>1, <2>2
<1>8. ASSUME NEW d \in Dispatcher, MarkPublishedError(d) PROVE TypeOK'
  <2>1. /\ state' \in [Event -> OutboxState] /\ owner' \in [Event -> Nat]
        /\ expiry' \in [Event -> {"none", "live", "expired"}]
    BY <1>8 DEF MarkPublishedError, EndClaim
  <2>2. UNCHANGED <<attempts, due, created>>
    BY <1>8 DEF MarkPublishedError, EndClaim
  <2>3. /\ pc[d] = "mark" /\ pc' = [pc EXCEPT ![d] = "failed"]
        /\ class' \in [Dispatcher -> ErrorClass] /\ crashes' \in Nat
        /\ UNCHANGED <<dlq, delivered, token, batch, cur, fresh, clock, slips>>
    BY <1>8 DEF MarkPublishedError
  <2> QED
    BY <2>1, <2>2, <2>3
<1>9. ASSUME NEW d \in Dispatcher, ScheduleRetry(d) PROVE TypeOK'
  BY <1>9 DEF ScheduleRetry, EndClaim, RetryState, Letter, Proceed
<1>10. ASSUME NEW d \in Dispatcher, MoveToDeadLetter(d) PROVE TypeOK'
  BY <1>10 DEF MoveToDeadLetter, Proceed
<1>11. ASSUME NEW d \in Dispatcher, FailureConflict(d) PROVE TypeOK'
  BY <1>11 DEF FailureConflict, Leave
<1>12. ASSUME NEW d \in Dispatcher, Crash(d) PROVE TypeOK'
  BY <1>12 DEF Crash, Leave
<1>13. CASE ReleaseExpiredClaims
  BY <1>13 DEF ReleaseExpiredClaims
<1>14. CASE UNCHANGED vars
  BY <1>14 DEF vars
<1> QED
  BY <1>1, <1>2, <1>3, <1>4, <1>5, <1>6, <1>7, <1>8, <1>9, <1>10, <1>11, <1>12, <1>13, <1>14
     DEF Next, Dispatch

\* Every column and local keeps a value of its type.
THEOREM TypeCorrect == Spec => []TypeOK
BY TypeInit, TypeNext, PTL DEF Spec
-----------------------------------------------------------------------------
\* A step that takes e out of a settled state would have to be a write that the
\* lease test lets through, a claim or a sweep: none of them is.
LEMMA SettledStep ==
  ASSUME TypeOK, [Next]_vars, NEW e \in Event, state[e] \in Settled
  PROVE  state'[e] = state[e]
<1> USE DEF TypeOK, Settled, rowVars
<1>1. ASSUME NEW f \in Event, AppendEvent(f) PROVE state'[e] = state[e]
  BY <1>1 DEF AppendEvent
<1>2. ASSUME NEW d \in Dispatcher, ClaimBatch(d) PROVE state'[e] = state[e]
  BY <1>2 DEF ClaimBatch, Picked, Claimable
<1>3. ASSUME NEW d \in Dispatcher, MarkPublished(d) \/ MarkPublishedError(d)
      PROVE  state'[e] = state[e]
  BY <1>3 DEF MarkPublished, MarkPublishedError, HoldsLease, EndClaim
<1>4. ASSUME NEW d \in Dispatcher, ScheduleRetry(d) \/ MoveToDeadLetter(d)
      PROVE  state'[e] = state[e]
  BY <1>4 DEF ScheduleRetry, MoveToDeadLetter, HoldsLease, EndClaim
<1>5. CASE ReleaseExpiredClaims
  BY <1>5 DEF ReleaseExpiredClaims
<1>6. CASE UNCHANGED state
  BY <1>6
<1> QED
  BY <1>1, <1>2, <1>3, <1>4, <1>5, <1>6
     DEF Next, Dispatch, RetryFallsDue, LeaseExpires, NextRow, Publish, FailureConflict,
         Crash, vars

\* What is published or dead-lettered stays so.
THEOREM SettledIsForever == Spec => SettledForever
<1>1. TypeOK /\ [Next]_vars
        => [\A e \in Event : state[e] \in Settled => state'[e] = state[e]]_vars
  BY SettledStep
<1> QED
  BY <1>1, TypeCorrect, PTL DEF Spec, SettledForever

-----------------------------------------------------------------------------
LEMMA LedgerInit == Init => DeadLetterLedger
BY DEF Init, DeadLetterLedger

LEMMA LedgerNext == TypeOK /\ DeadLetterLedger /\ [Next]_vars => DeadLetterLedger'
<1> SUFFICES ASSUME TypeOK, DeadLetterLedger, [Next]_vars PROVE DeadLetterLedger'
  OBVIOUS
<1> USE DEF TypeOK, DeadLetterLedger, rowVars
<1>1. ASSUME NEW e \in Event, AppendEvent(e) PROVE DeadLetterLedger'
  BY <1>1 DEF AppendEvent
<1>2. ASSUME NEW d \in Dispatcher, ClaimBatch(d) PROVE DeadLetterLedger'
  BY <1>2 DEF ClaimBatch, Picked, Claimable
<1>3. ASSUME NEW d \in Dispatcher, MarkPublished(d) \/ MarkPublishedError(d)
      PROVE  DeadLetterLedger'
  BY <1>3 DEF MarkPublished, MarkPublishedError, HoldsLease, EndClaim
<1>4. ASSUME NEW d \in Dispatcher, ScheduleRetry(d) PROVE DeadLetterLedger'
  BY <1>4 DEF ScheduleRetry, HoldsLease, EndClaim, RetryState, Letter
<1>5. ASSUME NEW d \in Dispatcher, MoveToDeadLetter(d) PROVE DeadLetterLedger'
  BY <1>5 DEF MoveToDeadLetter, HoldsLease
<1>6. CASE ReleaseExpiredClaims
  BY <1>6 DEF ReleaseExpiredClaims
<1>7. CASE UNCHANGED <<state, dlq>>
  BY <1>7
<1> QED
  BY <1>1, <1>2, <1>3, <1>4, <1>5, <1>6, <1>7
     DEF Next, Dispatch, RetryFallsDue, LeaseExpires, NextRow, Publish, FailureConflict,
         Crash, vars

\* Exactly the dead-lettered rows have a dead letter, and each has one.
THEOREM LedgerIsExact == Spec => []DeadLetterLedger
BY LedgerInit, LedgerNext, TypeCorrect, PTL DEF Spec

-----------------------------------------------------------------------------
\* A row is marked only after its delivery, and only appended rows are handled.
Ready == \A d \in Dispatcher : pc[d] = "mark" => delivered[cur[d]] # {}

Appended ==
  /\ \A d \in Dispatcher : pc[d] \in {"publish", "mark", "failed"} => state[cur[d]] # "absent"
  /\ \A d \in Dispatcher : \A e \in batch[d] : state[e] # "absent"

LEMMA DeliveredInit == Init => Ready /\ AtLeastOnce
BY DEF Init, Ready, AtLeastOnce

LEMMA DeliveredNext ==
  TypeOK /\ Ready /\ AtLeastOnce /\ [Next]_vars => (Ready /\ AtLeastOnce)'
<1> SUFFICES ASSUME TypeOK, Ready, AtLeastOnce, [Next]_vars PROVE (Ready /\ AtLeastOnce)'
  OBVIOUS
<1> USE DEF TypeOK, Ready, AtLeastOnce, rowVars, dispVars
<1>1. ASSUME NEW e \in Event, AppendEvent(e) PROVE (Ready /\ AtLeastOnce)'
  BY <1>1 DEF AppendEvent
<1>2. ASSUME NEW d \in Dispatcher, ClaimBatch(d) PROVE (Ready /\ AtLeastOnce)'
  BY <1>2 DEF ClaimBatch
<1>3. ASSUME NEW d \in Dispatcher, NextRow(d) PROVE (Ready /\ AtLeastOnce)'
  BY <1>3 DEF NextRow, FirstStep, Leave
<1>4. ASSUME NEW d \in Dispatcher, Publish(d) PROVE (Ready /\ AtLeastOnce)'
  <2>1. cur[d] \in Event /\ UNCHANGED <<state, cur>>
    BY <1>4 DEF Publish
  <2>2. PICK sent \in BOOLEAN, outcome \in {"ok"} \cup ErrorClass :
          /\ outcome = "ok" => sent
          /\ delivered' = [delivered EXCEPT ![cur[d]] = IF sent THEN @ \cup {token[d]} ELSE @]
          /\ pc' = [pc EXCEPT ![d] = IF outcome = "ok" THEN "mark" ELSE "failed"]
    BY <1>4 DEF Publish
  <2>3. \A e \in Event : delivered[e] \subseteq delivered'[e]
    BY <2>2
  <2>4. pc'[d] = "mark" => delivered'[cur[d]] # {}
    BY <2>1, <2>2
  <2> QED
    BY <2>1, <2>2, <2>3, <2>4
<1>5. ASSUME NEW d \in Dispatcher, MarkPublished(d) PROVE (Ready /\ AtLeastOnce)'
  BY <1>5 DEF MarkPublished, EndClaim, Proceed
<1>6. ASSUME NEW d \in Dispatcher, MarkPublishedError(d) PROVE (Ready /\ AtLeastOnce)'
  BY <1>6 DEF MarkPublishedError, EndClaim
<1>7. ASSUME NEW d \in Dispatcher, ScheduleRetry(d) PROVE (Ready /\ AtLeastOnce)'
  BY <1>7 DEF ScheduleRetry, EndClaim, RetryState, Proceed
<1>8. ASSUME NEW d \in Dispatcher, MoveToDeadLetter(d) PROVE (Ready /\ AtLeastOnce)'
  BY <1>8 DEF MoveToDeadLetter, Proceed
<1>9. ASSUME NEW d \in Dispatcher, FailureConflict(d) \/ Crash(d)
      PROVE  (Ready /\ AtLeastOnce)'
  BY <1>9 DEF FailureConflict, Crash, Leave
<1>10. CASE ReleaseExpiredClaims
  BY <1>10 DEF ReleaseExpiredClaims
<1>11. CASE UNCHANGED <<state, delivered, pc, cur>>
  BY <1>11
<1> QED
  BY <1>1, <1>2, <1>3, <1>4, <1>5, <1>6, <1>7, <1>8, <1>9, <1>10, <1>11
     DEF Next, Dispatch, RetryFallsDue, LeaseExpires, vars

\* No row is published that the transport has not taken.
THEOREM DeliveredAtLeastOnce == Spec => []AtLeastOnce
BY DeliveredInit, DeliveredNext, TypeCorrect, PTL DEF Spec

-----------------------------------------------------------------------------
\* Claim owners are fresh, and no two calls at work share one.
Tokens ==
  /\ fresh # NoOwner
  /\ \A e \in Event : owner[e] < fresh
  /\ \A d \in Dispatcher : token[d] < fresh
  /\ \A d \in Dispatcher : pc[d] = "idle" => batch[d] = {} /\ cur[d] = NoEvent
  /\ \A c, d \in Dispatcher :
       pc[c] # "idle" /\ pc[d] # "idle" /\ token[c] = token[d] => c = d

LEMMA TokensInit == Init => Tokens
BY DEF Init, Tokens, NoOwner

LEMMA TokensNext == TypeOK /\ Tokens /\ [Next]_vars => Tokens'
<1> SUFFICES ASSUME TypeOK, Tokens, [Next]_vars PROVE Tokens'
  OBVIOUS
<1> USE DEF TypeOK, Tokens, NoOwner, rowVars, dispVars
<1>1. ASSUME NEW d \in Dispatcher, ClaimBatch(d) PROVE Tokens'
  BY <1>1 DEF ClaimBatch, NextOwner
<1>2. ASSUME NEW d \in Dispatcher, NextRow(d) PROVE Tokens'
  <2>1. UNCHANGED <<owner, fresh>> /\ pc[d] = "next"
    BY <1>2 DEF NextRow
  <2>2. CASE Leave(d)
    BY <2>1, <2>2 DEF Leave
  <2>3. ASSUME NEW e \in batch[d],
               pc' = [pc EXCEPT ![d] = "publish"], cur' = [cur EXCEPT ![d] = e],
               batch' = [batch EXCEPT ![d] = @ \ {e}], UNCHANGED token
        PROVE  Tokens'
    <3>1. \A c \in Dispatcher : (pc'[c] = "idle") <=> (pc[c] = "idle")
      BY <2>1, <2>3
    <3>2. \A c \in Dispatcher : c # d => batch'[c] = batch[c] /\ cur'[c] = cur[c]
      BY <2>3
    <3> QED
      BY <2>1, <2>3, <3>1, <3>2
  <2> QED
    BY <1>2, <2>2, <2>3 DEF NextRow, FirstStep
<1>3. ASSUME NEW d \in Dispatcher, Publish(d) PROVE Tokens'
  BY <1>3 DEF Publish
<1>4. ASSUME NEW d \in Dispatcher, MarkPublished(d) PROVE Tokens'
  <2>1. CASE HoldsLease(d)
    <3>1. pc[d] = "mark" /\ UNCHANGED <<token, batch, fresh>>
      BY <1>4, <2>1 DEF MarkPublished, Proceed
    <3>2. pc' = [pc EXCEPT ![d] = "next"] /\ cur' = [cur EXCEPT ![d] = NoEvent]
      BY <1>4, <2>1 DEF MarkPublished, Proceed
    <3>3. owner' = [owner EXCEPT ![cur[d]] = NoOwner]
      BY <1>4, <2>1 DEF MarkPublished, EndClaim
    <3>4. \A c \in Dispatcher : (pc'[c] = "idle") <=> (pc[c] = "idle")
      BY <3>1, <3>2
    <3>5. \A e \in Event : owner'[e] < fresh
      BY <3>3
    <3> QED
      BY <3>1, <3>2, <3>4, <3>5
  <2>2. CASE ~HoldsLease(d)
    BY <1>4, <2>2 DEF MarkPublished
  <2> QED
    BY <2>1, <2>2
<1>5. ASSUME NEW d \in Dispatcher, MarkPublishedError(d) PROVE Tokens'
  BY <1>5 DEF MarkPublishedError, EndClaim
<1>6. ASSUME NEW d \in Dispatcher, ScheduleRetry(d) PROVE Tokens'
  BY <1>6 DEF ScheduleRetry, EndClaim, Proceed
<1>7. ASSUME NEW d \in Dispatcher, MoveToDeadLetter(d) PROVE Tokens'
  BY <1>7 DEF MoveToDeadLetter, Proceed
<1>8. ASSUME NEW d \in Dispatcher, FailureConflict(d) \/ Crash(d) PROVE Tokens'
  <2>1. Leave(d) /\ UNCHANGED <<owner, fresh>>
    BY <1>8 DEF FailureConflict, Crash
  <2> QED
    BY <2>1 DEF Leave
<1>9. CASE ReleaseExpiredClaims
  BY <1>9 DEF ReleaseExpiredClaims
<1>10. CASE UNCHANGED <<owner, dispVars, fresh>>
  BY <1>10
<1> QED
  BY <1>1, <1>2, <1>3, <1>4, <1>5, <1>6, <1>7, <1>8, <1>9, <1>10
     DEF Next, Dispatch, AppendEvent, RetryFallsDue, LeaseExpires, vars

\* A live lease is passed by the updates of one dispatcher call only.
THEOREM LeaseIsExclusive == Spec => []LeaseExclusive
<1>1. TypeOK /\ Tokens => LeaseExclusive
  <2> SUFFICES ASSUME TypeOK, Tokens, NEW e \in Event, NEW c \in Dispatcher,
                      NEW d \in Dispatcher, Holding(c, e), Holding(d, e)
               PROVE  c = d
    BY DEF LeaseExclusive
  <2>1. pc[c] # "idle" /\ pc[d] # "idle"
    BY OutboxAssumption DEF OutboxAssumption, Tokens, Holding, InHand
  <2> QED
    BY <2>1 DEF Tokens, Holding
<1> QED
  BY <1>1, TokensInit, TokensNext, TypeCorrect, PTL DEF Spec

-----------------------------------------------------------------------------
\* The claims of e that have delivered it or still may.
Granted(e) == delivered[e] \cup {t \in Nat : \E d \in Dispatcher : InHand(d, e) /\ token[d] = t}

Charged ==
  \A e \in Event : IsFiniteSet(Granted(e)) /\ Cardinality(Granted(e)) <= attempts[e]

LEMMA ChargedInit == Init => Charged
<1> SUFFICES ASSUME Init, NEW e \in Event
             PROVE  IsFiniteSet(Granted(e)) /\ Cardinality(Granted(e)) <= attempts[e]
  BY DEF Charged
<1>1. Granted(e) = {}
  BY OutboxAssumption DEF OutboxAssumption, Init, Granted, InHand
<1> QED
  BY <1>1, FS_EmptySet DEF Init

\* A step that hands e to nobody new and delivers it under a token that was
\* already at work leaves the bound alone.
LEMMA ChargedShrink ==
  ASSUME Charged, TypeOK, TypeOK', NEW e \in Event,
         Granted(e)' \subseteq Granted(e), attempts'[e] = attempts[e]
  PROVE  IsFiniteSet(Granted(e)') /\ Cardinality(Granted(e)') <= attempts'[e]
<1>1. IsFiniteSet(Granted(e)) /\ Cardinality(Granted(e)) <= attempts[e]
  BY DEF Charged
<1>2. IsFiniteSet(Granted(e)') /\ Cardinality(Granted(e)') <= Cardinality(Granted(e))
  BY <1>1, FS_Subset
<1>3. Cardinality(Granted(e)') \in Nat /\ Cardinality(Granted(e)) \in Nat
  BY <1>1, <1>2, FS_CardinalityType
<1> QED
  BY <1>1, <1>2, <1>3 DEF TypeOK

LEMMA ChargedClaim ==
  ASSUME Charged, Tokens, TypeOK, TypeOK', NEW d \in Dispatcher, ClaimBatch(d)
  PROVE  Charged'
<1> SUFFICES ASSUME NEW e \in Event
             PROVE  IsFiniteSet(Granted(e)') /\ Cardinality(Granted(e)') <= attempts'[e]
  BY DEF Charged
<1>1. CASE e \in Picked
  <2>1. Granted(e)' \subseteq Granted(e) \cup {fresh}
    BY DEF ClaimBatch, Granted, InHand, TypeOK
  <2>2. IsFiniteSet(Granted(e)) /\ Cardinality(Granted(e)) <= attempts[e]
    BY DEF Charged
  <2>3. /\ IsFiniteSet(Granted(e) \cup {fresh})
        /\ Cardinality(Granted(e) \cup {fresh}) <= Cardinality(Granted(e)) + 1
    <3>1. Cardinality(Granted(e)) \in Nat
      BY <2>2, FS_CardinalityType
    <3>2. /\ IsFiniteSet(Granted(e) \cup {fresh})
          /\ Cardinality(Granted(e) \cup {fresh})
               \in {Cardinality(Granted(e)), Cardinality(Granted(e)) + 1}
      BY <2>2, FS_AddElement
    <3> QED
      BY <3>1, <3>2
  <2>4. /\ IsFiniteSet(Granted(e)')
        /\ Cardinality(Granted(e)') <= Cardinality(Granted(e) \cup {fresh})
    BY <2>1, <2>3, FS_Subset
  <2>5. /\ Cardinality(Granted(e)') \in Nat
        /\ Cardinality(Granted(e) \cup {fresh}) \in Nat
        /\ Cardinality(Granted(e)) \in Nat
    BY <2>2, <2>3, <2>4, FS_CardinalityType
  <2>6. attempts'[e] = attempts[e] + 1
    BY <1>1 DEF ClaimBatch, Charge
  <2> QED
    BY <2>2, <2>3, <2>4, <2>5, <2>6 DEF TypeOK
<1>2. CASE e \notin Picked
  <2>1. Granted(e)' \subseteq Granted(e)
    <3>1. cur[d] = NoEvent
      BY DEF ClaimBatch, Tokens
    <3> QED
      BY <1>2, <3>1, OutboxAssumption DEF OutboxAssumption, ClaimBatch, Granted, InHand, TypeOK
  <2>2. attempts'[e] = attempts[e]
    BY <1>2 DEF ClaimBatch
  <2> QED
    BY <2>1, <2>2, ChargedShrink
<1> QED
  BY <1>1, <1>2

LEMMA ChargedNext == TypeOK /\ Tokens /\ Charged /\ [Next]_vars => Charged'
<1> SUFFICES ASSUME TypeOK, Tokens, Charged, [Next]_vars, TypeOK' PROVE Charged'
  BY TypeNext
<1>1. ASSUME NEW d \in Dispatcher, ClaimBatch(d) PROVE Charged'
  BY <1>1, ChargedClaim
<1>2. ASSUME \A d \in Dispatcher : ~ClaimBatch(d), NEW e \in Event
      PROVE  Granted(e)' \subseteq Granted(e) /\ attempts'[e] = attempts[e]
  <2> USE DEF rowVars, dispVars
  <2>1. ASSUME NEW d \in Dispatcher, Publish(d)
        PROVE  Granted(e)' \subseteq Granted(e) /\ UNCHANGED attempts
    BY <2>1 DEF Publish, Granted, InHand, TypeOK
  <2>2. ASSUME NEW d \in Dispatcher, NextRow(d)
        PROVE  Granted(e)' \subseteq Granted(e) /\ UNCHANGED attempts
    <3>1. ASSUME NEW t \in Nat, NEW c \in Dispatcher, InHand(c, e)', token'[c] = t
          PROVE  InHand(c, e) /\ token[c] = t
      BY <2>2, <3>1, OutboxAssumption DEF OutboxAssumption, NextRow, InHand, Leave, TypeOK
    <3>2. UNCHANGED <<delivered, attempts>>
      BY <2>2 DEF NextRow
    <3> QED
      BY <3>1, <3>2 DEF Granted
  <2>3. ASSUME NEW d \in Dispatcher, Leave(d), UNCHANGED <<delivered, attempts>>
        PROVE  Granted(e)' \subseteq Granted(e) /\ UNCHANGED attempts
    BY <2>3, OutboxAssumption DEF OutboxAssumption, Leave, Granted, InHand, TypeOK
  <2>4. ASSUME NEW d \in Dispatcher, Proceed(d), UNCHANGED <<delivered, attempts>>
        PROVE  Granted(e)' \subseteq Granted(e) /\ UNCHANGED attempts
    BY <2>4, OutboxAssumption DEF OutboxAssumption, Proceed, Granted, InHand, TypeOK
  <2>5. CASE UNCHANGED <<attempts, delivered, token, batch, cur>>
    BY <2>5 DEF Granted, InHand
  <2> QED
    BY <1>2, <2>1, <2>2, <2>3, <2>4, <2>5
       DEF Next, Dispatch, AppendEvent, RetryFallsDue, LeaseExpires, MarkPublished,
           MarkPublishedError, ScheduleRetry, MoveToDeadLetter, EndClaim, FailureConflict,
           Crash, ReleaseExpiredClaims, vars
<1> QED
  BY <1>1, <1>2, ChargedShrink DEF Charged

\* The transport takes no row more often than the row's attempts were charged.
THEOREM EveryDeliveryIsCharged == Spec => []DeliveriesCharged
<1>1. TypeOK /\ Charged => DeliveriesCharged
  <2> SUFFICES ASSUME TypeOK, Charged, NEW e \in Event
               PROVE  Cardinality(delivered[e]) <= attempts[e]
    BY DEF DeliveriesCharged
  <2>1. IsFiniteSet(Granted(e)) /\ Cardinality(Granted(e)) <= attempts[e]
    BY DEF Charged
  <2>2. IsFiniteSet(delivered[e]) /\ Cardinality(delivered[e]) <= Cardinality(Granted(e))
    BY <2>1, FS_Subset DEF Granted
  <2>3. Cardinality(delivered[e]) \in Nat /\ Cardinality(Granted(e)) \in Nat
    BY <2>1, <2>2, FS_CardinalityType
  <2> QED
    BY <2>1, <2>2, <2>3 DEF TypeOK
<1> QED
  BY <1>1, ChargedInit, ChargedNext, TokensInit, TokensNext, TypeCorrect, PTL DEF Spec

-----------------------------------------------------------------------------
LEMMA AppendedInit == Init => Appended
BY DEF Init, Appended

LEMMA AppendedNext == TypeOK /\ Appended /\ [Next]_vars => Appended'
<1> SUFFICES ASSUME TypeOK, Appended, [Next]_vars PROVE Appended'
  OBVIOUS
<1> USE DEF TypeOK, Appended, rowVars, dispVars
<1>1. \A e \in Event : state[e] # "absent" => state'[e] # "absent"
  <2>1. ASSUME NEW d \in Dispatcher, NEW s \in OutboxState \ {"absent"}, EndClaim(d, s)
        PROVE  \A e \in Event : state[e] # "absent" => state'[e] # "absent"
    BY <2>1 DEF EndClaim
  <2>2. ASSUME NEW d \in Dispatcher, \/ MarkPublished(d) \/ MarkPublishedError(d)
                                     \/ ScheduleRetry(d)
        PROVE  UNCHANGED state \/ \E s \in OutboxState \ {"absent"} : EndClaim(d, s)
    BY <2>2 DEF MarkPublished, MarkPublishedError, ScheduleRetry, RetryState, OutboxState
  <2>3. ASSUME NEW d \in Dispatcher, ClaimBatch(d) \/ MoveToDeadLetter(d)
        PROVE  \A e \in Event : state[e] # "absent" => state'[e] # "absent"
    BY <2>3 DEF ClaimBatch, MoveToDeadLetter
  <2>4. ASSUME NEW f \in Event, AppendEvent(f)
        PROVE  \A e \in Event : state[e] # "absent" => state'[e] # "absent"
    BY <2>4 DEF AppendEvent
  <2>5. CASE ReleaseExpiredClaims
    BY <2>5 DEF ReleaseExpiredClaims
  <2>6. CASE UNCHANGED state
    BY <2>6
  <2> QED
    BY <2>1, <2>2, <2>3, <2>4, <2>5, <2>6
       DEF Next, Dispatch, RetryFallsDue, LeaseExpires, NextRow, Publish, FailureConflict,
           Crash, vars
<1>2. ASSUME NEW d \in Dispatcher, ClaimBatch(d) PROVE Appended'
  BY <1>1, <1>2 DEF ClaimBatch, Picked, Claimable
<1>3. ASSUME NEW d \in Dispatcher, NextRow(d) PROVE Appended'
  BY <1>1, <1>3 DEF NextRow, FirstStep, Leave
<1>4. ASSUME NEW d \in Dispatcher, Publish(d) PROVE Appended'
  BY <1>1, <1>4 DEF Publish
<1>5. ASSUME NEW d \in Dispatcher, Leave(d) \/ Proceed(d) PROVE Appended'
  BY <1>1, <1>5 DEF Leave, Proceed
<1>6. ASSUME NEW d \in Dispatcher, pc[d] = "mark", pc' = [pc EXCEPT ![d] = "failed"],
             UNCHANGED <<batch, cur>>
      PROVE  Appended'
  BY <1>1, <1>6
<1>7. CASE UNCHANGED <<pc, batch, cur>>
  BY <1>1, <1>7
<1> QED
  BY <1>2, <1>3, <1>4, <1>5, <1>6, <1>7
     DEF Next, Dispatch, AppendEvent, RetryFallsDue, LeaseExpires, MarkPublished,
         MarkPublishedError, ScheduleRetry, MoveToDeadLetter, FailureConflict,
         ReleaseExpiredClaims, Crash, vars

LEMMA ContractInit == Init => Contract!Init
BY DEF Init, Contract!Init, Status, Settled

\* Every step of the outbox is a step of the contract or leaves its state alone.
LEMMA ContractNext ==
  TypeOK /\ Ready /\ Appended /\ [Next]_vars => [Contract!Next]_(Contract!cvars)
<1> SUFFICES ASSUME TypeOK, Ready, Appended, [Next]_vars PROVE [Contract!Next]_(Contract!cvars)
  OBVIOUS
<1> USE DEF TypeOK, OutboxState, Status, Settled, rowVars, dispVars
<1>1. ASSUME NEW e \in Event, AppendEvent(e) PROVE Contract!Append(e)
  BY <1>1 DEF AppendEvent, Contract!Append
<1>2. ASSUME NEW d \in Dispatcher, NEW e \in Event, e = cur[d], Publish(d)
      PROVE  Contract!Deliver(e) \/ UNCHANGED Contract!cvars
  <2>1. state[e] # "absent" /\ UNCHANGED <<state, dlq>>
    BY <1>2 DEF Publish, Appended
  <2>2. delivered' \in {delivered, [delivered EXCEPT ![e] = @ \cup {token[d]}]}
    <3>1. PICK sent \in BOOLEAN :
            delivered' = [delivered EXCEPT ![e] = IF sent THEN @ \cup {token[d]} ELSE @]
      BY <1>2, Zenon DEF Publish
    <3>2. CASE sent
      BY <3>1, <3>2
    <3>3. CASE ~sent
      BY <3>1, <3>3
    <3> QED
      BY <3>2, <3>3
  <2>3. CASE delivered' = delivered
    BY <2>1, <2>3 DEF Contract!cvars
  <2>4. CASE delivered' = [delivered EXCEPT ![e] = @ \cup {token[d]}]
    <3>1. {f \in Event : delivered'[f] # {}} = {f \in Event : delivered[f] # {}} \cup {e}
      BY <2>1, <2>4
    <3> QED
      BY <2>1, <3>1 DEF Contract!Deliver
  <2> QED
    BY <2>2, <2>3, <2>4
<1>3. ASSUME NEW d \in Dispatcher, NEW e \in Event, e = cur[d], pc[d] = "mark", HoldsLease(d),
             EndClaim(d, "published"), UNCHANGED <<dlq, delivered>>
      PROVE  Contract!Publish(e)
  BY <1>3 DEF Ready, HoldsLease, EndClaim, Contract!Publish
<1>4. ASSUME NEW d \in Dispatcher, NEW e \in Event, e = cur[d], ScheduleRetry(d)
      PROVE  Contract!GiveUp(e) \/ UNCHANGED Contract!cvars
  <2>1. /\ state[e] = "claimed"
        /\ state' = [state EXCEPT ![e] = RetryState(e)]
        /\ dlq' = [dlq EXCEPT ![e] = @ + Letter(e)]
        /\ UNCHANGED delivered
    BY <1>4 DEF ScheduleRetry, HoldsLease, EndClaim
  <2>2. CASE RetryState(e) = "dead_lettered"
    BY <2>1, <2>2 DEF Letter, Contract!GiveUp
  <2>3. CASE RetryState(e) # "dead_lettered"
    <3>1. RetryState(e) = "retry_scheduled" /\ dlq' = dlq
      BY <2>1, <2>3 DEF RetryState, Letter
    <3> QED
      BY <2>1, <3>1 DEF Contract!cvars
  <2> QED
    BY <2>2, <2>3
<1>5. ASSUME NEW d \in Dispatcher, NEW e \in Event, e = cur[d], MoveToDeadLetter(d)
      PROVE  Contract!GiveUp(e)
  BY <1>5 DEF MoveToDeadLetter, HoldsLease, Contract!GiveUp
<1>6. ASSUME NEW d \in Dispatcher, ClaimBatch(d) PROVE UNCHANGED Contract!cvars
  BY <1>6 DEF ClaimBatch, Picked, Claimable, Contract!cvars
<1>7. CASE ReleaseExpiredClaims
  BY <1>7 DEF ReleaseExpiredClaims, Contract!cvars
<1>8. CASE UNCHANGED <<state, dlq, delivered>>
  BY <1>8 DEF Contract!cvars
<1>9. ASSUME NEW d \in Dispatcher, NEW e \in Event, e = cur[d],
            MarkPublished(d) \/ MarkPublishedError(d)
      PROVE  Contract!Publish(e) \/ UNCHANGED <<state, dlq, delivered>>
  BY <1>3, <1>9 DEF MarkPublished, MarkPublishedError
<1>10. ASSUME NEW e \in Event, \/ Contract!Append(e) \/ Contract!Deliver(e)
                                \/ Contract!Publish(e) \/ Contract!GiveUp(e)
       PROVE  Contract!Next
  BY <1>10 DEF Contract!Next
<1>11. ASSUME NEW d \in Dispatcher, Dispatch(d) \/ MarkPublishedError(d) \/ Crash(d)
       PROVE  Contract!Next \/ UNCHANGED Contract!cvars
  <2>1. CASE pc[d] \in {"publish", "mark", "failed"}
    <3>1. PICK e \in Event : e = cur[d]
      BY <2>1
    <3>2. CASE Publish(d)
      BY <1>2, <1>10, <3>1, <3>2
    <3>3. CASE ScheduleRetry(d)
      BY <1>4, <1>10, <3>1, <3>3
    <3>4. CASE MoveToDeadLetter(d)
      BY <1>5, <1>10, <3>1, <3>4
    <3>5. CASE MarkPublished(d) \/ MarkPublishedError(d)
      BY <1>8, <1>9, <1>10, <3>1, <3>5
    <3>6. CASE FailureConflict(d) \/ Crash(d)
      BY <1>8, <3>6 DEF FailureConflict, Crash
    <3>7. ~ClaimBatch(d) /\ ~NextRow(d)
      BY <2>1 DEF ClaimBatch, NextRow
    <3> QED
      BY <1>11, <3>2, <3>3, <3>4, <3>5, <3>6, <3>7 DEF Dispatch
  <2>2. CASE pc[d] \notin {"publish", "mark", "failed"}
    BY <1>6, <1>8, <1>11, <2>2
       DEF Dispatch, NextRow, Publish, MarkPublished, MarkPublishedError, ScheduleRetry,
           MoveToDeadLetter, FailureConflict, Crash
  <2> QED
    BY <2>1, <2>2
<1> QED
  BY <1>1, <1>7, <1>8, <1>10, <1>11 DEF Next, RetryFallsDue, LeaseExpires, vars

\* The outbox implements its contract.
THEOREM OutboxImplementsContract == Spec => ImplementsContract
BY ContractInit, ContractNext, AppendedInit, AppendedNext, DeliveredInit, DeliveredNext, TypeCorrect, PTL
   DEF Spec, ImplementsContract, Contract!Spec
-----------------------------------------------------------------------------
\* The row in hand has left the batch, and between two rows none is in hand.
Hands ==
  \A d \in Dispatcher : cur[d] \notin batch[d] /\ (pc[d] \in {"idle", "next"} => cur[d] = NoEvent)

LEMMA HandsInit == Init => Hands
BY DEF Init, Hands

LEMMA HandsNext == TypeOK /\ Hands /\ [Next]_vars => Hands'
<1> SUFFICES ASSUME TypeOK, Hands, [Next]_vars PROVE Hands'
  OBVIOUS
<1> USE OutboxAssumption DEF OutboxAssumption, TypeOK, Hands, dispVars
<1>1. ASSUME NEW d \in Dispatcher, ClaimBatch(d) PROVE Hands'
  <2>1. NoEvent \notin Picked
    BY DEF Picked
  <2> QED
    BY <1>1, <2>1 DEF ClaimBatch
<1>2. ASSUME NEW d \in Dispatcher, NextRow(d) PROVE Hands'
  BY <1>2 DEF NextRow, FirstStep, Leave
<1>3. ASSUME NEW d \in Dispatcher, Publish(d) PROVE Hands'
  BY <1>3 DEF Publish
<1>4. ASSUME NEW d \in Dispatcher, Proceed(d) PROVE Hands'
  BY <1>4 DEF Proceed
<1>5. ASSUME NEW d \in Dispatcher, Leave(d) PROVE Hands'
  BY <1>5 DEF Leave
<1>6. ASSUME NEW d \in Dispatcher, MarkPublished(d) \/ MarkPublishedError(d), ~Proceed(d)
      PROVE  Hands'
  BY <1>6 DEF MarkPublished, MarkPublishedError
<1>7. CASE UNCHANGED <<pc, batch, cur>>
  BY <1>7
<1> QED
  BY <1>1, <1>2, <1>3, <1>4, <1>5, <1>6, <1>7
     DEF Next, Dispatch, AppendEvent, RetryFallsDue, LeaseExpires, ScheduleRetry,
         MoveToDeadLetter, FailureConflict, Crash, ReleaseExpiredClaims, vars

\* The attempts a row may have been charged so far: its max_attempts, one more for
\* each crash or lost connection, one more for each lease outlived at work.
Room == MaxAttempts + (MaxCrash - crashes) + (MaxSlow - slips)

\* Some dispatcher has e under a live lease, and every other row in its hands too:
\* it drops e only if it crashes.
Kept(e) ==
  \E d \in Dispatcher : Holding(d, e) /\ \A f \in Event : InHand(d, f) => Holding(d, f)

\* An open row that is not kept has room for the claim it may come to.
Paid ==
  /\ crashes <= MaxCrash /\ slips <= MaxSlow
  /\ \A e \in Event : attempts[e] <= Room
  /\ \A e \in Event : state[e] \notin Settled /\ ~Kept(e) => attempts[e] < Room

LEMMA PaidInit == Init => Paid
BY OutboxAssumption DEF OutboxAssumption, Init, Paid, Room

\* No claim, no crash, no slip: it is enough that what was kept is kept, settled,
\* or has room.
LEMMA PaidCarry ==
  ASSUME TypeOK, Paid, [Next]_vars, UNCHANGED <<attempts, crashes, slips>>,
         \A e \in Event : Kept(e) => Kept(e)' \/ state'[e] \in Settled \/ attempts[e] < Room
  PROVE  Paid'
<1>1. Room' = Room
  BY DEF Room
<1>2. \A e \in Event : state'[e] \notin Settled => state[e] \notin Settled
  BY SettledStep
<1> QED
  BY <1>1, <1>2 DEF Paid

\* A crash, a lost connection or a slip makes room for every row.
LEMMA PaidSpend ==
  ASSUME TypeOK, Paid, UNCHANGED attempts,
         \/ crashes > 0 /\ crashes' = crashes - 1 /\ UNCHANGED slips
         \/ slips > 0 /\ slips' = slips - 1 /\ UNCHANGED crashes
  PROVE  Paid'
<1>1. Room' = Room + 1 /\ crashes' <= MaxCrash /\ slips' <= MaxSlow
  BY OutboxAssumption DEF OutboxAssumption, Room, Paid, TypeOK
<1>2. Room \in Int /\ attempts \in [Event -> Nat]
  BY OutboxAssumption DEF OutboxAssumption, Room, TypeOK
<1>3. \A e \in Event : attempts[e] <= Room
  BY DEF Paid
<1>4. \A e \in Event : attempts'[e] < Room' /\ attempts'[e] <= Room'
  BY <1>1, <1>2, <1>3
<1> QED
  BY <1>1, <1>4 DEF Paid

\* A write that ends the claim of a row in hand leaves the other rows kept.
LEMMA KeptBeside ==
  ASSUME TypeOK, Tokens, Hands, NEW d \in Dispatcher, cur[d] \in Event, HoldsLease(d), Proceed(d),
         \A f \in Event \ {cur[d]} : /\ state'[f] = state[f] /\ owner'[f] = owner[f]
                                     /\ expiry'[f] = expiry[f],
         NEW e \in Event \ {cur[d]}, Kept(e)
  PROVE  Kept(e)'
<1> USE OutboxAssumption DEF OutboxAssumption, TypeOK
<1>1. PICK c \in Dispatcher : Holding(c, e) /\ \A f \in Event : InHand(c, f) => Holding(c, f)
  BY DEF Kept
<1>2. /\ token' = token /\ batch' = batch /\ cur'[d] = NoEvent
      /\ \A b \in Dispatcher \ {d} : cur'[b] = cur[b]
  BY DEF Proceed
<1>3. Holding(d, cur[d])
  BY DEF HoldsLease, Holding, InHand
<1>4. \A f \in Event : InHand(c, f)' => InHand(c, f) /\ f # cur[d]
  <2>1. CASE c = d
    BY <2>1, <1>2 DEF InHand, Hands
  <2>2. CASE c # d
    <3>1. ~InHand(c, cur[d])
      <4>1. SUFFICES ASSUME InHand(c, cur[d]) PROVE FALSE
        OBVIOUS
      <4>2. token[c] = token[d] /\ pc[c] # "idle" /\ pc[d] # "idle"
        BY <1>1, <1>3, <4>1 DEF Holding, InHand, Tokens
      <4> QED
        BY <2>2, <4>2 DEF Tokens
    <3>2. \A f \in Event : InHand(c, f)' = InHand(c, f)
      BY <1>2, <2>2 DEF InHand
    <3> QED
      BY <3>1, <3>2
  <2> QED
    BY <2>1, <2>2
<1>5. \A f \in Event \ {cur[d]} : InHand(c, f)' /\ Holding(c, f) => Holding(c, f)'
  BY <1>2 DEF Holding
<1>6. InHand(c, e)'
  BY <1>1, <1>2 DEF Holding, InHand
<1> QED
  BY <1>1, <1>4, <1>5, <1>6 DEF Kept

\* The claim itself: the rows picked are all live in the hands of one call, and the
\* other rows stay kept, since nobody who keeps a row has one that can be picked.
LEMMA PaidClaim ==
  ASSUME TypeOK, Tokens, Hands, Paid, NEW d \in Dispatcher, ClaimBatch(d)
  PROVE  Paid'
<1> USE OutboxAssumption DEF OutboxAssumption, TypeOK
<1>1. Room' = Room /\ UNCHANGED <<crashes, slips>> /\ Room \in Int
  BY DEF Room, ClaimBatch
<1>2. Picked \subseteq Event /\ \A e \in Picked : state[e] \notin Settled /\ ~Kept(e)
  BY DEF Picked, Claimable, Settled, Kept, Holding
<1>3. \A e \in Picked : attempts'[e] = attempts[e] + 1 /\ attempts[e] < Room
  BY <1>2 DEF ClaimBatch, Charge, Paid
<1>4. /\ batch'[d] = Picked /\ cur'[d] = NoEvent /\ token'[d] = fresh
      /\ \A c \in Dispatcher \ {d} :
           batch'[c] = batch[c] /\ cur'[c] = cur[c] /\ token'[c] = token[c]
  BY DEF ClaimBatch, Hands
<1>5. \A e \in Picked : Kept(e)'
  <2>1. \A f \in Event : InHand(d, f)' => f \in Picked
    BY <1>4 DEF InHand
  <2>2. \A f \in Picked : Holding(d, f)'
    BY <1>2, <1>4 DEF Holding, InHand, ClaimBatch
  <2> QED
    BY <1>2, <2>1, <2>2 DEF Kept
<1>6. \A e \in Event \ Picked : Kept(e) => Kept(e)'
  <2> SUFFICES ASSUME NEW e \in Event \ Picked, Kept(e) PROVE Kept(e)'
    OBVIOUS
  <2>1. PICK c \in Dispatcher : Holding(c, e) /\ \A f \in Event : InHand(c, f) => Holding(c, f)
    BY DEF Kept
  <2>2. c # d
    BY <2>1 DEF ClaimBatch, Holding, InHand, Tokens
  <2>3. \A f \in Event : InHand(c, f)' = InHand(c, f)
    BY <1>4, <2>2 DEF InHand
  <2>4. \A f \in Event : InHand(c, f) => f \notin Picked
    BY <2>1 DEF Picked, Claimable, Holding
  <2>5. \A f \in Event \ Picked : InHand(c, f) /\ Holding(c, f) => Holding(c, f)'
    BY <1>4, <2>2, <2>3 DEF Holding, ClaimBatch
  <2> QED
    BY <2>1, <2>3, <2>4, <2>5 DEF Kept, Holding
<1>7. \A e \in Event \ Picked : attempts'[e] = attempts[e] /\ state'[e] = state[e]
  BY DEF ClaimBatch
<1>8. \A e \in Event : attempts'[e] <= Room'
  <2>1. \A e \in Event : attempts[e] <= Room
    BY DEF Paid
  <2> QED
    BY <1>1, <1>3, <1>7, <2>1
<1>9. \A e \in Event : state'[e] \notin Settled /\ ~Kept(e)' => attempts'[e] < Room'
  BY <1>1, <1>5, <1>6, <1>7 DEF Paid
<1> QED
  BY <1>1, <1>8, <1>9 DEF Paid

LEMMA PaidNext == TypeOK /\ Tokens /\ Hands /\ Paid /\ [Next]_vars => Paid'
<1> SUFFICES ASSUME TypeOK, Tokens, Hands, Paid, [Next]_vars PROVE Paid'
  OBVIOUS
<1> USE OutboxAssumption DEF OutboxAssumption, TypeOK, rowVars, dispVars
<1>1. ASSUME NEW e \in Event, AppendEvent(e) PROVE Paid'
  <2>1. \A f \in Event, c \in Dispatcher : Holding(c, f) => Holding(c, f)'
    BY <1>1 DEF AppendEvent, Holding, InHand
  <2>2. \A f \in Event, c \in Dispatcher : InHand(c, f)' = InHand(c, f)
    BY <1>1 DEF AppendEvent, InHand
  <2>3. \A f \in Event : Kept(f) => Kept(f)'
    BY <2>1, <2>2 DEF Kept
  <2> QED
    BY <1>1, <2>3, PaidCarry DEF AppendEvent
<1>2. ASSUME NEW e \in Event, LeaseExpires(e) PROVE Paid'
  <2>1. CASE slips > 0 /\ slips' = slips - 1
    BY <1>2, <2>1, PaidSpend DEF LeaseExpires
  <2>2. CASE ~Attended(e) /\ UNCHANGED slips
    <3>1. \A f \in Event, c \in Dispatcher : InHand(c, f)' = InHand(c, f)
      BY <1>2 DEF LeaseExpires, InHand
    <3>2. \A c \in Dispatcher : ~Holding(c, e)
      BY <2>2 DEF Attended, Holding
    <3>3. \A f \in Event, c \in Dispatcher : Holding(c, f) => Holding(c, f)'
      BY <1>2, <3>1, <3>2 DEF LeaseExpires, Holding
    <3>4. \A f \in Event : Kept(f) => Kept(f)'
      BY <3>1, <3>3 DEF Kept
    <3> QED
      BY <1>2, <2>2, <3>4, PaidCarry DEF LeaseExpires
  <2> QED
    BY <1>2, <2>1, <2>2 DEF LeaseExpires
<1>3. CASE ReleaseExpiredClaims
  <2>1. \A f \in Event, c \in Dispatcher : InHand(c, f)' = InHand(c, f)
    BY <1>3 DEF ReleaseExpiredClaims, InHand
  <2>2. \A f \in Event, c \in Dispatcher : Holding(c, f) => Holding(c, f)'
    BY <1>3, <2>1 DEF ReleaseExpiredClaims, Holding
  <2>3. \A f \in Event : Kept(f) => Kept(f)'
    BY <2>1, <2>2 DEF Kept
  <2> QED
    BY <1>3, <2>3, PaidCarry DEF ReleaseExpiredClaims
<1>4. ASSUME NEW d \in Dispatcher, NextRow(d) PROVE Paid'
  <2>1. UNCHANGED <<state, owner, expiry>> /\ pc[d] = "next" /\ cur[d] = NoEvent
    BY <1>4 DEF NextRow, Hands
  <2>2. \A f \in Event, c \in Dispatcher : InHand(c, f)' = InHand(c, f)
    BY <1>4, <2>1 DEF NextRow, Leave, InHand
  <2>3. \A f \in Event, c \in Dispatcher : InHand(c, f) => token'[c] = token[c]
    BY <1>4, <2>1 DEF NextRow, Leave, InHand
  <2>4. \A f \in Event, c \in Dispatcher : Holding(c, f) => Holding(c, f)'
    BY <2>1, <2>2, <2>3 DEF Holding
  <2>5. \A f \in Event : Kept(f) => Kept(f)'
    BY <2>2, <2>4 DEF Kept
  <2> QED
    BY <1>4, <2>5, PaidCarry DEF NextRow
<1>5. ASSUME NEW d \in Dispatcher, HoldsLease(d), Proceed(d), cur[d] \in Event,
             MarkPublished(d) \/ ScheduleRetry(d) \/ MoveToDeadLetter(d)
      PROVE  Paid'
  <2>1. \A f \in Event \ {cur[d]} :
          state'[f] = state[f] /\ owner'[f] = owner[f] /\ expiry'[f] = expiry[f]
    BY <1>5 DEF MarkPublished, ScheduleRetry, MoveToDeadLetter, EndClaim
  <2>2. state'[cur[d]] \in Settled \/ attempts[cur[d]] < Room
    <3>1. CASE MarkPublished(d) \/ MoveToDeadLetter(d)
      BY <1>5, <3>1 DEF MarkPublished, MoveToDeadLetter, EndClaim, Settled
    <3>2. CASE ScheduleRetry(d)
      <4>1. attempts[cur[d]] < MaxAttempts \/ state'[cur[d]] = "dead_lettered"
        BY <1>5, <3>2 DEF ScheduleRetry, EndClaim, RetryState
      <4>2. MaxAttempts <= Room
        BY DEF Room, Paid
      <4>3. Room \in Int
        BY DEF Room
      <4> QED
        BY <1>5, <4>1, <4>2, <4>3 DEF Settled
    <3> QED
      BY <1>5, <3>1, <3>2
  <2>3. \A e \in Event : Kept(e) => Kept(e)' \/ state'[e] \in Settled \/ attempts[e] < Room
    BY <1>5, <2>1, <2>2, KeptBeside
  <2> QED
    BY <1>5, <2>3, PaidCarry DEF MarkPublished, ScheduleRetry, MoveToDeadLetter, EndClaim
<1>6. ASSUME NEW d \in Dispatcher, FailureConflict(d) PROVE Paid'
  <2>1. UNCHANGED <<state, owner, expiry>> /\ cur[d] \in Event /\ ~Holding(d, cur[d])
    BY <1>6 DEF FailureConflict, HoldsLease, Holding
  <2>2. \A f \in Event, c \in Dispatcher \ {d} :
          InHand(c, f)' = InHand(c, f) /\ Holding(c, f)' = Holding(c, f)
    BY <1>6, <2>1 DEF FailureConflict, Leave, InHand, Holding
  <2>3. \A f \in Event : Kept(f) => Kept(f)'
    BY <2>1, <2>2 DEF Kept, InHand
  <2> QED
    BY <1>6, <2>3, PaidCarry DEF FailureConflict
<1>7. ASSUME NEW d \in Dispatcher, Crash(d) \/ MarkPublishedError(d) PROVE Paid'
  BY <1>7, PaidSpend DEF Crash, MarkPublishedError, EndClaim
<1>8. CASE UNCHANGED <<state, attempts, owner, expiry, token, batch, cur, crashes, slips>>
  <2>1. \A f \in Event : Kept(f)' = Kept(f)
    BY <1>8 DEF Kept, Holding, InHand
  <2> QED
    BY <1>8, <2>1, PaidCarry
<1>9. ASSUME NEW d \in Dispatcher, ClaimBatch(d) PROVE Paid'
  BY <1>9, PaidClaim
<1>10. ASSUME NEW d \in Dispatcher, MarkPublished(d) \/ ScheduleRetry(d) \/ MoveToDeadLetter(d)
       PROVE  Paid'
  BY <1>5, <1>8, <1>10 DEF MarkPublished, ScheduleRetry, MoveToDeadLetter
<1> QED
  BY <1>1, <1>2, <1>3, <1>4, <1>6, <1>7, <1>8, <1>9, <1>10
     DEF Next, Dispatch, RetryFallsDue, Publish, vars

\* What is true of the bound on attempts that claimBatch does not keep: each
\* attempt beyond max_attempts answers a crash, a lost connection or a lease that
\* ran out under its holder.
THEOREM AttemptsArePaid ==
  Spec => [](\A e \in Event :
               attempts[e] <= MaxAttempts + (MaxCrash - crashes) + (MaxSlow - slips))
<1>1. Paid => \A e \in Event :
                attempts[e] <= MaxAttempts + (MaxCrash - crashes) + (MaxSlow - slips)
  BY DEF Paid, Room
<1> QED
  BY <1>1, PaidInit, PaidNext, HandsInit, HandsNext, TokensInit, TokensNext, TypeCorrect, PTL
     DEF Spec
=============================================================================
