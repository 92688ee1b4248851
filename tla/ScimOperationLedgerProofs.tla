------------------------ MODULE ScimOperationLedgerProofs ------------------------
(***************************************************************************)
(* Proofs about ScimOperationLedger.  Rows links the three ledgers: what   *)
(* was delivered was appended, and what was appended has an operation.     *)
(* Chosen carries the test of transitionOperation over to its write.       *)
(* Tokens (claims are numbered afresh, and who works without a number      *)
(* works on a dead-lettered receipt) gives exclusion.  Charged bounds the  *)
(* effects there are together with those that may still come.  InHand says *)
(* who is to settle a receipt.  AsksSuccess says what a delivery asks of   *)
(* an operation.                                                           *)
(***************************************************************************)
EXTENDS ScimOperationLedger, FiniteSets, FiniteSetTheorems, TLAPS

\* A delivered event was appended, an appended one has its operation, and so has
\* a requester past createOperation.
Rows ==
  /\ \A k \in reached : status[k] # "absent"
  /\ \A k \in Key : status[k] # "absent" => opState[k] # "none"
  /\ \A q \in Requester : rpc[q] \in {"append", "queue"} => opState[rkey[q]] # "none"

LEMMA TypeInit == Init => TypeOK /\ Rows
BY LedgerAssumption
   DEF LedgerAssumption, Init, TypeOK, Rows, OperationState, Terminal, Final, NoOwner, Outbox!Init

\* MoverDone leaves the locals of c empty.
LEMMA TypeDone ==
  ASSUME TypeOK, NEW c \in Mover, MoverDone(c), UNCHANGED opVars
  PROVE  /\ pc' \in [Mover -> {"idle", "call", "mark", "get", "select", "update", "catch"}]
         /\ ckey' \in [Mover -> Key \cup {NoKey}]
         /\ \A d \in Mover : pc'[d] # "idle" => ckey'[d] \in Key /\ opState'[ckey'[d]] # "none"
         /\ token' \in [Mover -> Nat]
         /\ expected' \in [Mover -> Nat]
         /\ to' \in [Mover -> OperationState]
BY DEF TypeOK, MoverDone, MoverAt, NoOwner, OperationState, Terminal, opVars

LEMMA TypeNext == TypeOK /\ Rows /\ [Next]_vars => TypeOK' /\ Rows'
<1> SUFFICES ASSUME TypeOK, Rows, [Next]_vars PROVE TypeOK' /\ Rows'
  OBVIOUS
<1> USE LedgerAssumption DEF LedgerAssumption, TypeOK, Rows, NoOwner, opVars, outVars, inVars,
        reqVars, locVars, bounds, RequesterAt, RequesterDone, MoverAt
<1>1. ASSUME NEW q \in Requester, NEW k \in Key, Request(q, k) PROVE TypeOK' /\ Rows'
  BY <1>1 DEF Request, FirstCall
<1>2. ASSUME NEW q \in Requester, CreateOperation(q) PROVE TypeOK' /\ Rows'
  BY <1>2 DEF CreateOperation, OperationState
<1>3. ASSUME NEW q \in Requester, AppendEvent(q) PROVE TypeOK' /\ Rows'
  BY <1>3 DEF AppendEvent, Outbox!Append
<1>4. ASSUME NEW q \in Requester, MarkOperationQueued(q) PROVE TypeOK' /\ Rows'
  BY <1>4 DEF MarkOperationQueued, OperationState, Queueable
<1>5. ASSUME NEW q \in Requester, RequesterCrash(q) PROVE TypeOK' /\ Rows'
  BY <1>5 DEF RequesterCrash
<1>6. ASSUME NEW k \in Key, OutboxStep(k) PROVE TypeOK' /\ Rows'
  BY <1>6 DEF OutboxStep, Outbox!Deliver, Outbox!Publish, Outbox!GiveUp
<1>7. ASSUME NEW c \in Consumer, NEW k \in Key, ClaimInbox(c, k) PROVE TypeOK' /\ Rows'
  BY <1>7 DEF ClaimInbox, Charge, NextToken, Mover, Final
<1>8. ASSUME NEW c \in Consumer, NEW k \in Key, ClaimDeadLettered(c, k) PROVE TypeOK' /\ Rows'
  BY <1>8 DEF ClaimDeadLettered, Mover
<1>9. ASSUME NEW c \in Consumer, CallAdapter(c) PROVE TypeOK' /\ Rows'
  BY <1>9 DEF CallAdapter, Mover
<1>10. ASSUME NEW c \in Consumer, MarkInboxProcessed(c) PROVE TypeOK' /\ Rows'
  BY <1>10 DEF MarkInboxProcessed, SettleReceipt, Mover, Final
<1>11. ASSUME NEW c \in Consumer, GetOperation(c) PROVE TypeOK' /\ Rows'
  BY <1>11 DEF GetOperation, Mover
<1>12. ASSUME NEW c \in Consumer, MoveInboxToDeadLetter(c) PROVE TypeOK' /\ Rows'
  <2>1. c \in Mover
    BY DEF Mover
  <2>2. /\ receipt' \in [Key -> {"none", "processing"} \cup Final] /\ attempts' \in [Key -> Nat]
        /\ owner' \in [Key -> Nat] /\ expiry' \in [Key -> {"none", "live", "expired"}]
        /\ inboxDlq' \in [Key -> Nat]
    BY <1>12 DEF MoveInboxToDeadLetter, SettleReceipt, Final
  <2> QED
    BY <1>12, <2>1, <2>2, TypeDone DEF MoveInboxToDeadLetter
<1>13. ASSUME NEW c \in Mover, SelectForTransition(c) PROVE TypeOK' /\ Rows'
  <2>1. CASE MoverDone(c)
    BY <1>13, <2>1, TypeDone DEF SelectForTransition
  <2>2. CASE UNCHANGED <<ckey, token, expected, to>> /\ pc' \in {[pc EXCEPT ![c] = "update"],
                                                                [pc EXCEPT ![c] = "catch"]}
    BY <1>13, <2>2 DEF SelectForTransition
  <2> QED
    BY <1>13, <2>1, <2>2 DEF SelectForTransition, Refused
<1>14. ASSUME NEW c \in Mover, UpdateOperation(c) PROVE TypeOK' /\ Rows'
  <2>1. CASE SameVersion(c)
    <3>1. ckey[c] \in Key /\ opState' = [opState EXCEPT ![ckey[c]] = to[c]] /\ to[c] # "none"
      BY <1>14, <2>1 DEF UpdateOperation, WriteOperation, OperationState, Terminal
    <3>2. /\ opState' \in [Key -> OperationState \cup {"none"}] /\ version' \in [Key -> Nat]
          /\ \A k \in Key : opState[k] # "none" => opState'[k] # "none"
      BY <1>14, <2>1, <3>1 DEF UpdateOperation, WriteOperation
    <3>3. /\ pc' = [pc EXCEPT ![c] = "idle"] /\ ckey' = [ckey EXCEPT ![c] = NoKey]
          /\ token' = [token EXCEPT ![c] = 0] /\ expected' = [expected EXCEPT ![c] = 0]
          /\ to' = [to EXCEPT ![c] = "succeeded"] /\ "succeeded" \in OperationState
      BY <1>14, <2>1 DEF UpdateOperation, MoverDone, OperationState, Terminal
    <3>4. UNCHANGED <<outVars, inVars, applied, reqVars, fresh, bounds>>
      BY <1>14 DEF UpdateOperation
    <3>5. \A d \in Mover : pc'[d] # "idle" => ckey'[d] \in Key /\ opState'[ckey'[d]] # "none"
      BY <3>2, <3>3
    <3>6. /\ pc' \in [Mover -> {"idle", "call", "mark", "get", "select", "update", "catch"}]
          /\ ckey' \in [Mover -> Key \cup {NoKey}] /\ token' \in [Mover -> Nat]
          /\ expected' \in [Mover -> Nat] /\ to' \in [Mover -> OperationState]
      BY <3>3
    <3> QED
      BY <3>2, <3>4, <3>5, <3>6
  <2>2. CASE ~SameVersion(c) /\ MoverDone(c)
    BY <1>14, <2>2, TypeDone DEF UpdateOperation
  <2>3. CASE ~SameVersion(c) /\ ~MoverDone(c)
    BY <1>14, <2>3 DEF UpdateOperation, Refused
  <2> QED
    BY <2>1, <2>2, <2>3
<1>15. ASSUME NEW o \in Operator, NEW k \in Key, NEW s \in OperationState, OperatorCall(o, k, s)
       PROVE  TypeOK' /\ Rows'
  BY <1>15 DEF OperatorCall, Mover
<1>16. ASSUME NEW c \in Consumer, ConsumerCrash(c) PROVE TypeOK' /\ Rows'
  <2>1. c \in Mover
    BY DEF Mover
  <2> QED
    BY <1>16, <2>1, TypeDone DEF ConsumerCrash
<1>17. ASSUME NEW c \in Consumer, ConnectionLost(c) PROVE TypeOK' /\ Rows'
  <2>1. /\ c \in Mover /\ ckey[c] \in Key /\ pc' = [pc EXCEPT ![c] = "catch"]
        /\ UNCHANGED <<outVars, applied, reqVars, ckey, token, expected, to, fresh, slips, replays, moves>>
        /\ crashes' \in Nat
    BY <1>17 DEF ConnectionLost, Mover
  <2>2. pc' \in [Mover -> {"idle", "call", "mark", "get", "select", "update", "catch"}]
    BY <2>1
  <2>3. \A d \in Mover : pc'[d] # "idle" => pc[d] # "idle"
    BY <1>17, <2>1 DEF ConnectionLost
  <2>4. /\ receipt' \in [Key -> {"none", "processing"} \cup Final] /\ attempts' \in [Key -> Nat]
        /\ owner' \in [Key -> Nat] /\ expiry' \in [Key -> {"none", "live", "expired"}]
        /\ inboxDlq' \in [Key -> Nat]
    BY <1>17, <2>1 DEF ConnectionLost, SettleReceipt, Final
  <2>5. /\ opState' \in [Key -> OperationState \cup {"none"}] /\ version' \in [Key -> Nat]
        /\ \A k \in Key : opState[k] # "none" => opState'[k] # "none"
    BY <1>17, <2>1 DEF ConnectionLost, WriteOperation, OperationState, Terminal
  <2> QED
    BY <2>1, <2>2, <2>3, <2>4, <2>5
<1>18. ASSUME NEW k \in Key, LeaseExpires(k) PROVE TypeOK' /\ Rows'
  BY <1>18 DEF LeaseExpires
<1>19. CASE UNCHANGED vars
  BY <1>19 DEF vars
<1> QED
  BY <1>1, <1>2, <1>3, <1>4, <1>5, <1>6, <1>7, <1>8, <1>9, <1>10, <1>11, <1>12, <1>13, <1>14,
     <1>15, <1>16, <1>17, <1>18, <1>19 DEF Next, Enqueue, Apply, Operate, Mover

\* Rows of the three ledgers and the locals of every process keep their types.
THEOREM TypeCorrect == Spec => []TypeOK
<1>1. Spec => [](TypeOK /\ Rows)
  BY TypeInit, TypeNext, PTL DEF Spec
<1> QED
  BY <1>1, PTL

-----------------------------------------------------------------------------
\* A missing row has no version.  A version that a mover is to test is not ahead of
\* the row's; and if it is still the row's when the write comes, the move it was
\* tested for is still legal.
Chosen ==
  /\ \A k \in Key : opState[k] = "none" => version[k] = 0
  /\ \A c \in Mover : pc[c] \in {"select", "update"} => expected[c] <= version[ckey[c]]
  /\ \A c \in Mover : pc[c] = "update" /\ version[ckey[c]] = expected[c]
                        => to[c] \in Transitions[opState[ckey[c]]]

LEMMA TransitionsFacts ==
  /\ \A s \in OperationState : s \notin Transitions[s] /\ "none" \notin Transitions[s]
  /\ "queued" \in Transitions["accepted"]
BY DEF Transitions, OperationState, Terminal

\* What a step may do to the row of an operation.
OpMove(k) ==
  \/ opState'[k] = opState[k] /\ version'[k] = version[k]
  \/ /\ version'[k] = version[k] + 1
     /\ opState'[k] # opState[k]
     /\ opState[k] # "none" => opState'[k] \in Transitions[opState[k]]

LEMMA WriteIsLegal ==
  ASSUME TypeOK, Chosen, NEW c \in Mover, pc[c] = "update", SameVersion(c), WriteOperation(c)
  PROVE  \A k \in Key : OpMove(k)
<1>1. /\ ckey[c] \in Key /\ opState[ckey[c]] \in OperationState
      /\ to[c] \in Transitions[opState[ckey[c]]]
  BY DEF TypeOK, Chosen, SameVersion
<1>2. to[c] # opState[ckey[c]]
  BY <1>1, TransitionsFacts
<1> QED
  BY <1>1, <1>2 DEF TypeOK, WriteOperation, OpMove

LEMMA OpStep ==
  ASSUME TypeOK, Chosen, [Next]_vars
  PROVE  \A k \in Key : OpMove(k)
<1> USE DEF opVars
<1>1. ASSUME NEW q \in Requester, CreateOperation(q) PROVE \A k \in Key : OpMove(k)
  <2>1. CASE UNCHANGED opVars
    BY <2>1 DEF OpMove
  <2>2. CASE /\ opState[rkey[q]] = "none"
             /\ opState' = [opState EXCEPT ![rkey[q]] = "accepted"]
             /\ version' = [version EXCEPT ![rkey[q]] = 1]
    BY <2>2 DEF OpMove, TypeOK, Chosen
  <2> QED
    BY <1>1, <2>1, <2>2 DEF CreateOperation
<1>2. ASSUME NEW q \in Requester, MarkOperationQueued(q) PROVE \A k \in Key : OpMove(k)
  BY <1>2, TransitionsFacts DEF MarkOperationQueued, Queueable, OpMove, TypeOK
<1>3. ASSUME NEW c \in Mover, UpdateOperation(c) PROVE \A k \in Key : OpMove(k)
  <2>1. CASE SameVersion(c)
    BY <1>3, <2>1, WriteIsLegal DEF UpdateOperation
  <2>2. CASE ~SameVersion(c)
    BY <1>3, <2>2 DEF UpdateOperation, OpMove
  <2> QED
    BY <2>1, <2>2
<1>4. ASSUME NEW c \in Consumer, ConnectionLost(c) PROVE \A k \in Key : OpMove(k)
  <2>1. CASE UNCHANGED opVars
    BY <2>1 DEF OpMove
  <2>2. CASE pc[c] = "update" /\ SameVersion(c) /\ WriteOperation(c)
    BY <2>2, WriteIsLegal DEF Mover
  <2> QED
    BY <1>4, <2>1, <2>2 DEF ConnectionLost
<1>5. CASE UNCHANGED opVars
  BY <1>5 DEF OpMove
<1> QED
  BY <1>1, <1>2, <1>3, <1>4, <1>5
     DEF Next, Enqueue, Apply, Operate, Mover, vars, Request, AppendEvent, RequesterCrash, OutboxStep,
         ClaimInbox, ClaimDeadLettered, CallAdapter, MarkInboxProcessed, GetOperation,
         MoveInboxToDeadLetter, SelectForTransition, OperatorCall, ConsumerCrash, LeaseExpires

\* How a step leaves a mover: out of transitionOperation, untouched, before its
\* select, or past a select that found the move legal.
MoverMove(c) ==
  \/ pc'[c] \notin {"select", "update"}
  \/ /\ pc'[c] = pc[c] /\ ckey'[c] = ckey[c]
     /\ expected'[c] = expected[c] /\ to'[c] = to[c]
  \/ /\ pc'[c] = "select" /\ expected'[c] = version[ckey'[c]] /\ UNCHANGED opVars
  \/ /\ pc[c] = "select" /\ ckey'[c] = ckey[c] /\ expected'[c] = expected[c] /\ to'[c] = to[c]
     /\ version[ckey[c]] = expected[c] /\ to[c] \in Transitions[opState[ckey[c]]]
     /\ UNCHANGED opVars

LEMMA MoverStep ==
  ASSUME TypeOK, [Next]_vars
  PROVE  \A d \in Mover : MoverMove(d)
<1> USE DEF MoverAt, MoverMove, TypeOK
<1>1. ASSUME NEW c \in Mover, MoverDone(c) PROVE \A d \in Mover : MoverMove(d)
  BY <1>1 DEF MoverDone
<1>2. ASSUME NEW c \in Consumer, NEW k \in Key, ClaimInbox(c, k) \/ ClaimDeadLettered(c, k)
      PROVE  \A d \in Mover : MoverMove(d)
  BY <1>2 DEF ClaimInbox, ClaimDeadLettered, Mover
<1>3. ASSUME NEW c \in Consumer, CallAdapter(c) \/ MarkInboxProcessed(c)
      PROVE  \A d \in Mover : MoverMove(d)
  BY <1>3 DEF CallAdapter, MarkInboxProcessed, Mover
<1>4. ASSUME NEW c \in Consumer, GetOperation(c) PROVE \A d \in Mover : MoverMove(d)
  BY <1>4 DEF GetOperation, Mover
<1>5. ASSUME NEW o \in Operator, NEW k \in Key, NEW s \in OperationState, OperatorCall(o, k, s)
      PROVE  \A d \in Mover : MoverMove(d)
  BY <1>5 DEF OperatorCall, Mover
<1>6. ASSUME NEW c \in Mover, pc' = [pc EXCEPT ![c] = "catch"], UNCHANGED <<ckey, expected, to>>
      PROVE  \A d \in Mover : MoverMove(d)
  BY <1>6
<1>7. ASSUME NEW c \in Mover, SelectForTransition(c) PROVE \A d \in Mover : MoverMove(d)
  BY <1>1, <1>6, <1>7 DEF SelectForTransition, Refused
<1>8. ASSUME NEW c \in Mover, UpdateOperation(c) PROVE \A d \in Mover : MoverMove(d)
  BY <1>1, <1>6, <1>8 DEF UpdateOperation, Refused
<1>9. ASSUME NEW c \in Consumer, MoveInboxToDeadLetter(c) \/ ConsumerCrash(c)
      PROVE  \A d \in Mover : MoverMove(d)
  BY <1>1, <1>9 DEF MoveInboxToDeadLetter, ConsumerCrash, Mover
<1>10. ASSUME NEW c \in Consumer, ConnectionLost(c) PROVE \A d \in Mover : MoverMove(d)
  BY <1>6, <1>10 DEF ConnectionLost, Mover
<1>11. CASE UNCHANGED locVars
  BY <1>11 DEF locVars
<1> QED
  BY <1>2, <1>3, <1>4, <1>5, <1>7, <1>8, <1>9, <1>10, <1>11
     DEF Next, Enqueue, Apply, Operate, Mover, vars, Request, CreateOperation, AppendEvent,
         MarkOperationQueued, RequesterCrash, OutboxStep, LeaseExpires

LEMMA ChosenNext == TypeOK /\ TypeOK' /\ Chosen /\ [Next]_vars => Chosen'
<1> SUFFICES ASSUME TypeOK, TypeOK', Chosen, [Next]_vars PROVE Chosen'
  OBVIOUS
<1>1. ASSUME NEW k \in Key, opState'[k] = "none" PROVE version'[k] = 0
  <2>1. OpMove(k)
    BY OpStep
  <2>2. opState[k] \in OperationState \cup {"none"} /\ "none" \notin OperationState
    BY DEF TypeOK, OperationState, Terminal
  <2>3. opState'[k] = opState[k]
    BY <1>1, <2>1, <2>2, TransitionsFacts DEF OpMove
  <2> QED
    BY <1>1, <2>1, <2>3 DEF OpMove, Chosen
<1>2. ASSUME NEW c \in Mover, pc'[c] \in {"select", "update"}
      PROVE  /\ expected'[c] <= version'[ckey'[c]]
             /\ pc'[c] = "update" /\ version'[ckey'[c]] = expected'[c]
                  => to'[c] \in Transitions[opState'[ckey'[c]]]
  <2>1. ckey'[c] \in Key /\ version[ckey'[c]] \in Nat /\ expected[c] \in Nat /\ expected'[c] \in Nat
    BY <1>2 DEF TypeOK
  <2>2. OpMove(ckey'[c]) /\ MoverMove(c)
    BY <2>1, OpStep, MoverStep
  <2> QED
    BY <1>2, <2>1, <2>2 DEF OpMove, MoverMove, Chosen, opVars
<1> QED
  BY <1>1, <1>2 DEF Chosen

\* Operations move along TRANSITIONS only, one version at a time, although the
\* test and the write of transitionOperation are two statements.
THEOREM MovesAreLegal == Spec => LegalMoves
<1>1. Init => Chosen
  BY DEF Init, Chosen
<1>2. Spec => [](TypeOK /\ Rows /\ Chosen)
  BY <1>1, TypeInit, TypeNext, ChosenNext, PTL DEF Spec
<1>3. TypeOK /\ Chosen /\ [Next]_vars =>
        [\A k \in Key :
           /\ opState[k] # "none" /\ opState'[k] # opState[k]
                => opState'[k] \in Transitions[opState[k]] /\ version'[k] = version[k] + 1
           /\ version'[k] # version[k] => opState'[k] # opState[k]]_vars
  BY OpStep DEF OpMove
<1> QED
  BY <1>2, <1>3, PTL DEF Spec, LegalMoves

-----------------------------------------------------------------------------
\* The receipt leaves no final state: who writes it has found it free or owned.
LEMMA ReceiptStep ==
  ASSUME TypeOK, [Next]_vars, NEW k \in Key, receipt[k] \in Final
  PROVE  receipt'[k] = receipt[k]
<1> USE DEF TypeOK, Final
<1>1. ASSUME NEW c \in Consumer, NEW j \in Key, ClaimInbox(c, j) PROVE receipt'[k] = receipt[k]
  BY <1>1 DEF ClaimInbox, Free
<1>2. ASSUME NEW c \in Consumer, NEW s \in Final, Owns(c), SettleReceipt(c, s)
      PROVE  receipt'[k] = receipt[k]
  BY <1>2 DEF Owns, SettleReceipt
<1>3. ASSUME NEW c \in Consumer, MarkInboxProcessed(c) PROVE receipt'[k] = receipt[k]
  BY <1>2, <1>3 DEF MarkInboxProcessed, Markable, inVars
<1>4. ASSUME NEW c \in Consumer, MoveInboxToDeadLetter(c) PROVE receipt'[k] = receipt[k]
  BY <1>2, <1>4 DEF MoveInboxToDeadLetter, DeadLetterable, inVars
<1>5. ASSUME NEW c \in Consumer, ConnectionLost(c) PROVE receipt'[k] = receipt[k]
  BY <1>2, <1>5 DEF ConnectionLost, Markable, inVars
<1>6. CASE UNCHANGED receipt
  BY <1>6
<1> QED
  BY <1>1, <1>3, <1>4, <1>5, <1>6
     DEF Next, Enqueue, Apply, Operate, vars, inVars, Request, CreateOperation, AppendEvent,
         MarkOperationQueued, RequesterCrash, OutboxStep, ClaimDeadLettered, CallAdapter, GetOperation,
         SelectForTransition, UpdateOperation, OperatorCall, ConsumerCrash, LeaseExpires

\* No late mark, late catch block or repeated delivery moves a settled receipt.
THEOREM SettledReceiptStays == Spec => ReceiptFinal
<1>1. TypeOK /\ [Next]_vars =>
        [\A k \in Key : receipt[k] \in Final => receipt'[k] = receipt[k]]_vars
  BY ReceiptStep
<1> QED
  BY <1>1, TypeCorrect, PTL DEF Spec, ReceiptFinal

LEMMA LedgerNext == TypeOK /\ InboxLedger /\ [Next]_vars => InboxLedger'
<1> SUFFICES ASSUME TypeOK, InboxLedger, [Next]_vars PROVE InboxLedger'
  OBVIOUS
<1> USE DEF TypeOK, Final, InboxLedger
<1>1. ASSUME NEW c \in Consumer, NEW k \in Key, ClaimInbox(c, k) PROVE InboxLedger'
  BY <1>1 DEF ClaimInbox, Free
<1>2. ASSUME NEW c \in Consumer, Owns(c), SettleReceipt(c, "processed"), UNCHANGED inboxDlq
      PROVE  InboxLedger'
  BY <1>2 DEF Owns, SettleReceipt
<1>3. ASSUME NEW c \in Consumer, MarkInboxProcessed(c) PROVE InboxLedger'
  BY <1>2, <1>3 DEF MarkInboxProcessed, Markable, inVars
<1>4. ASSUME NEW c \in Consumer, MoveInboxToDeadLetter(c) PROVE InboxLedger'
  <2>1. CASE UNCHANGED inVars
    BY <2>1 DEF inVars
  <2>2. CASE DeadLetterable(c) /\ SettleReceipt(c, "dead_lettered")
             /\ inboxDlq' = [inboxDlq EXCEPT ![ckey[c]] = @ + 1]
    <3>1. /\ ckey[c] \in Key => inboxDlq[ckey[c]] = 0
      BY <2>2 DEF DeadLetterable, Owns
    <3> QED
      BY <2>2, <3>1 DEF SettleReceipt
  <2> QED
    BY <1>4, <2>1, <2>2 DEF MoveInboxToDeadLetter
<1>5. ASSUME NEW c \in Consumer, ConnectionLost(c) PROVE InboxLedger'
  BY <1>2, <1>5 DEF ConnectionLost, Markable, inVars
<1>6. ASSUME NEW k \in Key, LeaseExpires(k) PROVE InboxLedger'
  BY <1>6 DEF LeaseExpires
<1>7. CASE UNCHANGED inVars
  BY <1>7 DEF inVars
<1> QED
  BY <1>1, <1>3, <1>4, <1>5, <1>6, <1>7
     DEF Next, Enqueue, Apply, Operate, vars, Request, CreateOperation, AppendEvent,
         MarkOperationQueued, RequesterCrash, OutboxStep, ClaimDeadLettered, CallAdapter, GetOperation,
         SelectForTransition, UpdateOperation, OperatorCall, ConsumerCrash

\* The inbox's dead letters are its dead-lettered receipts, one each.
THEOREM InboxLedgerExact == Spec => []InboxLedger
<1>1. ASSUME Init, NEW k \in Key
      PROVE  /\ inboxDlq[k] = 0 /\ receipt[k] = "none" /\ expiry[k] = "none"
  BY <1>1 DEF Init
<1>2. Init => InboxLedger
  BY <1>1 DEF InboxLedger
<1> QED
  BY <1>2, LedgerNext, TypeCorrect, PTL DEF Spec

-----------------------------------------------------------------------------
\* Claims are numbered afresh and no two consumers work under one number; who
\* works without a number was handed a dead-lettered receipt.
Tokens ==
  /\ fresh # NoOwner
  /\ \A k \in Key : owner[k] < fresh
  /\ \A c \in Mover : token[c] < fresh
  /\ \A c \in Mover : pc[c] = "idle" => token[c] = NoOwner
  /\ \A c \in Consumer : pc[c] # "idle" /\ token[c] = NoOwner => receipt[ckey[c]] = "dead_lettered"
  /\ \A c, d \in Consumer : token[c] = token[d] /\ token[c] # NoOwner => c = d

LEMMA TokensInit == Init => Tokens
BY DEF Init, Tokens, NoOwner, Mover

LEMMA TokensNext == TypeOK /\ Tokens /\ [Next]_vars => Tokens'
<1> SUFFICES ASSUME TypeOK, Tokens, [Next]_vars PROVE Tokens'
  OBVIOUS
<1> USE LedgerAssumption DEF LedgerAssumption, TypeOK, Tokens, NoOwner, MoverAt
<1>0. \A k \in Key : receipt[k] = "dead_lettered" => receipt'[k] = "dead_lettered"
  BY ReceiptStep DEF Final
<1>1. ASSUME NEW c \in Consumer, NEW k \in Key, ClaimInbox(c, k) PROVE Tokens'
  BY <1>0, <1>1 DEF ClaimInbox, NextToken, Mover
<1>2. ASSUME NEW c \in Consumer, NEW k \in Key, ClaimDeadLettered(c, k) PROVE Tokens'
  BY <1>2 DEF ClaimDeadLettered, Mover, inVars
<1>3. ASSUME NEW c \in Mover, pc[c] # "idle", NEW s \in {"mark", "catch", "get", "select", "update"},
             pc' = [pc EXCEPT ![c] = s], UNCHANGED <<ckey, token, fresh>>,
             \A k \in Key : owner'[k] \in {owner[k], NoOwner}
      PROVE  Tokens'
  BY <1>0, <1>3 DEF Mover
<1>4. ASSUME NEW c \in Mover, MoverDone(c), UNCHANGED fresh,
             \A k \in Key : owner'[k] \in {owner[k], NoOwner}
      PROVE  Tokens'
  BY <1>0, <1>4 DEF MoverDone, Mover
<1>5. ASSUME NEW c \in Consumer, NEW s \in Final, SettleReceipt(c, s)
      PROVE  \A k \in Key : owner'[k] \in {owner[k], NoOwner}
  BY <1>5 DEF SettleReceipt
<1>6. ASSUME UNCHANGED owner
      PROVE  \A k \in Key : owner'[k] \in {owner[k], NoOwner}
  BY <1>6
<1>7. ASSUME NEW c \in Consumer, CallAdapter(c) PROVE Tokens'
  BY <1>3, <1>6, <1>7 DEF CallAdapter, inVars, Mover
<1>8. ASSUME NEW c \in Consumer, MarkInboxProcessed(c) PROVE Tokens'
  BY <1>3, <1>5, <1>6, <1>8 DEF MarkInboxProcessed, inVars, Mover, Final
<1>9. ASSUME NEW c \in Consumer, GetOperation(c) PROVE Tokens'
  BY <1>3, <1>6, <1>9 DEF GetOperation, inVars, Mover
<1>10. ASSUME NEW c \in Consumer, MoveInboxToDeadLetter(c) PROVE Tokens'
  BY <1>4, <1>5, <1>6, <1>10 DEF MoveInboxToDeadLetter, inVars, Mover, Final
<1>11. ASSUME NEW c \in Mover, SelectForTransition(c) PROVE Tokens'
  BY <1>3, <1>4, <1>6, <1>11 DEF SelectForTransition, Refused, inVars
<1>12. ASSUME NEW c \in Mover, UpdateOperation(c) PROVE Tokens'
  BY <1>3, <1>4, <1>6, <1>12 DEF UpdateOperation, Refused, inVars
<1>13. ASSUME NEW o \in Operator, NEW k \in Key, NEW s \in OperationState, OperatorCall(o, k, s)
       PROVE  Tokens'
  BY <1>13 DEF OperatorCall, inVars, Mover
<1>14. ASSUME NEW c \in Consumer, ConsumerCrash(c) PROVE Tokens'
  BY <1>4, <1>6, <1>14 DEF ConsumerCrash, inVars, Mover
<1>15. ASSUME NEW c \in Consumer, ConnectionLost(c) PROVE Tokens'
  BY <1>3, <1>5, <1>6, <1>15 DEF ConnectionLost, inVars, Mover, Final
<1>16. CASE UNCHANGED <<owner, fresh, locVars, receipt>>
  BY <1>16 DEF locVars
<1> QED
  BY <1>1, <1>2, <1>7, <1>8, <1>9, <1>10, <1>11, <1>12, <1>13, <1>14, <1>15, <1>16
     DEF Next, Enqueue, Apply, Operate, Mover, vars, inVars, Request, CreateOperation, AppendEvent,
         MarkOperationQueued, RequesterCrash, OutboxStep, LeaseExpires

\* A receipt is in the hands of one consumer call.
THEOREM ReceiptIsExclusive == Spec => []ReceiptExclusive
<1>1. TypeOK /\ Tokens => ReceiptExclusive
  BY DEF TypeOK, Tokens, ReceiptExclusive, Owns, Mover
<1> QED
  BY <1>1, TokensInit, TokensNext, TypeCorrect, PTL DEF Spec

-----------------------------------------------------------------------------
\* Consumers about to call the adapter under a claim.
Callers(k) == {c \in Consumer : pc[c] = "call" /\ ckey[c] = k /\ token[c] # NoOwner}

\* The effects there are, and those that may still come of the claims there are,
\* do not exceed the attempts charged.
Charged ==
  \A k \in Key :
    /\ IsFiniteSet(Callers(k))
    /\ receipt[k] # "dead_lettered" => applied[k] + Cardinality(Callers(k)) <= attempts[k]

\* Who is marking a receipt has seen the effect.
Took ==
  /\ \A c \in Consumer : pc[c] = "mark" => applied[ckey[c]] > 0
  /\ \A k \in Key : receipt[k] = "processed" => applied[k] > 0

LEMMA ChargedInit == Init => Charged
<1> SUFFICES ASSUME Init, NEW k \in Key
             PROVE  /\ IsFiniteSet(Callers(k))
                    /\ applied[k] + Cardinality(Callers(k)) <= attempts[k]
  BY DEF Charged
<1>1. Callers(k) = {} /\ applied[k] = 0 /\ attempts[k] = 0
  BY DEF Init, Callers, Mover
<1> QED
  BY <1>1, FS_EmptySet

\* A step that adds no caller, no effect and no attempt.
LEMMA FewerCallers ==
  ASSUME TypeOK, Charged, [Next]_vars, UNCHANGED <<applied, attempts>>,
         \A k \in Key : Callers(k)' \subseteq Callers(k)
  PROVE  Charged'
<1> SUFFICES ASSUME NEW k \in Key
             PROVE  /\ IsFiniteSet(Callers(k)')
                    /\ receipt'[k] # "dead_lettered"
                         => applied'[k] + Cardinality(Callers(k)') <= attempts'[k]
  BY DEF Charged
<1>1. IsFiniteSet(Callers(k)) /\ Callers(k)' \in SUBSET Callers(k)
  BY DEF Charged
<1>2. IsFiniteSet(Callers(k)') /\ Cardinality(Callers(k)') <= Cardinality(Callers(k))
  BY <1>1, FS_Subset
<1>3. Cardinality(Callers(k)') \in Nat /\ Cardinality(Callers(k)) \in Nat
  BY <1>1, <1>2, FS_CardinalityType
<1>4. receipt'[k] # "dead_lettered" => receipt[k] # "dead_lettered"
  BY ReceiptStep DEF Final
<1>5. applied[k] \in Nat /\ attempts[k] \in Nat
  BY DEF TypeOK
<1> QED
  BY <1>2, <1>3, <1>4, <1>5 DEF Charged

\* A claim adds one caller and one attempt.
LEMMA ChargedClaim ==
  ASSUME TypeOK, Tokens, Charged, NEW c \in Consumer, NEW j \in Key, ClaimInbox(c, j), NEW k \in Key
  PROVE  /\ IsFiniteSet(Callers(k)')
         /\ receipt'[k] # "dead_lettered" => applied'[k] + Cardinality(Callers(k)') <= attempts'[k]
<1>1. c \in Mover /\ pc[c] = "idle" /\ c \notin Callers(k) /\ applied' = applied
  BY DEF ClaimInbox, Callers, Mover
<1>2. /\ pc' = [pc EXCEPT ![c] = "call"] /\ ckey' = [ckey EXCEPT ![c] = j]
      /\ token' = [token EXCEPT ![c] = fresh] /\ fresh # NoOwner
  BY DEF ClaimInbox, MoverAt, Tokens
<1>3. Callers(k)' = IF k = j THEN Callers(k) \cup {c} ELSE Callers(k)
  BY <1>1, <1>2 DEF Callers, TypeOK, Mover
<1>4. IsFiniteSet(Callers(k)) /\ Cardinality(Callers(k)) \in Nat
  BY FS_CardinalityType DEF Charged
<1>5. applied[k] \in Nat /\ attempts[k] \in Nat
  BY DEF TypeOK
<1>6. CASE k = j
  <2>1. Cardinality(Callers(k)') = Cardinality(Callers(k)) + 1 /\ IsFiniteSet(Callers(k)')
    BY <1>1, <1>3, <1>4, <1>6, FS_AddElement
  <2>2. attempts'[k] = attempts[k] + 1 /\ receipt[k] # "dead_lettered"
    BY <1>6 DEF ClaimInbox, Charge, Free, TypeOK
  <2> QED
    BY <1>1, <1>4, <1>5, <2>1, <2>2 DEF Charged
<1>7. CASE k # j
  <2>1. attempts'[k] = attempts[k] /\ receipt'[k] = receipt[k]
    BY <1>7 DEF ClaimInbox, TypeOK
  <2> QED
    BY <1>1, <1>3, <1>4, <1>7, <2>1 DEF Charged
<1> QED
  BY <1>6, <1>7

\* The call of a caller is one effect at most, and ends its being a caller.
LEMMA ChargedCall ==
  ASSUME TypeOK, Tokens, Charged, NEW c \in Consumer, CallAdapter(c), NEW k \in Key
  PROVE  /\ IsFiniteSet(Callers(k)')
         /\ receipt'[k] # "dead_lettered" => applied'[k] + Cardinality(Callers(k)') <= attempts'[k]
<1>1. /\ c \in Mover /\ pc[c] = "call" /\ ckey[c] \in Key /\ UNCHANGED <<ckey, token, receipt, attempts>>
      /\ pc' \in {[pc EXCEPT ![c] = "mark"], [pc EXCEPT ![c] = "catch"]}
  BY DEF CallAdapter, MoverAt, TypeOK, Mover, inVars
<1>2. Callers(k)' = Callers(k) \ {c}
  BY <1>1 DEF Callers, TypeOK, Mover
<1>3. IsFiniteSet(Callers(k)) /\ Cardinality(Callers(k)) \in Nat
  BY FS_CardinalityType DEF Charged
<1>4. /\ IsFiniteSet(Callers(k)')
      /\ Cardinality(Callers(k)') =
           IF c \in Callers(k) THEN Cardinality(Callers(k)) - 1 ELSE Cardinality(Callers(k))
  BY <1>2, <1>3, FS_RemoveElement
<1>5. /\ applied[k] \in Nat /\ attempts[k] \in Nat
      /\ applied'[k] \in {applied[k], applied[k] + 1}
      /\ k # ckey[c] => applied'[k] = applied[k]
  BY <1>1 DEF CallAdapter, TypeOK
<1>6. CASE k = ckey[c] /\ token[c] # NoOwner
  BY <1>1, <1>3, <1>4, <1>5, <1>6 DEF Callers, Charged
<1>7. CASE k = ckey[c] /\ token[c] = NoOwner
  BY <1>1, <1>4, <1>7 DEF Tokens
<1>8. CASE k # ckey[c]
  BY <1>1, <1>3, <1>4, <1>5, <1>8 DEF Callers, Charged
<1> QED
  BY <1>6, <1>7, <1>8

LEMMA ChargedNext == TypeOK /\ Tokens /\ Charged /\ [Next]_vars => Charged'
<1> SUFFICES ASSUME TypeOK, Tokens, Charged, [Next]_vars PROVE Charged'
  OBVIOUS
<1> USE DEF MoverAt
<1>1. ASSUME NEW c \in Consumer, NEW k \in Key, ClaimInbox(c, k) PROVE Charged'
  BY <1>1, ChargedClaim DEF Charged
<1>2. ASSUME NEW c \in Consumer, CallAdapter(c) PROVE Charged'
  BY <1>2, ChargedCall DEF Charged
<1>3. ASSUME NEW c \in Mover, pc'[c] # "call" \/ token'[c] = NoOwner,
             \A d \in Mover : d # c => pc'[d] = pc[d] /\ ckey'[d] = ckey[d] /\ token'[d] = token[d],
             UNCHANGED <<applied, attempts>>
      PROVE  Charged'
  <2>1. \A k \in Key : Callers(k)' \subseteq Callers(k)
    BY <1>3 DEF Callers, Mover
  <2> QED
    BY <1>3, <2>1, FewerCallers
<1>4. ASSUME NEW c \in Mover, MoverDone(c), UNCHANGED <<applied, attempts>> PROVE Charged'
  BY <1>3, <1>4 DEF MoverDone, TypeOK
<1>5. ASSUME NEW c \in Mover, NEW s \in {"mark", "catch", "get", "select", "update"},
             pc' = [pc EXCEPT ![c] = s], UNCHANGED <<ckey, token, applied, attempts>>
      PROVE  Charged'
  BY <1>3, <1>5 DEF TypeOK
<1>6. ASSUME NEW c \in Consumer, NEW k \in Key, ClaimDeadLettered(c, k) PROVE Charged'
  <2>1. /\ c \in Mover /\ token'[c] = NoOwner /\ UNCHANGED <<token, applied, attempts>>
        /\ pc' = [pc EXCEPT ![c] = "call"] /\ ckey' = [ckey EXCEPT ![c] = k]
    BY <1>6 DEF ClaimDeadLettered, Tokens, Mover, inVars
  <2> QED
    BY <1>3, <2>1 DEF TypeOK
<1>7. ASSUME NEW c \in Consumer, MarkInboxProcessed(c) PROVE Charged'
  BY <1>5, <1>7 DEF MarkInboxProcessed, SettleReceipt, inVars, Mover
<1>8. ASSUME NEW c \in Consumer, GetOperation(c) PROVE Charged'
  BY <1>5, <1>8 DEF GetOperation, inVars, Mover
<1>9. ASSUME NEW c \in Consumer, MoveInboxToDeadLetter(c) PROVE Charged'
  BY <1>4, <1>9 DEF MoveInboxToDeadLetter, SettleReceipt, inVars, Mover
<1>10. ASSUME NEW c \in Mover, SelectForTransition(c) PROVE Charged'
  BY <1>4, <1>5, <1>10 DEF SelectForTransition, Refused, inVars
<1>11. ASSUME NEW c \in Mover, UpdateOperation(c) PROVE Charged'
  BY <1>4, <1>5, <1>11 DEF UpdateOperation, Refused, inVars
<1>12. ASSUME NEW o \in Operator, NEW k \in Key, NEW s \in OperationState, OperatorCall(o, k, s)
       PROVE  Charged'
  <2>1. /\ o \in Mover /\ pc'[o] = "select" /\ UNCHANGED <<token, applied, attempts>>
        /\ pc' = [pc EXCEPT ![o] = "select"] /\ ckey' = [ckey EXCEPT ![o] = k]
    BY <1>12 DEF OperatorCall, inVars, Mover, TypeOK
  <2> QED
    BY <1>3, <2>1 DEF TypeOK
<1>13. ASSUME NEW c \in Consumer, ConsumerCrash(c) PROVE Charged'
  BY <1>4, <1>13 DEF ConsumerCrash, inVars, Mover
<1>14. ASSUME NEW c \in Consumer, ConnectionLost(c) PROVE Charged'
  BY <1>5, <1>14 DEF ConnectionLost, SettleReceipt, inVars, Mover
<1>15. CASE UNCHANGED <<pc, ckey, token, applied, attempts>>
  BY <1>15, FewerCallers DEF Callers
<1> QED
  BY <1>1, <1>2, <1>6, <1>7, <1>8, <1>9, <1>10, <1>11, <1>12, <1>13, <1>14, <1>15
     DEF Next, Enqueue, Apply, Operate, Mover, vars, inVars, locVars, Request, CreateOperation,
         AppendEvent, MarkOperationQueued, RequesterCrash, OutboxStep, LeaseExpires

LEMMA TookNext == TypeOK /\ Took /\ [Next]_vars => Took'
<1> SUFFICES ASSUME TypeOK, Took, [Next]_vars PROVE Took'
  OBVIOUS
<1> USE DEF TypeOK, Took, MoverAt, Final
<1>1. ASSUME NEW c \in Mover, pc'[c] # "mark", UNCHANGED applied,
             \A d \in Mover : d # c => pc'[d] = pc[d] /\ ckey'[d] = ckey[d],
             \A k \in Key : receipt'[k] = "processed" =>
                              receipt[k] = "processed" \/ (k = ckey[c] /\ pc[c] = "mark" /\ c \in Consumer)
      PROVE  Took'
  BY <1>1 DEF Mover
<1>2. ASSUME NEW c \in Mover, MoverDone(c), UNCHANGED <<applied, receipt>> PROVE Took'
  BY <1>1, <1>2 DEF MoverDone
<1>3. ASSUME NEW c \in Mover, NEW s \in {"call", "catch", "get", "select", "update"},
             pc' = [pc EXCEPT ![c] = s], UNCHANGED applied,
             \A d \in Mover : d # c => ckey'[d] = ckey[d],
             \A k \in Key : receipt'[k] = "processed" =>
                              receipt[k] = "processed" \/ (k = ckey[c] /\ pc[c] = "mark" /\ c \in Consumer)
      PROVE  Took'
  BY <1>1, <1>3
<1>4. ASSUME NEW c \in Consumer, NEW k \in Key, ClaimInbox(c, k) \/ ClaimDeadLettered(c, k) PROVE Took'
  BY <1>3, <1>4 DEF ClaimInbox, ClaimDeadLettered, Mover, inVars
<1>5. ASSUME NEW c \in Consumer, CallAdapter(c) PROVE Took'
  BY <1>5 DEF CallAdapter, Mover, inVars
<1>6. ASSUME NEW c \in Consumer, MarkInboxProcessed(c) PROVE Took'
  BY <1>3, <1>6 DEF MarkInboxProcessed, SettleReceipt, Mover, inVars
<1>7. ASSUME NEW c \in Consumer, GetOperation(c) PROVE Took'
  BY <1>3, <1>7 DEF GetOperation, Mover, inVars
<1>8. ASSUME NEW c \in Consumer, MoveInboxToDeadLetter(c) PROVE Took'
  <2>1. \A k \in Key : receipt'[k] = "processed" => receipt[k] = "processed"
    BY <1>8 DEF MoveInboxToDeadLetter, SettleReceipt, inVars
  <2> QED
    BY <1>1, <1>8, <2>1 DEF MoveInboxToDeadLetter, MoverDone, Mover
<1>9. ASSUME NEW c \in Mover, SelectForTransition(c) PROVE Took'
  BY <1>2, <1>3, <1>9 DEF SelectForTransition, Refused, inVars
<1>10. ASSUME NEW c \in Mover, UpdateOperation(c) PROVE Took'
  BY <1>2, <1>3, <1>10 DEF UpdateOperation, Refused, inVars
<1>11. ASSUME NEW o \in Operator, NEW k \in Key, NEW s \in OperationState, OperatorCall(o, k, s)
       PROVE  Took'
  BY <1>3, <1>11 DEF OperatorCall, Mover, inVars
<1>12. ASSUME NEW c \in Consumer, ConsumerCrash(c) PROVE Took'
  BY <1>2, <1>12 DEF ConsumerCrash, Mover, inVars
<1>13. ASSUME NEW c \in Consumer, ConnectionLost(c) PROVE Took'
  BY <1>3, <1>13 DEF ConnectionLost, SettleReceipt, Mover, inVars
<1>14. CASE UNCHANGED <<pc, ckey, applied, receipt>>
  BY <1>14
<1> QED
  BY <1>4, <1>5, <1>6, <1>7, <1>8, <1>9, <1>10, <1>11, <1>12, <1>13, <1>14
     DEF Next, Enqueue, Apply, Operate, Mover, vars, inVars, locVars, Request, CreateOperation,
         AppendEvent, MarkOperationQueued, RequesterCrash, OutboxStep, LeaseExpires

\* A processed receipt had its effect, and until a receipt is dead-lettered every
\* effect was charged an attempt.
THEOREM EffectsAreCharged == Spec => []EffectsCharged
<1>1. Init => Took
  BY DEF Init, Took, Mover
<1>2. TypeOK /\ Charged /\ Took => EffectsCharged
  <2> SUFFICES ASSUME TypeOK, Charged, Took, NEW k \in Key
               PROVE  receipt[k] # "dead_lettered" => applied[k] <= attempts[k]
    BY DEF Took, EffectsCharged
  <2>1. Cardinality(Callers(k)) \in Nat /\ applied[k] \in Nat /\ attempts[k] \in Nat
    BY FS_CardinalityType DEF Charged, TypeOK
  <2> QED
    BY <2>1 DEF Charged
<1> QED
  BY <1>1, <1>2, ChargedInit, ChargedNext, TookNext, TokensInit, TokensNext, TypeCorrect, PTL DEF Spec
-----------------------------------------------------------------------------
\* A receipt in processing is in the hands of a consumer that has yet to settle it, or
\* somebody has died.
InHand ==
  /\ crashes <= MaxCrash
  /\ \A k \in Key : receipt[k] = "processing" =>
       \/ \E c \in Consumer : /\ ckey[c] = k /\ token[c] = owner[k]
                              /\ pc[c] \in {"call", "mark", "catch"}
       \/ crashes < MaxCrash

LEMMA InHandNext == TypeOK /\ InHand /\ [Next]_vars => InHand'
<1> SUFFICES ASSUME TypeOK, InHand, [Next]_vars PROVE InHand'
  OBVIOUS
<1> USE LedgerAssumption DEF LedgerAssumption, TypeOK, InHand, MoverAt
<1>1. CASE crashes' = crashes - 1
  BY <1>1
<1>2. ASSUME NEW c \in Mover, crashes' = crashes,
             \A d \in Mover : d # c => pc'[d] = pc[d] /\ ckey'[d] = ckey[d] /\ token'[d] = token[d],
             \A k \in Key : receipt'[k] = "processing" => receipt[k] = "processing" /\ owner'[k] = owner[k],
             \A k \in Key : receipt'[k] = "processing" /\ ckey[c] = k /\ token[c] = owner[k]
                            /\ pc[c] \in {"call", "mark", "catch"} /\ c \in Consumer =>
                              /\ ckey'[c] = k /\ token'[c] = token[c]
                              /\ pc'[c] \in {"call", "mark", "catch"}
      PROVE  InHand'
  BY <1>2 DEF Mover
<1>3. ASSUME NEW c \in Mover, crashes' = crashes, MoverDone(c),
             \A k \in Key : receipt'[k] = "processing" => receipt[k] = "processing" /\ owner'[k] = owner[k],
             \A k \in Key : receipt'[k] = "processing" =>
                ~(ckey[c] = k /\ token[c] = owner[k] /\ pc[c] \in {"call", "mark", "catch"} /\ c \in Consumer)
      PROVE  InHand'
  BY <1>2, <1>3 DEF MoverDone
<1>4. ASSUME NEW c \in Consumer, NEW k \in Key, ClaimInbox(c, k) PROVE InHand'
  <2>1. /\ c \in Mover /\ pc[c] = "idle" /\ crashes' = crashes
        /\ pc' = [pc EXCEPT ![c] = "call"] /\ ckey' = [ckey EXCEPT ![c] = k]
        /\ token' = [token EXCEPT ![c] = fresh] /\ owner' = [owner EXCEPT ![k] = fresh]
        /\ receipt' = [receipt EXCEPT ![k] = "processing"]
    BY <1>4 DEF ClaimInbox, bounds, Mover
  <2>2. ASSUME NEW j \in Key, receipt'[j] = "processing"
        PROVE  \/ \E d \in Consumer : /\ ckey'[d] = j /\ token'[d] = owner'[j]
                                       /\ pc'[d] \in {"call", "mark", "catch"}
               \/ crashes' < MaxCrash
    <3>1. CASE j = k
      BY <2>1, <3>1
    <3>2. CASE j # k
      BY <2>1, <2>2, <3>2 DEF Mover
    <3> QED
      BY <3>1, <3>2
  <2> QED
    BY <2>1, <2>2
<1>5. ASSUME NEW c \in Consumer, NEW k \in Key, ClaimDeadLettered(c, k) PROVE InHand'
  BY <1>2, <1>5 DEF ClaimDeadLettered, inVars, Mover
<1>6. ASSUME NEW c \in Consumer, CallAdapter(c) PROVE InHand'
  BY <1>2, <1>6 DEF CallAdapter, inVars, bounds, Mover
<1>7. ASSUME NEW c \in Consumer, MarkInboxProcessed(c) PROVE InHand'
  <2>1. c \in Mover /\ crashes' = crashes /\ UNCHANGED <<ckey, token>> /\ pc[c] = "mark" /\ ckey[c] \in Key
    BY <1>7 DEF MarkInboxProcessed, bounds, Mover
  <2>2. CASE SettleReceipt(c, "processed") /\ pc' = [pc EXCEPT ![c] = "get"]
    BY <1>2, <2>1, <2>2 DEF SettleReceipt
  <2>3. CASE UNCHANGED inVars /\ pc' = [pc EXCEPT ![c] = "catch"]
    BY <1>2, <2>1, <2>3 DEF inVars
  <2> QED
    BY <1>7, <2>2, <2>3 DEF MarkInboxProcessed
<1>8. ASSUME NEW c \in Consumer, GetOperation(c) PROVE InHand'
  BY <1>2, <1>8 DEF GetOperation, inVars, bounds, Mover
<1>9. ASSUME NEW c \in Consumer, MoveInboxToDeadLetter(c) PROVE InHand'
  <2>1. c \in Mover /\ crashes' = crashes /\ MoverDone(c) /\ pc[c] = "catch" /\ ckey[c] \in Key
    BY <1>9 DEF MoveInboxToDeadLetter, bounds, Mover
  <2>2. CASE SettleReceipt(c, "dead_lettered")
    BY <1>3, <2>1, <2>2 DEF SettleReceipt
  <2>3. CASE ~DeadLetterable(c) /\ UNCHANGED inVars
    BY <1>3, <2>1, <2>3 DEF DeadLetterable, Owns, inVars
  <2> QED
    BY <1>9, <2>2, <2>3 DEF MoveInboxToDeadLetter
<1>10. ASSUME NEW c \in Mover, pc[c] \in {"select", "update"}, SelectForTransition(c) \/ UpdateOperation(c)
       PROVE  InHand'
  <2>1. crashes' = crashes /\ UNCHANGED inVars
    BY <1>10 DEF SelectForTransition, UpdateOperation, bounds
  <2>2. \/ MoverDone(c)
        \/ \E s \in {"update", "catch"} : pc' = [pc EXCEPT ![c] = s] /\ UNCHANGED <<ckey, token>>
    BY <1>10 DEF SelectForTransition, UpdateOperation, Refused
  <2> QED
    BY <1>2, <1>3, <1>10, <2>1, <2>2 DEF inVars
<1>11. ASSUME NEW o \in Operator, NEW k \in Key, NEW s \in OperationState, OperatorCall(o, k, s)
       PROVE  InHand'
  BY <1>2, <1>11 DEF OperatorCall, inVars, Mover
<1>12. ASSUME NEW k \in Key, LeaseExpires(k) PROVE InHand'
  BY <1>12 DEF LeaseExpires, locVars
<1>13. CASE UNCHANGED <<crashes, receipt, owner, pc, ckey, token>>
  BY <1>13
<1> QED
  BY <1>1, <1>4, <1>5, <1>6, <1>7, <1>8, <1>9, <1>10, <1>11, <1>12, <1>13
     DEF Next, Enqueue, Apply, Operate, Mover, vars, inVars, locVars, bounds, Request, CreateOperation,
         AppendEvent, MarkOperationQueued, RequesterCrash, OutboxStep, ConsumerCrash, ConnectionLost,
         SelectForTransition, UpdateOperation

\* A receipt is stuck in processing by a death or a lost connection only, never by a lease
\* that its holder outlived.
THEOREM StuckNeedsCrash == Spec => []StuckByCrashOnly
<1>1. Init => InHand
  BY LedgerAssumption DEF LedgerAssumption, Init, InHand
<1>2. InHand => StuckByCrashOnly
  BY DEF InHand, StuckByCrashOnly, Attended
<1> QED
  BY <1>1, <1>2, InHandNext, TypeCorrect, PTL DEF Spec

-----------------------------------------------------------------------------
\* A consumer asks for one state only.
AsksSuccess == \A c \in Consumer : to[c] = "succeeded"

LEMMA AsksNext == TypeOK /\ AsksSuccess /\ [Next]_vars => AsksSuccess'
<1> SUFFICES ASSUME TypeOK, AsksSuccess, [Next]_vars PROVE AsksSuccess'
  OBVIOUS
<1> USE DEF AsksSuccess, TypeOK
<1>1. CASE to' = to
  BY <1>1
<1>2. ASSUME NEW c \in Mover, MoverDone(c) PROVE AsksSuccess'
  BY <1>2 DEF MoverDone, Mover
<1>3. ASSUME NEW o \in Operator, NEW s, to' = [to EXCEPT ![o] = s] PROVE AsksSuccess'
  BY <1>3, LedgerAssumption DEF LedgerAssumption, Mover
<1>4. ASSUME NEW c \in Mover, SelectForTransition(c) \/ UpdateOperation(c) PROVE AsksSuccess'
  BY <1>1, <1>2, <1>4 DEF SelectForTransition, UpdateOperation, Refused
<1>5. ASSUME NEW o \in Operator, NEW k \in Key, NEW s \in OperationState, OperatorCall(o, k, s)
      PROVE  AsksSuccess'
  BY <1>3, <1>5 DEF OperatorCall
<1>6. ASSUME NEW c \in Consumer, MoveInboxToDeadLetter(c) \/ ConsumerCrash(c) PROVE AsksSuccess'
  BY <1>2, <1>6 DEF MoveInboxToDeadLetter, ConsumerCrash, Mover
<1> QED
  BY <1>1, <1>4, <1>5, <1>6
     DEF Next, Enqueue, Apply, Operate, Mover, vars, locVars, Request, CreateOperation, AppendEvent,
         MarkOperationQueued, RequesterCrash, OutboxStep, ClaimInbox, ClaimDeadLettered, CallAdapter,
         MarkInboxProcessed, GetOperation, ConnectionLost, LeaseExpires

\* Who takes an operation out of the queue: an operator, in its own update.
TakenByOperator(k) ==
  opState[k] = "queued" /\ opState'[k] # "queued" =>
    \E o \in Operator : pc[o] = "update" /\ ckey[o] = k /\ opState'[k] = to[o]

LEMMA TakenStep ==
  ASSUME TypeOK, Chosen, AsksSuccess, Next, NEW k \in Key
  PROVE  TakenByOperator(k)
<1> USE DEF TakenByOperator
<1>1. CASE opState' = opState
  BY <1>1
<1>2. ASSUME NEW q \in Requester, CreateOperation(q) \/ MarkOperationQueued(q) PROVE TakenByOperator(k)
  BY <1>2 DEF CreateOperation, MarkOperationQueued, Queueable, opVars, TypeOK
<1>3. ASSUME NEW c \in Mover, pc[c] = "update", SameVersion(c), WriteOperation(c)
      PROVE  TakenByOperator(k)
  <2>1. ckey[c] \in Key /\ to[c] \in Transitions[opState[ckey[c]]]
    BY <1>3 DEF TypeOK, Chosen, SameVersion
  <2>2. \A j \in Key : opState'[j] = IF j = ckey[c] THEN to[c] ELSE opState[j]
    BY <1>3, <2>1 DEF WriteOperation, TypeOK
  <2>3. "succeeded" \notin Transitions["queued"]
    BY DEF Transitions, OperationState, Terminal
  <2>4. CASE c \in Consumer
    BY <2>1, <2>2, <2>3, <2>4 DEF AsksSuccess
  <2>5. CASE c \in Operator
    BY <1>3, <2>2, <2>5
  <2> QED
    BY <2>4, <2>5 DEF Mover
<1>4. ASSUME NEW c \in Mover, UpdateOperation(c) PROVE TakenByOperator(k)
  BY <1>1, <1>3, <1>4 DEF UpdateOperation, opVars
<1>5. ASSUME NEW c \in Consumer, ConnectionLost(c) PROVE TakenByOperator(k)
  BY <1>1, <1>3, <1>5 DEF ConnectionLost, opVars, Mover
<1> QED
  BY <1>1, <1>2, <1>4, <1>5
     DEF Next, Enqueue, Apply, Operate, Mover, opVars, Request, AppendEvent, RequesterCrash, OutboxStep,
         ClaimInbox, ClaimDeadLettered, CallAdapter, MarkInboxProcessed, GetOperation,
         MoveInboxToDeadLetter, SelectForTransition, OperatorCall, ConsumerCrash, LeaseExpires

\* Why the ledgers disagree: a queued operation is moved by operators only.  No delivery of
\* its event moves it, whatever became of the receipt: applyScimOperationEvent asks for
\* "succeeded", which TRANSITIONS does not allow from "queued", and nothing else of the code
\* makes the operation running.
THEOREM QueuedAwaitsOperator == Spec => [][\A k \in Key : TakenByOperator(k)]_vars
<1>1. Init => Chosen /\ AsksSuccess
  BY DEF Init, Chosen, AsksSuccess, Mover
<1>2. Spec => [](TypeOK /\ Rows /\ Chosen /\ AsksSuccess)
  BY <1>1, TypeInit, TypeNext, ChosenNext, AsksNext, PTL DEF Spec
<1>3. TypeOK /\ Chosen /\ AsksSuccess /\ [Next]_vars => [\A k \in Key : TakenByOperator(k)]_vars
  BY TakenStep
<1> QED
  BY <1>2, <1>3, PTL DEF Spec
=============================================================================
