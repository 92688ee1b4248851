------------------------ MODULE IntegrationEventContract ------------------------
(***************************************************************************)
(* What the transactional outbox promises to the code that appends an      *)
(* event: the event stays open until it is published, which needs at least *)
(* one delivery, or given up with one dead letter; deliveries may repeat,  *)
(* late ones included; what is settled stays settled.  Leases, attempts,   *)
(* batches and dispatchers are not mentioned.                              *)
(***************************************************************************)
EXTENDS Naturals

CONSTANT Event

VARIABLES status,   \* Event -> "absent", "open", "published" or "dead_lettered"
          reached,  \* the events the transport has taken
          letters   \* Event -> dead letters written for it

cvars == <<status, reached, letters>>

Init ==
  /\ status = [e \in Event |-> "absent"]
  /\ reached = {}
  /\ letters = [e \in Event |-> 0]

Append(e) ==
  /\ status[e] = "absent"
  /\ status' = [status EXCEPT ![e] = "open"]
  /\ UNCHANGED <<reached, letters>>

Deliver(e) ==
  /\ status[e] # "absent"
  /\ reached' = reached \cup {e}
  /\ UNCHANGED <<status, letters>>

Publish(e) ==
  /\ status[e] = "open"
  /\ e \in reached
  /\ status' = [status EXCEPT ![e] = "published"]
  /\ UNCHANGED <<reached, letters>>

GiveUp(e) ==
  /\ status[e] = "open"
  /\ status' = [status EXCEPT ![e] = "dead_lettered"]
  /\ letters' = [letters EXCEPT ![e] = @ + 1]
  /\ UNCHANGED reached

Next == \E e \in Event : Append(e) \/ Deliver(e) \/ Publish(e) \/ GiveUp(e)

Spec == Init /\ [][Next]_cvars
=============================================================================
