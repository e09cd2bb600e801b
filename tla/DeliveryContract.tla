-------------------------- MODULE DeliveryContract --------------------------
(***************************************************************************)
(* What the webhook outbox promises about one delivery, whoever runs the   *)
(* dispatchers: a queued delivery is tried a bounded number of times, it   *)
(* is marked succeeded only after its receiver answered 2xx, it is marked  *)
(* failed only when the budget of attempts is used up, a recorded attempt  *)
(* is never forgotten, and a settled delivery never changes again until    *)
(* its endpoint is deleted.                                                *)
(*                                                                         *)
(* WebhookOutbox implements this specification (module MCWebhookOutbox     *)
(* checks it, WebhookOutboxProofs proves it).                              *)
(***************************************************************************)
EXTENDS Naturals

CONSTANTS
  Deliveries,   (* identities of webhook_deliveries rows                    *)
  MaxAttempts   (* recorded attempts after which a delivery has failed      *)

VARIABLES
  status,       (* status[d]: the row's status, "none" before it exists     *)
  attempts,     (* attempts[d]: attempts recorded for d                     *)
  acked         (* acked[d]: the receiver answered 2xx to a POST of d       *)

vars == <<status, attempts, acked>>

Statuses == {"none", "pending", "succeeded", "failed", "removed"}

Init ==
  /\ status = [d \in Deliveries |-> "none"]
  /\ attempts = [d \in Deliveries |-> 0]
  /\ acked = [d \in Deliveries |-> FALSE]

(* Rows come into being together, when the change they describe commits.   *)
Queue(new) ==
  /\ \A d \in new : status[d] = "none"
  /\ status' = [d \in Deliveries |-> IF d \in new THEN "pending" ELSE status[d]]
  /\ UNCHANGED <<attempts, acked>>

(* The receiver answers; nothing is recorded yet. *)
Acknowledge(d) ==
  /\ status[d] # "none"
  /\ acked' = [acked EXCEPT ![d] = TRUE]
  /\ UNCHANGED <<status, attempts>>

RecordSuccess(d) ==
  /\ status[d] = "pending"
  /\ acked[d]
  /\ status' = [status EXCEPT ![d] = "succeeded"]
  /\ attempts' = [attempts EXCEPT ![d] = attempts[d] + 1]
  /\ UNCHANGED acked

RecordFailure(d) ==
  /\ status[d] = "pending"
  /\ attempts' = [attempts EXCEPT ![d] = attempts[d] + 1]
  /\ status' = [status EXCEPT
       ![d] = IF attempts[d] + 1 = MaxAttempts THEN "failed" ELSE "pending"]
  /\ UNCHANGED acked

(* Deleting an endpoint deletes its deliveries, settled or not. *)
Remove(gone) ==
  /\ \A d \in gone : status[d] # "none"
  /\ status' = [d \in Deliveries |-> IF d \in gone THEN "removed" ELSE status[d]]
  /\ UNCHANGED <<attempts, acked>>

Next ==
  \/ \E ds \in SUBSET Deliveries : Queue(ds) \/ Remove(ds)
  \/ \E d \in Deliveries : Acknowledge(d) \/ RecordSuccess(d) \/ RecordFailure(d)

Spec == Init /\ [][Next]_vars

=============================================================================
