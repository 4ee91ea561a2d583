------------------------- MODULE DeliveryLifecycle -------------------------
(***************************************************************************)
(* What the delivery rows promise to a reader of the notification API,     *)
(* without queues, workers or sessions: the state machine of a delivery    *)
(* and its relation to what the provider was asked to do.  A row is SENT   *)
(* before the provider is called, the provider answers at most once for    *)
(* every time the row is SENT, the answer alone decides how SENT ends, and *)
(* DELIVERED and FAILED are final.                                         *)
(***************************************************************************)
EXTENDS Naturals

CONSTANT Deliveries

VARIABLES
  status,   \* status of each delivery row
  retries,  \* retry_count of each delivery row
  accepted, \* times the provider accepted
  refused   \* times the provider refused

vars == <<status, retries, accepted, refused>>

Init ==
  /\ status   = [d \in Deliveries |-> "NONE"]
  /\ retries  = [d \in Deliveries |-> 0]
  /\ accepted = [d \in Deliveries |-> 0]
  /\ refused  = [d \in Deliveries |-> 0]

Move(d, from, to) == status[d] = from /\ status' = [status EXCEPT ![d] = to]

(* The provider has not answered since the row last became SENT.           *)
Unanswered(d) == accepted[d] = 0 /\ refused[d] = retries[d]

(* The deliveries of one notification come into being together.            *)
Create(ds) ==
  /\ \A d \in ds : status[d] = "NONE"
  /\ status' = [d \in Deliveries |-> IF d \in ds THEN "PENDING" ELSE status[d]]
  /\ UNCHANGED <<retries, accepted, refused>>

Send(d) == Move(d, "PENDING", "SENT") /\ UNCHANGED <<retries, accepted, refused>>

(* The notification cannot be rendered.                                    *)
Reject(d) == Move(d, "PENDING", "FAILED") /\ UNCHANGED <<retries, accepted, refused>>

Accept(d) ==
  /\ status[d] = "SENT" /\ Unanswered(d)
  /\ accepted' = [accepted EXCEPT ![d] = @ + 1]
  /\ UNCHANGED <<status, retries, refused>>

Refuse(d) ==
  /\ status[d] = "SENT" /\ Unanswered(d)
  /\ refused' = [refused EXCEPT ![d] = @ + 1]
  /\ UNCHANGED <<status, retries, accepted>>

Confirm(d) ==
  /\ accepted[d] = 1
  /\ Move(d, "SENT", "DELIVERED")
  /\ UNCHANGED <<retries, accepted, refused>>

(* A refusal is counted, and the row is tried again or given up.           *)
CountRefusal(d) ==
  /\ refused[d] > retries[d]
  /\ Move(d, "SENT", "PENDING") \/ Move(d, "SENT", "FAILED")
  /\ retries' = [retries EXCEPT ![d] = @ + 1]
  /\ UNCHANGED <<accepted, refused>>

Next ==
  \/ \E ds \in SUBSET Deliveries : Create(ds)
  \/ \E d \in Deliveries :
       \/ Send(d)
       \/ Reject(d)
       \/ Accept(d)
       \/ Refuse(d)
       \/ Confirm(d)
       \/ CountRefusal(d)

Spec == Init /\ [][Next]_vars

=============================================================================
