----------------------- MODULE MCNotificationService -----------------------
(***************************************************************************)
(* The instance of NotificationService for TLC: a request and its retry.   *)
(***************************************************************************)
EXTENDS NotificationService, TLC

CONSTANTS q1, q2, k1, a, email, sms

SameKey     == [q \in Requests |-> k1]
SamePayload == [q \in Requests |-> a]
AllNormal   == [q \in Requests |-> "NORMAL"]

(* The two requests have the same key and payload and the two channels the *)
(* same priority, so both pairs are interchangeable: q1 is the request     *)
(* that commits first, email the channel that is targeted or published     *)
(* first.  A state constraint may say so with the liveness property too,   *)
(* for which SYMMETRY would not be sound.                                  *)
FirstOfPairs ==
  /\ q2 \in stored => q1 \in stored
  /\ \A q \in Requests :
       /\ sms \in targets[q] => email \in targets[q]
       /\ <<q, email>> \in unsent => targets[q] = {email} \/ <<q, sms>> \in unsent

AllQueues == {"critical", "high", "default", "low", "celery"}

=============================================================================
