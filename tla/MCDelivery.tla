---------------------------- MODULE MCDelivery ----------------------------
(***************************************************************************)
(* Instances of Delivery for TLC.                                          *)
(***************************************************************************)
EXTENDS Delivery, TLC

(* Priorities of the two deliveries of the larger instance, so that more   *)
(* than one queue is in use.                                               *)
CONSTANTS d1, d2
OnePriority == (d1 :> "NORMAL")
TwoPriorities == (d1 :> "CRITICAL" @@ d2 :> "NORMAL")

(* -Q critical,high,default,low, as docker-compose.yml and the README      *)
(* start the worker, and the same with Celery's default queue added.       *)
ShippedQueues == {"critical", "high", "default", "low"}
AllQueues     == ShippedQueues \cup {"celery"}

WorkerSymmetry == Permutations(Workers)

============================================================================
