--------------------------- MODULE DeliveryProofs ---------------------------
(***************************************************************************)
(* Proofs about Delivery, for every set of deliveries and of workers and   *)
(* every choice of queues, retry limit and faults.                         *)
(***************************************************************************)
EXTENDS Delivery, TLAPS

-----------------------------------------------------------------------------
(* Lemmas about the helpers.                                               *)

LEMMA BumpType == \A n \in Counter : Bump(n) \in Counter
  BY BoundsAssumption DEF Bump, Counter

(* What update_delivery_status leaves in the two tables.                   *)
LEMMA UpdateType ==
  ASSUME NEW w \in Workers, NEW held \in Rows, NEW to \in Stored,
         NEW increment \in BOOLEAN,
         row \in [Deliveries -> Rows],
         tail \in [Deliveries -> [from: Status, to: Status]],
         Update(w, held, to, increment)
  PROVE  /\ row' \in [Deliveries -> Rows]
         /\ tail' \in [Deliveries -> [from: Status, to: Status]]
<1>1. to \in Status /\ held.status \in Status /\ held.retries \in Counter
  BY DEF Rows, Status
<1>2. Bump(held.retries) \in Counter
  BY <1>1, BumpType
<1>3. tail' \in [Deliveries -> [from: Status, to: Status]]
  BY <1>1 DEF Update
<1>4. row' \in [Deliveries -> Rows]
  BY <1>1, <1>2 DEF Update, Rows
<1> QED
  BY <1>3, <1>4

LEMMA PublishType ==
  ASSUME NEW d, NEW r,
         queue \in [Deliveries -> [Retries -> Nat]],
         Publish(d, r)
  PROVE  queue' \in [Deliveries -> [Retries -> Nat]]
<1>1. CASE d \in Deliveries /\ r \in Retries
  BY <1>1 DEF Publish
<1>2. CASE d \in Deliveries /\ r \notin Retries
  <2>1. [queue[d] EXCEPT ![r] = @ + 1] = queue[d]
    BY <1>2
  <2> QED
    BY <1>2, <2>1 DEF Publish
<1>3. CASE d \notin Deliveries
  BY <1>3 DEF Publish
<1> QED
  BY <1>1, <1>2, <1>3

-----------------------------------------------------------------------------
(* Type correctness.                                                       *)

(* Every variable keeps its type, and messages their holders.              *)
THEOREM TypeCorrect == Spec => []TypeOK
<1>1. Init => TypeOK
  BY BoundsAssumption, NoJobAssumption
     DEF Init, TypeOK, Rows, NoRow, Counter, Status, Stored, PCs, Retries
<1>2. TypeOK /\ [Next]_vars => TypeOK'
  <2> SUFFICES ASSUME TypeOK, [Next]_vars PROVE TypeOK'
    OBVIOUS
  <2> USE BoundsAssumption, NoJobAssumption
  <2>1. ASSUME NEW ds \in SUBSET Deliveries, CreateDeliveries(ds) PROVE TypeOK'
    <3>1. row' \in [Deliveries -> Rows]
      <4>1. [status |-> "PENDING", retries |-> 0] \in Rows
        BY DEF Rows, Counter, Status, Stored
      <4> QED
        BY <2>1, <4>1 DEF CreateDeliveries, TypeOK
    <3>2. tail' \in [Deliveries -> [from: Status, to: Status]] /\ unsent' \subseteq Deliveries
      BY <2>1 DEF CreateDeliveries, TypeOK, Status, Stored
    <3> QED
      BY <2>1, <3>1, <3>2 DEF CreateDeliveries, TypeOK, broker, worker, history
  <2>2. ASSUME NEW d \in Deliveries, ApplyAsync(d) PROVE TypeOK'
    <3>1. queue' \in [Deliveries -> [Retries -> Nat]]
      BY <2>2, PublishType DEF ApplyAsync, TypeOK
    <3> QED
      BY <2>2, <3>1 DEF ApplyAsync, TypeOK, worker, history
  <2>3. ASSUME NEW d \in Deliveries, Ages(d) PROVE TypeOK'
    BY <2>3 DEF Ages, TypeOK, broker, worker, history
  <2>4. CASE BeatTick
    BY <2>4 DEF BeatTick, TypeOK, db, worker, history
  <2>5. ASSUME NEW w \in Workers, TakeReconcile(w) PROVE TypeOK'
    <3>1. Stuck \subseteq Deliveries
      BY DEF Stuck, TypeOK
    <3> QED
      BY <2>5, <3>1 DEF TakeReconcile, TypeOK, Goto, PCs, db, history
  <2>6. ASSUME NEW w \in Workers, Step(w) PROVE TypeOK'
    <3>1. CASE FailUnsendable(w)
      <4>1. seen[w] \in Rows /\ "FAILED" \in Stored
        BY DEF TypeOK, Stored
      <4>2. /\ row' \in [Deliveries -> Rows]
            /\ tail' \in [Deliveries -> [from: Status, to: Status]]
        BY <3>1, <4>1, UpdateType DEF FailUnsendable, TypeOK
      <4> QED
        BY <3>1, <4>2 DEF FailUnsendable, TypeOK, Leave, Goto, PCs, Rows, NoRow, Counter, Status, Stored, broker, history
    <3>2. CASE MarkSent(w)
      <4>1. seen[w] \in Rows /\ "SENT" \in Stored
        BY DEF TypeOK, Stored
      <4>2. /\ row' \in [Deliveries -> Rows]
            /\ tail' \in [Deliveries -> [from: Status, to: Status]]
        BY <3>2, <4>1, UpdateType DEF MarkSent, TypeOK
      <4> QED
        BY <3>2, <4>2 DEF MarkSent, TypeOK, Goto, PCs, broker, history
    <3>3. CASE Refresh(w)
      <4>1. NoRow \in Rows
        BY DEF NoRow, Rows, Counter, Status, Stored
      <4>2. pc[w] = "marking" => row[job[w].d] \in Rows
        BY DEF TypeOK, Jobs
      <4>3. seen' \in [Workers -> Rows]
        BY <3>3, <4>1, <4>2 DEF Refresh, Leave, TypeOK
      <4>4. pc' \in [Workers -> PCs] /\ pc' = [pc EXCEPT ![w] = pc'[w]]
        BY <3>3 DEF Refresh, Leave, Goto, TypeOK, PCs
      <4>5. pc'[w] \in {"sending", "done"}
        BY <3>3 DEF Refresh, Leave, Goto, TypeOK
      <4> QED
        BY <3>3, <4>3, <4>4, <4>5 DEF Refresh, TypeOK, db, broker, history
    <3>4. CASE ProviderAccepts(w)
      BY <3>4, BumpType DEF ProviderAccepts, TypeOK, Goto, PCs, db, broker
    <3>5. CASE ProviderRefuses(w)
      BY <3>5, BumpType DEF ProviderRefuses, TypeOK, Goto, PCs, db, broker
    <3>6. CASE MarkDelivered(w)
      <4>1. seen[w] \in Rows /\ "DELIVERED" \in Stored
        BY DEF TypeOK, Stored
      <4>2. /\ row' \in [Deliveries -> Rows]
            /\ tail' \in [Deliveries -> [from: Status, to: Status]]
        BY <3>6, <4>1, UpdateType DEF MarkDelivered, TypeOK
      <4> QED
        BY <3>6, <4>2 DEF MarkDelivered, TypeOK, Goto, PCs, broker, history
    <3>7. CASE MarkFailed(w)
      <4>1. seen[w] \in Rows /\ "FAILED" \in Stored
        BY DEF TypeOK, Stored
      <4>2. /\ row' \in [Deliveries -> Rows]
            /\ tail' \in [Deliveries -> [from: Status, to: Status]]
        BY <3>7, <4>1, UpdateType DEF MarkFailed, TypeOK
      <4> QED
        BY <3>7, <4>2 DEF MarkFailed, TypeOK, Leave, Goto, PCs, Rows, NoRow, Counter, Status, Stored, broker, history
    <3>8. CASE MarkPending(w)
      <4>1. seen[w] \in Rows /\ "PENDING" \in Stored
        BY DEF TypeOK, Stored
      <4>2. /\ row' \in [Deliveries -> Rows]
            /\ tail' \in [Deliveries -> [from: Status, to: Status]]
        BY <3>8, <4>1, UpdateType DEF MarkPending, TypeOK
      <4> QED
        BY <3>8, <4>2 DEF MarkPending, TypeOK, Goto, PCs, broker, history
    <3>9. CASE PublishRetry(w)
      <4>1. NoRow \in Rows
        BY DEF NoRow, Rows, Counter, Status, Stored
      <4>2. queue' \in [Deliveries -> [Retries -> Nat]]
        BY <3>9, PublishType DEF PublishRetry, TypeOK
      <4> QED
        BY <3>9, <4>1, <4>2 DEF PublishRetry, TypeOK, Leave, Goto, PCs, db, history
    <3>10. CASE Acknowledge(w)
      BY <3>10 DEF Acknowledge, TypeOK, Goto, PCs, db, broker, history
    <3>11. ASSUME NEW d \in Deliveries, Requeue(w, d) PROVE TypeOK'
      <4>1. queue' \in [Deliveries -> [Retries -> Nat]]
        BY <3>11, PublishType DEF Requeue, TypeOK
      <4> QED
        BY <3>11, <4>1 DEF Requeue, TypeOK, Goto, PCs, db, history
    <3>12. CASE MarkFatal(w)
      <4>1. seen[w] \in Rows /\ NoRow \in Rows /\ "FAILED" \in Stored
        BY DEF TypeOK, NoRow, Rows, Counter, Status, Stored
      <4>2. /\ row' \in [Deliveries -> Rows]
            /\ tail' \in [Deliveries -> [from: Status, to: Status]]
        BY <3>12, <4>1, UpdateType DEF MarkFatal, TypeOK
      <4> QED
        BY <3>12, <4>1, <4>2 DEF MarkFatal, TypeOK, Leave, Goto, PCs, broker, history
    <3> QED
      BY <2>6, <3>1, <3>2, <3>3, <3>4, <3>5, <3>6, <3>7, <3>8, <3>9, <3>10, <3>11, <3>12 DEF Step
  <2>7. ASSUME NEW d \in Deliveries, NEW r \in Retries, NEW w \in Workers, Take(w, d, r)
        PROVE  TypeOK'
    <3>1. NoRow \in Rows
      BY DEF NoRow, Rows, Counter, Status, Stored
    <3>2. queue' \in [Deliveries -> [Retries -> Nat]]
      BY <2>7 DEF Take, TypeOK
    <3>3. [d |-> d, r |-> r] \in Jobs
      BY DEF Jobs
    <3>4. seen' \in [Workers -> Rows]
      BY <2>7, <3>1 DEF Take, TypeOK, Leave
    <3>5. job' \in [Workers -> Jobs \cup {NoJob}] /\ job'[w] # NoJob
          /\ job' = [job EXCEPT ![w] = job'[w]]
      BY <2>7, <3>3 DEF Take, TypeOK
    <3>6. pc'[w] \in {"rejecting", "loaded", "done"} /\ pc' = [pc EXCEPT ![w] = pc'[w]]
      BY <2>7 DEF Take, TypeOK, Leave, Goto
    <3>7. pc' \in [Workers -> PCs]
      BY <3>6 DEF TypeOK, PCs
    <3>8. pc[w] = "idle" /\ UNCHANGED <<db, beatQueue, todo, history>>
      BY <2>7 DEF Take
    <3> QED
      BY <3>2, <3>4, <3>5, <3>6, <3>7, <3>8 DEF TypeOK, db, history
  <2>8. ASSUME NEW d \in Deliveries, TemplateLost(d) PROVE TypeOK'
    BY <2>8 DEF TemplateLost, TypeOK, broker, worker, history
  <2>14. ASSUME NEW ds \in SUBSET Deliveries, EnqueueLost(ds) PROVE TypeOK'
    BY <2>14 DEF EnqueueLost, Fault, TypeOK, broker, worker
  <2>9. ASSUME NEW w \in Workers, ChildLost(w) \/ ReconcileFails(w) PROVE TypeOK'
    <3>1. NoRow \in Rows
      BY DEF NoRow, Rows, Counter, Status, Stored
    <3>2. /\ pc' = [pc EXCEPT ![w] = "idle"]
          /\ job' = [job EXCEPT ![w] = NoJob]
          /\ seen' = [seen EXCEPT ![w] = NoRow]
          /\ todo' = [todo EXCEPT ![w] = {}]
      BY <2>9 DEF ChildLost, ReconcileFails, Drop, Goto
    <3>3. pc' \in [Workers -> PCs] /\ seen' \in [Workers -> Rows]
      BY <3>1, <3>2 DEF TypeOK, PCs
    <3>4. /\ job' \in [Workers -> Jobs \cup {NoJob}]
          /\ todo' \in [Workers -> SUBSET Deliveries]
          /\ \A v \in Workers : /\ (job'[v] = NoJob) <=> (pc'[v] \in {"idle", "reconciling"})
                                /\ (todo'[v] # {}) <=> (pc'[v] = "reconciling")
      BY <3>2 DEF TypeOK
    <3> QED
      BY <2>9, <3>2, <3>3, <3>4 DEF ChildLost, ReconcileFails, Fault, TypeOK, db, broker
  <2>10. ASSUME NEW w \in Workers, NodeLost(w) \/ VisibilityTimeout(w) PROVE TypeOK'
    <3>1. NoRow \in Rows
      BY DEF NoRow, Rows, Counter, Status, Stored
    <3>2. queue' \in [Deliveries -> [Retries -> Nat]]
      BY <2>10, PublishType DEF NodeLost, VisibilityTimeout, TypeOK
    <3>3. CASE NodeLost(w)
      BY <3>1, <3>2, <3>3 DEF NodeLost, Fault, Drop, Goto, TypeOK, PCs, db
    <3>4. CASE VisibilityTimeout(w)
      BY <3>2, <3>4 DEF VisibilityTimeout, Fault, TypeOK, db, worker
    <3> QED
      BY <2>10, <3>3, <3>4
  <2>11. ASSUME NEW w \in Workers, RaiseOut(w) PROVE TypeOK'
    BY <2>11 DEF RaiseOut, Fault, Leave, Goto, TypeOK, PCs, Rows, NoRow, Counter, Status, Stored, db, broker
  <2>12. ASSUME NEW w \in Workers, RefreshFails(w) PROVE TypeOK'
    <3>1. row[job[w].d] \in Rows
      BY <2>12 DEF RefreshFails, TypeOK, Jobs
    <3> QED
      BY <2>12, <3>1 DEF RefreshFails, Fault, Goto, TypeOK, PCs, db, broker
  <2>13. CASE UNCHANGED vars
    BY <2>13 DEF vars, TypeOK
  <2> QED
    BY <2>1, <2>2, <2>3, <2>4, <2>5, <2>6, <2>7, <2>8, <2>9, <2>10, <2>11, <2>12, <2>13, <2>14
       DEF Next, Web, TakeMessage, Environment
<1> QED
  BY <1>1, <1>2, PTL DEF Spec


(* A busy worker holds a message that names a delivery.                    *)
LEMMA BusyHoldsJob ==
  ASSUME TypeOK, NEW w \in Workers, pc[w] \notin {"idle", "reconciling"}
  PROVE  /\ job[w] # NoJob
         /\ job[w] \in Jobs
         /\ job[w].d \in Deliveries
         /\ job[w].r \in Retries
  BY DEF TypeOK, Jobs

(* The histories and the fault count only grow.                            *)
LEMMA BumpGrows == \A n \in Counter : n <= Bump(n) /\ (n < CounterCap => n < Bump(n))
  BY BoundsAssumption DEF Bump, Counter

-----------------------------------------------------------------------------
(* DELIVERED only after the provider accepted.                             *)

(* A worker about to record an acceptance has received it.                 *)
AnswerKept == \A w \in Workers : pc[w] = "accepted" => accepted[job[w].d] > 0

(* DELIVERED only after an acceptance.                                     *)
THEOREM DeliveredCorrect == Spec => []DeliveredMeansAccepted
<1> DEFINE Inv == DeliveredMeansAccepted /\ AnswerKept
<1>1. Init => Inv
  BY DEF Init, DeliveredMeansAccepted, AnswerKept, NoRow
<1>2. TypeOK /\ Inv /\ [Next]_vars => Inv'
  <2> SUFFICES ASSUME TypeOK, Inv, [Next]_vars PROVE Inv'
    OBVIOUS
  <2>0. /\ accepted \in [Deliveries -> Nat]
        /\ \A d \in Deliveries : row[d].status = "DELIVERED" => accepted[d] > 0
        /\ \A w \in Workers : pc[w] = "accepted" => accepted[job[w].d] > 0
    BY BoundsAssumption DEF TypeOK, Counter, DeliveredMeansAccepted, AnswerKept
  <2>1. ASSUME NEW ds \in SUBSET Deliveries, CreateDeliveries(ds) PROVE Inv'
    BY <2>1 DEF CreateDeliveries, DeliveredMeansAccepted, AnswerKept, TypeOK, worker, history
  <2>2. ASSUME UNCHANGED <<row, pc, job, accepted>> PROVE Inv'
    BY <2>2 DEF DeliveredMeansAccepted, AnswerKept
  <2>3. ASSUME UNCHANGED accepted,
               \A d \in Deliveries : row'[d].status = row[d].status \/ row'[d].status # "DELIVERED",
               \A v \in Workers : pc'[v] = "accepted" => pc[v] = "accepted" /\ job'[v] = job[v]
        PROVE Inv'
    BY <2>3 DEF DeliveredMeansAccepted, AnswerKept
  <2>4. ASSUME NEW w \in Workers, Step(w) PROVE Inv'
    <3>1. CASE FailUnsendable(w)
      <4>1. Update(w, seen[w], "FAILED", FALSE)
        BY <3>1 DEF FailUnsendable
      <4>2. \A d \in Deliveries : row'[d].status = row[d].status \/ row'[d].status = "FAILED"
        BY <4>1 DEF Update, TypeOK, Rows
      <4> QED
        BY <2>3, <3>1, <4>2 DEF FailUnsendable, Leave, Goto, TypeOK, history
    <3>2. CASE MarkSent(w)
      <4>1. Update(w, seen[w], "SENT", FALSE)
        BY <3>2 DEF MarkSent
      <4>2. \A d \in Deliveries : row'[d].status = row[d].status \/ row'[d].status = "SENT"
        BY <4>1 DEF Update, TypeOK, Rows
      <4> QED
        BY <2>3, <3>2, <4>2 DEF MarkSent, Goto, TypeOK, history
    <3>3. CASE Refresh(w)
      BY <2>3, <3>3 DEF Refresh, Leave, Goto, TypeOK, db, history
    <3>4. CASE ProviderAccepts(w)
      <4>1. job[w].d \in Deliveries
        BY <3>4, BusyHoldsJob DEF ProviderAccepts
      <4>2. \A d \in Deliveries : accepted'[d] = accepted[d] \/ accepted'[d] > 0
        BY <2>0, <3>4, <4>1, BoundsAssumption DEF ProviderAccepts, Bump, TypeOK
      <4>3. accepted'[job[w].d] > 0
        BY <2>0, <3>4, <4>1, BoundsAssumption DEF ProviderAccepts, Bump, TypeOK
      <4>4. \A v \in Workers : pc[v] = "accepted" => job[v].d \in Deliveries
        BY BusyHoldsJob
      <4> QED
        BY <2>0, <3>4, <4>1, <4>2, <4>3, <4>4
           DEF ProviderAccepts, Goto, TypeOK, DeliveredMeansAccepted, AnswerKept, db
    <3>5. CASE ProviderRefuses(w)
      BY <2>3, <3>5 DEF ProviderRefuses, Goto, TypeOK, db
    <3>6. CASE MarkDelivered(w)
      <4>1. Update(w, seen[w], "DELIVERED", FALSE)
        BY <3>6 DEF MarkDelivered
      <4>2. \A d \in Deliveries : row'[d].status = row[d].status \/ d = job[w].d
        BY <4>1 DEF Update, TypeOK, Rows
      <4>3. accepted[job[w].d] > 0
        BY <2>0, <3>6 DEF MarkDelivered
      <4> QED
        BY <2>0, <3>6, <4>2, <4>3 DEF MarkDelivered, Goto, TypeOK, DeliveredMeansAccepted, AnswerKept, history
    <3>7. CASE MarkFailed(w)
      <4>1. Update(w, seen[w], "FAILED", TRUE)
        BY <3>7 DEF MarkFailed
      <4>2. \A d \in Deliveries : row'[d].status = row[d].status \/ row'[d].status = "FAILED"
        BY <4>1 DEF Update, TypeOK, Rows
      <4> QED
        BY <2>3, <3>7, <4>2 DEF MarkFailed, Leave, Goto, TypeOK, history
    <3>8. CASE MarkPending(w)
      <4>1. Update(w, seen[w], "PENDING", TRUE)
        BY <3>8 DEF MarkPending
      <4>2. \A d \in Deliveries : row'[d].status = row[d].status \/ row'[d].status = "PENDING"
        BY <4>1 DEF Update, TypeOK, Rows
      <4> QED
        BY <2>3, <3>8, <4>2 DEF MarkPending, Goto, TypeOK, history
    <3>9. CASE PublishRetry(w)
      BY <2>3, <3>9 DEF PublishRetry, Leave, Goto, TypeOK, db, history
    <3>10. CASE Acknowledge(w)
      BY <2>3, <3>10 DEF Acknowledge, Goto, TypeOK, db, history
    <3>11. ASSUME NEW d \in Deliveries, Requeue(w, d) PROVE Inv'
      BY <2>3, <3>11 DEF Requeue, Goto, TypeOK, db, history
    <3>12. CASE MarkFatal(w)
      <4>1. Update(w, seen[w], "FAILED", FALSE)
        BY <3>12 DEF MarkFatal
      <4>2. \A d \in Deliveries : row'[d].status = row[d].status \/ row'[d].status = "FAILED"
        BY <4>1 DEF Update, TypeOK, Rows
      <4> QED
        BY <2>3, <3>12, <4>2 DEF MarkFatal, Leave, Goto, TypeOK, history
    <3> QED
      BY <2>4, <3>1, <3>2, <3>3, <3>4, <3>5, <3>6, <3>7, <3>8, <3>9, <3>10, <3>11, <3>12 DEF Step
  <2>5. ASSUME NEW w \in Workers, NEW d \in Deliveries, NEW r \in Retries, Take(w, d, r)
        PROVE Inv'
    <3>1. /\ UNCHANGED <<row, accepted>>
          /\ pc[w] = "idle"
          /\ \E label \in {"done", "rejecting", "loaded"} : pc' = [pc EXCEPT ![w] = label]
          /\ \A v \in Workers : v # w => job'[v] = job[v]
      BY <2>5 DEF Take, Leave, Goto, TypeOK, db, history
    <3> QED
      BY <2>3, <3>1 DEF TypeOK
  <2>6. ASSUME NEW w \in Workers, TakeReconcile(w) PROVE Inv'
    BY <2>3, <2>6 DEF TakeReconcile, Goto, TypeOK, db, history
  <2>7. ASSUME NEW w \in Workers, ChildLost(w) \/ NodeLost(w) \/ ReconcileFails(w) PROVE Inv'
    BY <2>3, <2>7 DEF ChildLost, NodeLost, ReconcileFails, Drop, Goto, TypeOK, db
  <2>8. ASSUME NEW w \in Workers, RaiseOut(w) \/ RefreshFails(w) PROVE Inv'
    BY <2>3, <2>8 DEF RaiseOut, RefreshFails, Leave, Goto, TypeOK, db
  <2> QED
    <3>1. ASSUME NEW d \in Deliveries, ApplyAsync(d) \/ Ages(d) \/ TemplateLost(d)
          PROVE Inv'
      BY <2>2, <3>1 DEF ApplyAsync, Ages, TemplateLost, worker, history
    <3>4. ASSUME NEW ds \in SUBSET Deliveries, EnqueueLost(ds) PROVE Inv'
      BY <2>2, <3>4 DEF EnqueueLost, worker
    <3>2. CASE BeatTick \/ UNCHANGED vars
      BY <2>2, <3>2 DEF BeatTick, db, worker, history, vars
    <3>3. ASSUME NEW w \in Workers, VisibilityTimeout(w) PROVE Inv'
      BY <2>2, <3>3 DEF VisibilityTimeout, db, worker
    <3> QED
      BY <2>1, <2>4, <2>5, <2>6, <2>7, <2>8, <3>1, <3>2, <3>3, <3>4
         DEF Next, Web, TakeMessage, Environment
<1>3. Inv => DeliveredMeansAccepted
  OBVIOUS
<1> QED
  BY <1>1, <1>2, <1>3, TypeCorrect, PTL DEF Spec

=============================================================================
