------------------------ MODULE DeliverySerialProofs ------------------------
(***************************************************************************)
(* Deliveries that no two tasks work on at the same time: a provider       *)
(* accepts them at most once, their log is a chain that ends at the status *)
(* of the row, and their rows implement DeliveryLifecycle.                 *)
(*                                                                         *)
(* The condition, Exclusive, is itself proved for the two deployments that *)
(* guarantee it: a pool of one process, and one message per delivery,      *)
(* which is what the worker of docker-compose.yml gets as long as the      *)
(* broker redelivers nothing.                                              *)
(***************************************************************************)
EXTENDS DeliveryInvariants

(* A task that has not returned; afterwards its message only waits for the *)
(* acknowledgement.                                                        *)
Active(w, d) == Handles(w, d) /\ pc[w] # "done"

Exclusive ==
  \A d \in Deliveries, w, v \in Workers : Active(w, d) /\ Active(v, d) => w = v

-----------------------------------------------------------------------------
(* What is true of a row, and of a worker and the row it works on.         *)

Unanswered(d) == accepted[d] = 0 /\ refused[d] = row[d].retries

RowOK(d) ==
  /\ row[d].status \in {"NONE", "PENDING"} => Unanswered(d)
  /\ row[d].status = "DELIVERED" => accepted[d] = 1
  /\ accepted[d] <= 1
  /\ tail[d].to = row[d].status

(* The session's copy is the row itself wherever an update relies on it,   *)
(* and the provider is asked only about a row it has not answered.         *)
HeldOK(w) ==
  /\ pc[w] \in {"rejecting", "loaded"} => row[job[w].d].status = "PENDING"
  /\ pc[w] \in {"marking", "sending", "accepted", "refused"} => row[job[w].d].status = "SENT"
  /\ pc[w] \in {"rejecting", "loaded", "sending", "accepted", "refused", "failing"} =>
       seen[w] = row[job[w].d]
  /\ pc[w] \in {"marking", "sending"} => Unanswered(job[w].d)
  /\ pc[w] = "accepted" => accepted[job[w].d] = 1
  /\ pc[w] = "refused" =>
       accepted[job[w].d] = 0 /\ refused[job[w].d] = Bump(row[job[w].d].retries)
  /\ pc[w] = "delivered" => row[job[w].d].status = "DELIVERED"

SerialInv == (\A d \in Deliveries : RowOK(d)) /\ (\A w \in Workers : HeldOK(w))

-----------------------------------------------------------------------------
(* A step that leaves the rows and the answers alone, and the workers too, *)
(* except those it sends to a place where nothing is claimed.              *)
LEMMA QuietKeeps ==
  ASSUME SerialInv, UNCHANGED <<row, tail, accepted, refused>>,
         \A w \in Workers :
           \/ pc'[w] = pc[w] /\ job'[w] = job[w] /\ seen'[w] = seen[w]
           \/ pc'[w] \in {"idle", "reconciling", "requeue", "done"}
           \/ HeldOK(w)'
  PROVE  SerialInv'
<1>1. \A d \in Deliveries : RowOK(d)'
  BY DEF SerialInv, RowOK, Unanswered
<1>2. ASSUME NEW w \in Workers PROVE HeldOK(w)'
  <2>1. HeldOK(w)
    BY DEF SerialInv
  <2>2. CASE pc'[w] = pc[w] /\ job'[w] = job[w] /\ seen'[w] = seen[w]
    BY <2>1, <2>2 DEF HeldOK, Unanswered
  <2>3. CASE pc'[w] \in {"idle", "reconciling", "requeue", "done"}
    BY <2>3 DEF HeldOK
  <2> QED
    BY <2>2, <2>3
<1> QED
  BY <1>1, <1>2 DEF SerialInv

(* A step of a worker that touches no delivery but its own touches nobody  *)
(* else's.                                                                 *)
LEMMA OwnStepKeeps ==
  ASSUME TypeOK, Exclusive, SerialInv,
         NEW w \in Workers, pc[w] \notin {"idle", "reconciling", "done"},
         NEW d \in Deliveries, d = job[w].d,
         \A v \in Workers \ {w} : pc'[v] = pc[v] /\ job'[v] = job[v] /\ seen'[v] = seen[v],
         \A e \in Deliveries \ {d} :
           /\ row'[e] = row[e] /\ tail'[e] = tail[e]
           /\ accepted'[e] = accepted[e] /\ refused'[e] = refused[e],
         RowOK(d)', HeldOK(w)'
  PROVE  SerialInv'
<1>1. ASSUME NEW e \in Deliveries, e # d PROVE RowOK(e)'
  BY <1>1 DEF SerialInv, RowOK, Unanswered
<1>2. ASSUME NEW v \in Workers, v # w PROVE HeldOK(v)'
  <2>1. CASE pc[v] \in {"idle", "reconciling", "done"}
    BY <1>2, <2>1 DEF HeldOK
  <2>2. CASE pc[v] \notin {"idle", "reconciling", "done"}
    <3>1. job[v].d \in Deliveries /\ job[v] # NoJob /\ job[w] # NoJob
      BY <2>2, BusyHoldsJob
    <3>2. job[v].d # d
      BY <1>2, <2>2, <3>1 DEF Exclusive, Active, Handles
    <3>3. HeldOK(v)
      BY DEF SerialInv
    <3> QED
      BY <1>2, <3>1, <3>2, <3>3 DEF HeldOK, Unanswered
  <2> QED
    BY <2>1, <2>2
<1> QED
  BY <1>1, <1>2 DEF SerialInv

(* update_delivery_status with a copy that is the row.                     *)
LEMMA UpdateExact ==
  ASSUME TypeOK, NEW w \in Workers, job[w].d \in Deliveries, NEW to, NEW increment \in BOOLEAN,
         Update(w, row[job[w].d], to, increment)
  PROVE  /\ row'[job[w].d].status = to
         /\ row'[job[w].d].retries = IF increment THEN Bump(row[job[w].d].retries)
                                                  ELSE row[job[w].d].retries
         /\ tail'[job[w].d] = [from |-> row[job[w].d].status, to |-> to]
         /\ \A d \in Deliveries \ {job[w].d} : row'[d] = row[d] /\ tail'[d] = tail[d]
<1>1. row[job[w].d] \in Rows
  BY DEF TypeOK
<1>2. /\ row'[job[w].d].status = to
      /\ row'[job[w].d].retries = IF increment THEN Bump(row[job[w].d].retries)
                                               ELSE row[job[w].d].retries
  BY <1>1 DEF Update, TypeOK, Rows
<1>3. tail'[job[w].d] = [from |-> row[job[w].d].status, to |-> to]
  BY DEF Update, TypeOK
<1>4. \A d \in Deliveries \ {job[w].d} : row'[d] = row[d] /\ tail'[d] = tail[d]
  BY DEF Update, TypeOK
<1> QED
  BY <1>2, <1>3, <1>4

(* Every write of a task starts from the row as it is, and moves it on.    *)
LEMMA WriteExact ==
  ASSUME TypeOK, SerialInv, NEW w \in Workers, NEW to, Writes(w, to)
  PROVE  /\ job[w] # NoJob /\ job[w].d \in Deliveries
         /\ pc[w] \notin {"idle", "reconciling", "done"}
         /\ row'[job[w].d].status = to
         /\ row'[job[w].d].retries = IF pc[w] = "refused" THEN Bump(row[job[w].d].retries)
                                                          ELSE row[job[w].d].retries
         /\ tail'[job[w].d] = [from |-> row[job[w].d].status, to |-> to]
         /\ \A d \in Deliveries \ {job[w].d} : row'[d] = row[d] /\ tail'[d] = tail[d]
         /\ UNCHANGED <<accepted, refused>>
         /\ \A v \in Workers \ {w} : pc'[v] = pc[v] /\ job'[v] = job[v] /\ seen'[v] = seen[v]
<1>1. job[w] # NoJob /\ job[w].d \in Deliveries /\ pc[w] \notin {"idle", "reconciling", "done"}
  BY BusyHoldsJob DEF Writes, FailUnsendable, MarkFailed, MarkSent, MarkDelivered, MarkPending, MarkFatal
<1>2. Update(w, row[job[w].d], to, pc[w] = "refused")
  <2>1. /\ pc[w] \in {"rejecting", "loaded", "accepted", "refused", "failing"}
        /\ \/ pc[w] = "refused" /\ Update(w, seen[w], to, TRUE)
           \/ pc[w] # "refused" /\ Update(w, seen[w], to, FALSE)
    BY DEF Writes, FailUnsendable, MarkFailed, MarkSent, MarkDelivered, MarkPending, MarkFatal
  <2>2. seen[w] = row[job[w].d]
    BY <2>1 DEF SerialInv, HeldOK
  <2>3. CASE pc[w] = "refused"
    BY <2>1, <2>2, <2>3
  <2>4. CASE pc[w] # "refused"
    BY <2>1, <2>2, <2>4
  <2> QED
    BY <2>3, <2>4
<1>3. UNCHANGED <<accepted, refused>>
  BY DEF Writes, FailUnsendable, MarkFailed, MarkSent, MarkDelivered, MarkPending, MarkFatal, history
<1>4. \A v \in Workers \ {w} : pc'[v] = pc[v] /\ job'[v] = job[v] /\ seen'[v] = seen[v]
  BY DEF Writes, FailUnsendable, MarkFailed, MarkSent, MarkDelivered, MarkPending, MarkFatal,
         Leave, Goto, TypeOK
<1>5. (pc[w] = "refused") \in BOOLEAN
  OBVIOUS
<1>6. /\ row'[job[w].d].status = to
      /\ row'[job[w].d].retries = IF pc[w] = "refused" THEN Bump(row[job[w].d].retries)
                                                       ELSE row[job[w].d].retries
      /\ tail'[job[w].d] = [from |-> row[job[w].d].status, to |-> to]
      /\ \A d \in Deliveries \ {job[w].d} : row'[d] = row[d] /\ tail'[d] = tail[d]
  BY <1>1, <1>2, <1>5, UpdateExact, Zenon
<1> QED
  BY <1>1, <1>3, <1>4, <1>6

-----------------------------------------------------------------------------
(* The writes of a task, one by one.                                       *)
LEMMA WriteKeeps ==
  ASSUME TypeOK, Exclusive, SerialInv, NEW w \in Workers, NEW to, Writes(w, to)
  PROVE  SerialInv'
<1>0. PICK d \in Deliveries : d = job[w].d
  BY WriteExact
<1>1. /\ pc[w] \notin {"idle", "reconciling", "done"}
      /\ row'[d].status = to /\ tail'[d].to = to
      /\ row'[d].retries = IF pc[w] = "refused" THEN Bump(row[d].retries) ELSE row[d].retries
      /\ accepted' = accepted /\ refused' = refused
  <2>1. tail'[d] = [from |-> row[d].status, to |-> to]
    BY <1>0, WriteExact, Zenon
  <2> QED
    BY <1>0, <2>1, WriteExact
<1>2. /\ \A v \in Workers \ {w} : pc'[v] = pc[v] /\ job'[v] = job[v] /\ seen'[v] = seen[v]
      /\ \A e \in Deliveries \ {d} :
           /\ row'[e] = row[e] /\ tail'[e] = tail[e]
           /\ accepted'[e] = accepted[e] /\ refused'[e] = refused[e]
  BY <1>0, <1>1, WriteExact
<1>3. RowOK(d) /\ HeldOK(w)
  BY DEF SerialInv
<1>4. CASE FailUnsendable(w) \/ MarkFailed(w) \/ MarkFatal(w)
  <2>1. to = "FAILED" /\ pc'[w] = "done"
    BY <1>4 DEF Writes, FailUnsendable, MarkFailed, MarkFatal, MarkSent, MarkDelivered,
                MarkPending, Leave, Goto, TypeOK
  <2>2. RowOK(d)' /\ HeldOK(w)'
    BY <1>0, <1>1, <1>3, <2>1 DEF RowOK, HeldOK
  <2> QED
    BY <1>0, <1>1, <1>2, <2>2, OwnStepKeeps
<1>5. CASE MarkSent(w)
  <2>1. to = "SENT" /\ pc[w] = "loaded" /\ pc'[w] = "marking" /\ job'[w] = job[w]
    BY <1>5 DEF Writes, FailUnsendable, MarkFailed, MarkFatal, MarkSent, MarkDelivered,
                MarkPending, Goto, TypeOK
  <2>2. Unanswered(d)
    BY <1>0, <1>3, <2>1 DEF RowOK, HeldOK
  <2>3. RowOK(d)' /\ HeldOK(w)'
    BY <1>0, <1>1, <1>3, <2>1, <2>2 DEF RowOK, HeldOK, Unanswered
  <2> QED
    BY <1>0, <1>1, <1>2, <2>3, OwnStepKeeps
<1>6. CASE MarkDelivered(w)
  <2>1. to = "DELIVERED" /\ pc[w] = "accepted" /\ pc'[w] = "delivered" /\ job'[w] = job[w]
    BY <1>6 DEF Writes, FailUnsendable, MarkFailed, MarkFatal, MarkSent, MarkDelivered,
                MarkPending, Goto, TypeOK
  <2>2. RowOK(d)' /\ HeldOK(w)'
    BY <1>0, <1>1, <1>3, <2>1 DEF RowOK, HeldOK, Unanswered
  <2> QED
    BY <1>0, <1>1, <1>2, <2>2, OwnStepKeeps
<1>7. CASE MarkPending(w)
  <2>1. to = "PENDING" /\ pc[w] = "refused" /\ pc'[w] = "requeue" /\ job'[w] = job[w]
    BY <1>7 DEF Writes, FailUnsendable, MarkFailed, MarkFatal, MarkSent, MarkDelivered,
                MarkPending, Goto, TypeOK
  <2>2. RowOK(d)' /\ HeldOK(w)'
    BY <1>0, <1>1, <1>3, <2>1 DEF RowOK, HeldOK, Unanswered
  <2> QED
    BY <1>0, <1>1, <1>2, <2>2, OwnStepKeeps
<1> QED
  BY <1>4, <1>5, <1>6, <1>7 DEF Writes

(* What the provider answers, which the rows do not show yet.              *)
LEMMA AnswerKeeps ==
  ASSUME TypeOK, Exclusive, SerialInv, NEW w \in Workers,
         ProviderAccepts(w) \/ ProviderRefuses(w)
  PROVE  SerialInv'
<1>0. PICK d \in Deliveries : d = job[w].d
  BY BusyHoldsJob DEF ProviderAccepts, ProviderRefuses
<1>1. pc[w] = "sending"
  BY DEF ProviderAccepts, ProviderRefuses
<1>2. /\ \A v \in Workers \ {w} : pc'[v] = pc[v]
      /\ UNCHANGED <<job, seen, row, tail>>
      /\ \A e \in Deliveries \ {d} : accepted'[e] = accepted[e] /\ refused'[e] = refused[e]
  BY <1>0 DEF ProviderAccepts, ProviderRefuses, Goto, TypeOK, db
<1>3. RowOK(d) /\ row[d].status = "SENT" /\ seen[w] = row[d] /\ Unanswered(d)
  BY <1>0, <1>1 DEF SerialInv, HeldOK
<1>4. Bump(0) = 1
  BY BoundsAssumption DEF Bump
<1>5. CASE ProviderAccepts(w)
  <2>1. pc'[w] = "accepted" /\ accepted'[d] = 1
    BY <1>0, <1>1, <1>3, <1>4, <1>5 DEF ProviderAccepts, Goto, TypeOK, Unanswered
  <2>2. RowOK(d)' /\ HeldOK(w)'
    BY <1>0, <1>2, <1>3, <2>1 DEF RowOK, HeldOK
  <2> QED
    BY <1>0, <1>1, <1>2, <2>2, OwnStepKeeps
<1>6. CASE ProviderRefuses(w)
  <2>1. pc'[w] = "refused" /\ accepted'[d] = 0 /\ refused'[d] = Bump(row[d].retries)
    BY <1>0, <1>1, <1>3, <1>6 DEF ProviderRefuses, Goto, TypeOK, Unanswered
  <2>2. RowOK(d)' /\ HeldOK(w)'
    BY <1>0, <1>2, <1>3, <2>1 DEF RowOK, HeldOK
  <2> QED
    BY <1>0, <1>1, <1>2, <2>2, OwnStepKeeps
<1> QED
  BY <1>5, <1>6

(* The rows that a request creates are in nobody's hands.                  *)
LEMMA CreateKeeps ==
  ASSUME TypeOK, NoPhantomTask, SerialInv, NEW ds \in SUBSET Deliveries, CreateDeliveries(ds)
  PROVE  SerialInv'
<1>1. ASSUME NEW d \in Deliveries PROVE RowOK(d)'
  <2>1. CASE d \in ds
    BY <2>1 DEF CreateDeliveries, SerialInv, RowOK, Unanswered, NoRow, history
  <2>2. CASE d \notin ds
    BY <2>2 DEF CreateDeliveries, SerialInv, RowOK, Unanswered, history
  <2> QED
    BY <2>1, <2>2
<1>2. ASSUME NEW w \in Workers PROVE HeldOK(w)'
  <2>1. HeldOK(w) /\ pc'[w] = pc[w] /\ job'[w] = job[w] /\ seen'[w] = seen[w]
    BY DEF SerialInv, CreateDeliveries, worker
  <2>2. CASE pc[w] \in {"idle", "reconciling"}
    BY <2>1, <2>2 DEF HeldOK
  <2>3. CASE pc[w] \notin {"idle", "reconciling"}
    <3>1. job[w].d \in Deliveries /\ row[job[w].d].status # "NONE"
      BY <2>3, BusyHoldsJob DEF NoPhantomTask, HeldHasRow
    <3>2. row'[job[w].d] = row[job[w].d]
      BY <3>1 DEF CreateDeliveries, NoRow
    <3>3. UNCHANGED <<accepted, refused>>
      BY DEF CreateDeliveries, history
    <3> QED
      BY <2>1, <3>2, <3>3 DEF HeldOK, Unanswered
  <2> QED
    BY <2>2, <2>3
<1> QED
  BY <1>1, <1>2 DEF SerialInv

LEMMA SerialStep ==
  ASSUME TypeOK, NoPhantomTask, Exclusive, SerialInv, [Next]_vars
  PROVE  SerialInv'
<1>1. ASSUME NEW ds \in SUBSET Deliveries, CreateDeliveries(ds) PROVE SerialInv'
  BY <1>1, CreateKeeps
<1>2. ASSUME NEW d \in Deliveries, ApplyAsync(d) \/ Ages(d) \/ TemplateLost(d)
      PROVE  SerialInv'
  BY <1>2, QuietKeeps DEF ApplyAsync, Ages, TemplateLost, worker, history
<1>3. ASSUME NEW ds \in SUBSET Deliveries, EnqueueLost(ds) PROVE SerialInv'
  BY <1>3, QuietKeeps DEF EnqueueLost, worker
<1>4. CASE BeatTick \/ UNCHANGED vars
  BY <1>4, QuietKeeps DEF BeatTick, db, worker, history, vars
<1>5. ASSUME NEW w \in Workers, NEW to, Writes(w, to)
      PROVE  SerialInv'
  BY <1>5, WriteKeeps
<1>6. ASSUME NEW w \in Workers, ProviderAccepts(w) \/ ProviderRefuses(w) PROVE SerialInv'
  BY <1>6, AnswerKeeps
<1>7. ASSUME NEW w \in Workers, Refresh(w) PROVE SerialInv'
  <2>1. \A v \in Workers \ {w} : pc'[v] = pc[v] /\ job'[v] = job[v] /\ seen'[v] = seen[v]
    BY <1>7 DEF Refresh, Leave, Goto, TypeOK
  <2>2. UNCHANGED <<row, tail, job, accepted, refused>>
    BY <1>7 DEF Refresh, db, history
  <2>3. CASE pc[w] = "marking"
    <3>1. pc'[w] = "sending" /\ seen'[w] = row[job[w].d]
      BY <1>7, <2>3 DEF Refresh, Goto, TypeOK
    <3>2. HeldOK(w)'
      BY <2>2, <2>3, <3>1 DEF SerialInv, HeldOK, Unanswered
    <3> QED
      BY <2>1, <2>2, <3>2, QuietKeeps
  <2>4. CASE pc[w] = "delivered"
    BY <1>7, <2>1, <2>2, <2>4, QuietKeeps DEF Refresh, Leave, Goto, TypeOK
  <2> QED
    BY <1>7, <2>3, <2>4 DEF Refresh
<1>8. ASSUME NEW w \in Workers, NEW d \in Deliveries, NEW r \in Retries, Take(w, d, r)
      PROVE  SerialInv'
  <2>1. \A v \in Workers \ {w} : pc'[v] = pc[v] /\ job'[v] = job[v] /\ seen'[v] = seen[v]
    <3>1. PICK label \in {"done", "rejecting", "loaded"} :
            /\ pc' = [pc EXCEPT ![w] = label]
            /\ seen' = [seen EXCEPT ![w] = NoRow] \/ seen' = [seen EXCEPT ![w] = row[d]]
      BY <1>8, TookLabel
    <3>2. job' = [job EXCEPT ![w] = [d |-> d, r |-> r]]
      BY <1>8 DEF Take
    <3> QED
      BY <3>1, <3>2 DEF TypeOK
  <2>2. UNCHANGED <<row, tail, accepted, refused>> /\ job'[w].d = d
    BY <1>8 DEF Take, TypeOK, db, history
  <2>3. CASE row[d].status \in Terminal
    BY <1>8, <2>1, <2>2, <2>3, QuietKeeps DEF Take, Leave, Goto, TypeOK
  <2>4. CASE row[d].status \notin Terminal
    <3>1. row[d].status = "PENDING"
      BY <1>8, <2>4 DEF Take, NoPhantomTask, QueuedHasRow, TypeOK, Rows, Status, Stored, Terminal
    <3>2. pc'[w] \in {"rejecting", "loaded"} /\ seen'[w] = row[d]
      BY <1>8, <2>4 DEF Take, Goto, TypeOK
    <3>3. HeldOK(w)'
      BY <2>2, <3>1, <3>2 DEF HeldOK
    <3> QED
      BY <2>1, <2>2, <3>3, QuietKeeps
  <2> QED
    BY <2>3, <2>4
<1>9. ASSUME NEW w \in Workers,
             \/ PublishRetry(w) \/ Acknowledge(w) \/ TakeReconcile(w)
             \/ ChildLost(w) \/ NodeLost(w) \/ RaiseOut(w) \/ ReconcileFails(w)
      PROVE  SerialInv'
  <2>1. UNCHANGED <<row, tail, accepted, refused>>
    BY <1>9 DEF PublishRetry, Acknowledge, TakeReconcile, ChildLost, NodeLost, RaiseOut,
                ReconcileFails, db, history
  <2>2. \A v \in Workers \ {w} : pc'[v] = pc[v] /\ job'[v] = job[v] /\ seen'[v] = seen[v]
    BY <1>9 DEF PublishRetry, Acknowledge, TakeReconcile, ChildLost, NodeLost, RaiseOut,
                ReconcileFails, Drop, Leave, Goto, TypeOK
  <2>3. pc'[w] \in {"idle", "reconciling", "done"}
    <3>1. CASE TakeReconcile(w)
      BY <3>1 DEF TakeReconcile, Goto, TypeOK
    <3>2. CASE ~ TakeReconcile(w)
      BY <1>9, <3>2 DEF PublishRetry, Acknowledge, ChildLost, NodeLost, RaiseOut,
                ReconcileFails, Drop, Leave, Goto, TypeOK
    <3> QED
      BY <3>1, <3>2
  <2> QED
    BY <2>1, <2>2, <2>3, QuietKeeps
<1>10. ASSUME NEW w \in Workers, NEW d \in Deliveries, Requeue(w, d) PROVE SerialInv'
  <2>1. /\ UNCHANGED <<row, tail, accepted, refused, job, seen>>
        /\ \A v \in Workers \ {w} : pc'[v] = pc[v]
        /\ pc'[w] \in {"idle", "reconciling"}
    BY <1>10 DEF Requeue, Goto, TypeOK, db, history
  <2> QED
    BY <2>1, QuietKeeps
<1>11. ASSUME NEW w \in Workers, VisibilityTimeout(w) PROVE SerialInv'
  BY <1>11, QuietKeeps DEF VisibilityTimeout, db, worker
<1>12. ASSUME NEW w \in Workers, RefreshFails(w) PROVE SerialInv'
  <2>1. /\ UNCHANGED <<row, tail, job, accepted, refused>>
        /\ \A v \in Workers \ {w} : pc'[v] = pc[v] /\ seen'[v] = seen[v]
        /\ pc'[w] = "failing" /\ seen'[w] = row[job[w].d]
    BY <1>12 DEF RefreshFails, Goto, TypeOK, db
  <2>2. HeldOK(w)'
    BY <2>1 DEF HeldOK
  <2> QED
    BY <2>1, <2>2, QuietKeeps
<1> QED
  BY <1>1, <1>2, <1>3, <1>4, <1>5, <1>6, <1>7, <1>8, <1>9, <1>10, <1>11, <1>12
     DEF Next, Web, Step, TakeMessage, Environment, Writes

LEMMA SerialCorrect == Spec /\ []Exclusive => []SerialInv
<1>1. Init => SerialInv
  BY DEF Init, SerialInv, RowOK, HeldOK, Unanswered, NoRow
<1>2. TypeOK /\ NoPhantomTask /\ Exclusive /\ SerialInv /\ [Next]_vars => SerialInv'
  BY SerialStep
<1> QED
  BY <1>1, <1>2, TypeCorrect, NoPhantomCorrect, PTL DEF Spec

-----------------------------------------------------------------------------
(* Where Exclusive comes from.                                             *)

(* One worker process.                                                     *)
OneProcess == \A w, v \in Workers : w = v

(* Nobody re-queues and the broker redelivers nothing.                     *)
OneChain ==
  /\ ReconcileQueue \notin WorkerQueues
  /\ FaultKinds \cap {"node", "visibility"} = {}

(* Of a delivery that has been committed there is one publication to come, *)
(* or one message, or one task at work, or nothing any more.               *)
Unhandled(d) == \A w \in Workers : ~ Active(w, d)

OneToken(d) ==
  /\ d \in unsent => Unhandled(d) /\ \A r \in Retries : queue[d][r] = 0
  /\ \A r \in Retries : queue[d][r] > 0 =>
       /\ queue[d][r] = 1
       /\ d \notin unsent /\ Unhandled(d)
       /\ \A s \in Retries \ {r} : queue[d][s] = 0
  /\ \A w, v \in Workers : Active(w, d) /\ Active(v, d) => w = v

TokenInv ==
  /\ \A w \in Workers : pc[w] # "reconciling"
  /\ \A d \in Deliveries : OneToken(d)

LEMMA TokenKeeps ==
  ASSUME NEW d \in Deliveries, OneToken(d), d \in unsent' => d \in unsent,
         queue'[d] = queue[d], \A w \in Workers : Active(w, d)' => Active(w, d)
  PROVE  OneToken(d)'
  BY DEF OneToken, Unhandled

(* A worker that goes on with its message, or lets go of it, takes none.   *)
LEMMA StillActive ==
  ASSUME TypeOK, NEW w \in Workers, pc[w] \notin {"idle", "done"},
         \A v \in Workers \ {w} : pc'[v] = pc[v] /\ job'[v] = job[v],
         job'[w] = job[w] \/ job'[w] = NoJob,
         NEW d \in Deliveries, NEW v \in Workers, Active(v, d)'
  PROVE  Active(v, d)
  BY DEF Active, Handles

LEMMA CreateToken ==
  ASSUME TypeOK, NoPhantomTask, TokenInv,
         NEW ds \in SUBSET Deliveries, CreateDeliveries(ds), NEW d \in Deliveries
  PROVE  OneToken(d)'
<1>1. UNCHANGED <<queue, pc, job>> /\ unsent' = unsent \cup ds
  BY DEF CreateDeliveries, broker, worker
<1>2. OneToken(d) /\ \A w \in Workers : Active(w, d)' => Active(w, d)
  BY <1>1 DEF TokenInv, Active, Handles
<1>3. CASE d \notin ds
  BY <1>1, <1>2, <1>3, TokenKeeps
<1>4. CASE d \in ds
  <2>1. row[d].status = "NONE"
    BY <1>4 DEF CreateDeliveries, NoRow
  <2>2. \A r \in Retries : queue[d][r] = 0
    <3> SUFFICES ASSUME NEW r \in Retries PROVE queue[d][r] = 0
      OBVIOUS
    <3>1. ~ (queue[d][r] > 0)
      BY <2>1 DEF NoPhantomTask, QueuedHasRow
    <3>2. queue[d][r] \in Nat
      BY DEF TypeOK
    <3> QED
      BY <3>1, <3>2
  <2>3. Unhandled(d)
    BY <2>1 DEF NoPhantomTask, HeldHasRow, Unhandled, Active, Handles
  <2> QED
    BY <1>1, <1>2, <2>2, <2>3 DEF OneToken, Unhandled
<1> QED
  BY <1>3, <1>4

(* The publication becomes a message.                                      *)
LEMMA ApplyToken ==
  ASSUME TypeOK, TokenInv, NEW e \in Deliveries, ApplyAsync(e), NEW d \in Deliveries
  PROVE  OneToken(d)'
<1>1. /\ UNCHANGED <<pc, job>> /\ unsent' = unsent \ {e} /\ e \in unsent
      /\ queue' = [queue EXCEPT ![e][0] = @ + 1]
  BY DEF ApplyAsync, Publish, worker
<1>2. OneToken(d) /\ \A w \in Workers : Active(w, d)' => Active(w, d)
  BY <1>1 DEF TokenInv, Active, Handles
<1>3. CASE d # e
  <2>1. queue'[d] = queue[d]
    BY <1>1, <1>3 DEF TypeOK
  <2> QED
    BY <1>1, <1>2, <2>1, TokenKeeps
<1>4. CASE d = e
  <2>1. 0 \in Retries
    BY BoundsAssumption DEF Retries
  <2>2. Unhandled(d) /\ \A r \in Retries : queue[d][r] = 0
    BY <1>1, <1>2, <1>4 DEF OneToken
  <2>3. queue'[d][0] = 1 /\ \A r \in Retries \ {0} : queue'[d][r] = 0
    BY <1>1, <1>4, <2>1, <2>2 DEF TypeOK
  <2>4. d \notin unsent' /\ Unhandled(d)'
    BY <1>1, <1>2, <1>4, <2>2 DEF Unhandled
  <2>5. \A r \in Retries : queue'[d][r] > 0 => r = 0
    BY <2>3
  <2> QED
    BY <1>2, <2>3, <2>4, <2>5 DEF OneToken, Unhandled
<1> QED
  BY <1>3, <1>4

(* The message becomes a task.                                             *)
LEMMA TakeToken ==
  ASSUME TypeOK, TokenInv, NEW w \in Workers, NEW e \in Deliveries, NEW r \in Retries,
         Take(w, e, r), NEW d \in Deliveries
  PROVE  OneToken(d)'
<1>1. /\ queue' = [queue EXCEPT ![e][r] = @ - 1] /\ queue[e][r] > 0
      /\ job' = [job EXCEPT ![w] = [d |-> e, r |-> r]] /\ unsent' = unsent
  BY DEF Take, db
<1>2. \A v \in Workers \ {w} : pc'[v] = pc[v] /\ job'[v] = job[v]
  BY <1>1, TookLabel DEF TypeOK
<1>3. OneToken(d) /\ \A v \in Workers \ {w} : Active(v, d)' => Active(v, d)
  BY <1>2 DEF TokenInv, Active, Handles
<1>4. CASE d # e
  <2>1. queue'[d] = queue[d] /\ ~ Active(w, d)'
    BY <1>1, <1>4 DEF TypeOK, Active, Handles
  <2> QED
    BY <1>1, <1>3, <2>1, TokenKeeps
<1>5. CASE d = e
  <2>1. /\ queue[d][r] = 1 /\ d \notin unsent /\ Unhandled(d)
        /\ \A s \in Retries \ {r} : queue[d][s] = 0
    BY <1>1, <1>3, <1>5 DEF OneToken
  <2>2. \A s \in Retries : queue'[d][s] = 0
    BY <1>1, <1>5, <2>1 DEF TypeOK
  <2>3. \A v \in Workers : Active(v, d)' => v = w
    BY <1>3, <2>1 DEF Unhandled
  <2>4. \A s \in Retries : ~ (queue'[d][s] > 0)
    BY <2>2
  <2> QED
    BY <1>1, <2>1, <2>3, <2>4 DEF OneToken
<1> QED
  BY <1>4, <1>5

(* The task becomes the message of its successor.                          *)
LEMMA RetryToken ==
  ASSUME TypeOK, TokenInv, NEW w \in Workers, PublishRetry(w), NEW d \in Deliveries
  PROVE  OneToken(d)'
<1>0. PICK e \in Deliveries : e = job[w].d /\ job[w] # NoJob /\ job[w].r \in Retries
  BY BusyHoldsJob DEF PublishRetry
<1>1. /\ pc[w] = "requeue" /\ pc' = [pc EXCEPT ![w] = "done"] /\ UNCHANGED <<job, unsent>>
      /\ queue' = [queue EXCEPT ![e][job[w].r + 1] = @ + 1]
  BY <1>0 DEF PublishRetry, Publish, Leave, Goto, db
<1>2. OneToken(d) /\ Active(w, e) /\ ~ Active(w, d)'
  BY <1>0, <1>1 DEF TokenInv, TypeOK, Active, Handles
<1>3. \A v \in Workers : Active(v, d)' => Active(v, d)
  BY <1>1, StillActive DEF TypeOK
<1>4. CASE d # e
  <2>1. queue'[d] = queue[d]
    BY <1>1, <1>4 DEF TypeOK
  <2> QED
    BY <1>1, <1>2, <1>3, <2>1, TokenKeeps
<1>5. CASE d = e
  <2>1. Unhandled(d)'
    BY <1>2, <1>3, <1>5 DEF OneToken, Unhandled
  <2>2. d \notin unsent' /\ \A s \in Retries : queue[d][s] = 0
    <3>1. \A s \in Retries : ~ (queue[d][s] > 0)
      BY <1>2, <1>5 DEF OneToken, Unhandled
    <3>2. \A s \in Retries : queue[d][s] \in Nat
      BY DEF TypeOK
    <3> QED
      BY <1>1, <1>2, <1>5, <3>1, <3>2 DEF OneToken, Unhandled
  <2>3. \A s \in Retries : queue'[d][s] = IF s = job[w].r + 1 THEN 1 ELSE 0
    <3> SUFFICES ASSUME NEW s \in Retries
                 PROVE  queue'[d][s] = IF s = job[w].r + 1 THEN 1 ELSE 0
      OBVIOUS
    <3>1. queue'[d] = [queue[d] EXCEPT ![job[w].r + 1] = @ + 1]
      BY <1>1, <1>5 DEF TypeOK
    <3>2. queue[d] \in [Retries -> Nat]
      BY DEF TypeOK
    <3> QED
      BY <2>2, <3>1, <3>2
  <2>4. \A s \in Retries : queue'[d][s] > 0 => queue'[d][s] = 1 /\ s = job[w].r + 1
    BY <2>3
  <2>5. \A s \in Retries : s # job[w].r + 1 => queue'[d][s] = 0
    BY <2>3
  <2> QED
    BY <2>1, <2>2, <2>4, <2>5 DEF OneToken, Unhandled
<1> QED
  BY <1>4, <1>5

(* A step that publishes nothing, takes nothing and creates nothing.       *)
LEMMA NoTokenMoves ==
  ASSUME TypeOK, TokenInv, unsent' \subseteq unsent, queue' = queue,
         \A w \in Workers : pc'[w] # "reconciling",
         \A w \in Workers, d \in Deliveries : Active(w, d)' => Active(w, d)
  PROVE  TokenInv'
<1>1. ASSUME NEW d \in Deliveries PROVE OneToken(d)'
  BY TokenKeeps DEF TokenInv
<1> QED
  BY <1>1 DEF TokenInv

LEMMA TokenStep ==
  ASSUME OneChain, TypeOK, NoPhantomTask, TokenInv, [Next]_vars
  PROVE  TokenInv'
<1>0. \A w \in Workers : pc[w] # "reconciling"
  BY DEF TokenInv
<1>1. ASSUME NEW ds \in SUBSET Deliveries, CreateDeliveries(ds) PROVE TokenInv'
  BY <1>0, <1>1, CreateToken DEF TokenInv, CreateDeliveries, worker
<1>2. ASSUME NEW d \in Deliveries, ApplyAsync(d) PROVE TokenInv'
  BY <1>0, <1>2, ApplyToken DEF TokenInv, ApplyAsync, worker
<1>3. ASSUME NEW d \in Deliveries, Ages(d) \/ TemplateLost(d) PROVE TokenInv'
  BY <1>0, <1>3, NoTokenMoves DEF Ages, TemplateLost, worker, broker, Active, Handles
<1>4. ASSUME NEW ds \in SUBSET Deliveries, EnqueueLost(ds) PROVE TokenInv'
  BY <1>0, <1>4, NoTokenMoves DEF EnqueueLost, worker, broker, Active, Handles
<1>5. CASE BeatTick \/ UNCHANGED vars
  BY <1>0, <1>5, NoTokenMoves DEF BeatTick, vars, db, worker, Active, Handles
<1>6. ASSUME NEW w \in Workers, NEW d \in Deliveries, NEW r \in Retries, Take(w, d, r)
      PROVE  TokenInv'
  <2>1. \A v \in Workers : pc'[v] # "reconciling"
    BY <1>0, <1>6, TookLabel DEF TypeOK
  <2> QED
    BY <1>6, <2>1, TakeToken DEF TokenInv
<1>7. ASSUME NEW w \in Workers, PublishRetry(w) PROVE TokenInv'
  <2>1. \A v \in Workers : pc'[v] # "reconciling"
    BY <1>0, <1>7 DEF PublishRetry, Leave, Goto, TypeOK
  <2> QED
    BY <1>7, <2>1, RetryToken DEF TokenInv
<1>8. ASSUME NEW w \in Workers,
             \/ \E to \in Stored : Writes(w, to)
             \/ Refresh(w) \/ ProviderAccepts(w) \/ ProviderRefuses(w)
             \/ ChildLost(w) \/ RaiseOut(w) \/ RefreshFails(w)
      PROVE  TokenInv'
  <2>1. /\ UNCHANGED <<unsent, queue>> /\ pc[w] # "idle"
        /\ job' = job \/ job' = [job EXCEPT ![w] = NoJob]
    BY <1>8 DEF Writes, FailUnsendable, MarkFailed, MarkSent, MarkDelivered, MarkPending, MarkFatal,
                Refresh, RefreshFails, ProviderAccepts, ProviderRefuses, ChildLost, RaiseOut, Drop,
                db, broker
  <2>2. \E label \in PCs \ {"reconciling"} :
          pc' = [pc EXCEPT ![w] = label] /\ (pc[w] = "done" => label = "idle" /\ job'[w] = NoJob)
    <3>1. CASE \E to \in Stored : Writes(w, to)
      BY <3>1 DEF Writes, FailUnsendable, MarkFailed, MarkSent, MarkDelivered, MarkPending,
                  MarkFatal, Leave, Goto, PCs
    <3>2. CASE Refresh(w) \/ ProviderAccepts(w) \/ ProviderRefuses(w)
      BY <3>2 DEF Refresh, ProviderAccepts, ProviderRefuses, Leave, Goto, PCs
    <3>3. CASE ChildLost(w) \/ RaiseOut(w) \/ RefreshFails(w)
      BY <3>3 DEF ChildLost, RaiseOut, RefreshFails, Drop, Leave, Goto, PCs, TypeOK
    <3> QED
      BY <1>8, <3>1, <3>2, <3>3
  <2>3. \A v \in Workers : pc'[v] # "reconciling"
    BY <1>0, <2>2 DEF TypeOK
  <2>4. ASSUME NEW v \in Workers, NEW d \in Deliveries, Active(v, d)' PROVE Active(v, d)
    BY <2>1, <2>2, <2>4 DEF TypeOK, Active, Handles
  <2> QED
    BY <2>1, <2>3, <2>4, NoTokenMoves
<1>9. ASSUME NEW w \in Workers, Acknowledge(w) PROVE TokenInv'
  <2>1. \A v \in Workers : pc'[v] # "reconciling"
    BY <1>0, <1>9 DEF Acknowledge, Goto, TypeOK
  <2>2. \A v \in Workers, d \in Deliveries : Active(v, d)' => Active(v, d)
    BY <1>9 DEF Acknowledge, Goto, TypeOK, Active, Handles
  <2> QED
    BY <1>9, <2>1, <2>2, NoTokenMoves DEF Acknowledge, db, broker
<1>10. ~ \E w \in Workers : \/ TakeReconcile(w) \/ NodeLost(w) \/ VisibilityTimeout(w)
                            \/ ReconcileFails(w) \/ \E d \in Deliveries : Requeue(w, d)
  BY <1>0 DEF OneChain, TakeReconcile, NodeLost, VisibilityTimeout, ReconcileFails, Requeue, Fault
<1>11. ASSUME NEW w \in Workers,
              \/ FailUnsendable(w) \/ MarkFailed(w) \/ MarkFatal(w)
              \/ MarkSent(w) \/ MarkDelivered(w) \/ MarkPending(w)
       PROVE  \E to \in Stored : Writes(w, to)
  BY <1>11 DEF Writes, Stored
<1> QED
  BY <1>1, <1>2, <1>3, <1>4, <1>5, <1>6, <1>7, <1>8, <1>9, <1>10, <1>11
     DEF Next, Web, Step, TakeMessage, Environment

LEMMA TokenCorrect == ASSUME OneChain PROVE Spec => []TokenInv
<1>1. Init => TokenInv
  BY NoJobAssumption DEF Init, TokenInv, OneToken, Active, Handles
<1>2. TypeOK /\ NoPhantomTask /\ TokenInv /\ [Next]_vars => TokenInv'
  BY TokenStep
<1> QED
  BY <1>1, <1>2, TypeCorrect, NoPhantomCorrect, PTL DEF Spec

LEMMA ExclusiveCorrect ==
  ASSUME OneProcess \/ OneChain
  PROVE  Spec => []Exclusive
<1>1. CASE OneProcess
  <2>1. Exclusive
    BY <1>1 DEF OneProcess, Exclusive
  <2> QED
    BY <2>1, PTL
<1>2. CASE OneChain
  <2>1. TokenInv => Exclusive
    BY DEF TokenInv, OneToken, Exclusive
  <2> QED
    BY <1>2, <2>1, TokenCorrect, PTL
<1> QED
  BY <1>1, <1>2

-----------------------------------------------------------------------------
(* What a reader of the tables relies on.                                  *)

(* A provider accepts a notification at most once, whatever is lost, sent  *)
(* again or re-queued.                                                     *)
THEOREM AtMostOnceCorrect ==
  ASSUME OneProcess \/ OneChain
  PROVE  Spec => []AtMostOnceAccepted
<1>1. SerialInv => AtMostOnceAccepted
  BY DEF SerialInv, RowOK, AtMostOnceAccepted
<1> QED
  BY <1>1, ExclusiveCorrect, SerialCorrect, PTL

(* The newest log entry names the status of the row.                       *)
THEOREM AuditAgreesCorrect ==
  ASSUME OneProcess \/ OneChain
  PROVE  Spec => []AuditAgrees
<1>1. SerialInv => AuditAgrees
  BY DEF SerialInv, RowOK, AuditAgrees
<1> QED
  BY <1>1, ExclusiveCorrect, SerialCorrect, PTL

(* Which steps touch the tables.                                           *)
LEMMA TablesStep ==
  ASSUME [Next]_vars
  PROVE  \/ UNCHANGED <<row, tail>>
         \/ \E ds \in SUBSET Deliveries : CreateDeliveries(ds)
         \/ \E w \in Workers, to \in Stored : Writes(w, to)
<1>1. ASSUME NEW w \in Workers, Step(w)
      PROVE  UNCHANGED <<row, tail>> \/ \E to \in Stored : Writes(w, to)
  <2>1. CASE Refresh(w) \/ ProviderAccepts(w) \/ ProviderRefuses(w) \/ PublishRetry(w) \/ Acknowledge(w)
    BY <2>1 DEF Refresh, ProviderAccepts, ProviderRefuses, PublishRetry, Acknowledge, db
  <2>2. CASE \E d \in Deliveries : Requeue(w, d)
    BY <2>2 DEF Requeue, db
  <2>3. CASE \/ FailUnsendable(w) \/ MarkFailed(w) \/ MarkFatal(w)
             \/ MarkSent(w) \/ MarkDelivered(w) \/ MarkPending(w)
    BY <2>3 DEF Writes, Stored
  <2> QED
    BY <1>1, <2>1, <2>2, <2>3 DEF Step
<1>2. CASE Environment
  BY <1>2 DEF Environment, EnqueueLost, TemplateLost, ChildLost, NodeLost, VisibilityTimeout,
              RaiseOut, RefreshFails, ReconcileFails, db
<1>3. CASE \E d \in Deliveries, r \in Retries : TakeMessage(d, r)
  BY <1>3 DEF TakeMessage, Take, db
<1>4. CASE BeatTick \/ (\E w \in Workers : TakeReconcile(w)) \/ UNCHANGED vars
  BY <1>4 DEF BeatTick, TakeReconcile, db, vars
<1>5. CASE Web
  BY <1>5 DEF Web, ApplyAsync, Ages
<1> QED
  BY <1>1, <1>2, <1>3, <1>4, <1>5 DEF Next

(* The audit trail is a chain: a task logs the status it found and the row *)
(* still has.                                                              *)
THEOREM AuditChainCorrect ==
  ASSUME OneProcess \/ OneChain
  PROVE  Spec => AuditChain
<1>1. TypeOK /\ SerialInv /\ [Next]_vars =>
        [\A d \in Deliveries : tail'[d] # tail[d] => tail'[d].from = tail[d].to]_tail
  <2> SUFFICES ASSUME TypeOK, SerialInv, [Next]_vars, NEW d \in Deliveries, tail'[d] # tail[d]
               PROVE  tail'[d].from = tail[d].to
    OBVIOUS
  <2>0. tail[d].to = row[d].status
    BY DEF SerialInv, RowOK
  <2>1. ASSUME NEW ds \in SUBSET Deliveries, CreateDeliveries(ds) PROVE tail'[d].from = tail[d].to
    BY <2>0, <2>1 DEF CreateDeliveries, NoRow
  <2>2. ASSUME NEW w \in Workers, NEW to, Writes(w, to)
        PROVE  tail'[d].from = tail[d].to
    <3>1. job[w].d \in Deliveries /\ tail'[job[w].d] = [from |-> row[job[w].d].status, to |-> to]
      BY <2>2, WriteExact, Zenon
    <3>2. \A e \in Deliveries \ {job[w].d} : tail'[e] = tail[e]
      BY <2>2, WriteExact, Zenon
    <3> QED
      BY <2>0, <3>1, <3>2
  <2> QED
    BY <2>1, <2>2, TablesStep
<1> QED
  BY <1>1, TypeCorrect, ExclusiveCorrect, SerialCorrect, PTL DEF Spec, AuditChain

(* What is reported DELIVERED or FAILED stays so.  A database failure right*)
(* after DELIVERED is committed is excluded: the task then records FAILED. *)
THEOREM FinishedStaysCorrect ==
  ASSUME OneProcess \/ OneChain, "db" \notin FaultKinds
  PROVE  Spec => FinishedStays
<1>1. TypeOK /\ SerialInv /\ FailingAfterFault /\ [Next]_vars =>
        [\A d \in Deliveries :
           row[d].status \in Finished => row'[d].status = row[d].status]_row
  <2> SUFFICES ASSUME TypeOK, SerialInv, FailingAfterFault, [Next]_vars,
                      NEW d \in Deliveries, row[d].status \in Finished
               PROVE  row'[d].status = row[d].status
    OBVIOUS
  <2>1. ASSUME NEW ds \in SUBSET Deliveries, CreateDeliveries(ds) PROVE row'[d].status = row[d].status
    BY <2>1 DEF CreateDeliveries, NoRow, Finished
  <2>2. ASSUME NEW w \in Workers, NEW to, Writes(w, to) PROVE row'[d].status = row[d].status
    <3>1. pc[w] \in {"rejecting", "loaded", "accepted", "refused"}
      BY <2>2 DEF Writes, FailUnsendable, MarkFailed, MarkSent, MarkDelivered, MarkPending,
                  MarkFatal, FailingAfterFault
    <3>2. row[job[w].d].status \in {"PENDING", "SENT"}
      BY <3>1 DEF SerialInv, HeldOK
    <3>3. d # job[w].d
      BY <3>2 DEF Finished
    <3>4. \A e \in Deliveries \ {job[w].d} : row'[e] = row[e]
      BY <2>2, WriteExact
    <3> QED
      BY <3>3, <3>4
  <2> QED
    BY <2>1, <2>2, TablesStep
<1> QED
  BY <1>1, TypeCorrect, FailingCorrect, ExclusiveCorrect, SerialCorrect, PTL DEF Spec, FinishedStays

-----------------------------------------------------------------------------
(* The attempts of a delivery.                                             *)

Attempts(d) == accepted[d] + refused[d]

(* A message or a task with retry count r comes after at most r attempts.  *)
AttemptsInv ==
  /\ \A d \in Deliveries : row[d].status = "NONE" \/ d \in unsent => Attempts(d) = 0
  /\ \A d \in Deliveries, r \in Retries : queue[d][r] > 0 => Attempts(d) <= r
  /\ \A w \in Workers :
       /\ pc[w] \in {"rejecting", "loaded", "marking", "sending"} =>
            Attempts(job[w].d) <= job[w].r
       /\ pc[w] \in {"accepted", "refused", "delivered", "requeue"} =>
            Attempts(job[w].d) <= job[w].r + 1
  /\ AttemptsBounded

Early    == {"rejecting", "loaded", "marking", "sending"}
Late     == {"accepted", "refused", "delivered", "requeue"}
Settling == {"idle", "reconciling", "failing", "done"}

LEMMA AttemptsType ==
  ASSUME TypeOK
  PROVE  \A d \in Deliveries : accepted[d] \in Nat /\ refused[d] \in Nat /\ Attempts(d) \in Nat
<1>1. \A d \in Deliveries : accepted[d] \in Nat /\ refused[d] \in Nat
  BY BoundsAssumption DEF TypeOK, Counter
<1> QED
  BY <1>1 DEF Attempts

(* A step at which no provider answers.                                    *)
LEMMA NoAnswerKeeps ==
  ASSUME AttemptsInv, UNCHANGED <<accepted, refused>>,
         \A d \in Deliveries :
           row'[d].status = "NONE" \/ d \in unsent' => row[d].status = "NONE" \/ d \in unsent,
         \A d \in Deliveries, r \in Retries : queue'[d][r] > 0 =>
           queue[d][r] > 0 \/ Attempts(d) <= r,
         \A w \in Workers :
           \/ pc'[w] \in Settling
           \/ /\ job'[w] = job[w]
              /\ \/ pc'[w] \in Early /\ pc[w] \in Early
                 \/ pc'[w] \in Late /\ pc[w] \in Late
           \/ pc'[w] \in Early /\ Attempts(job'[w].d) <= job'[w].r
  PROVE  AttemptsInv'
<1>1. \A d : Attempts(d)' = Attempts(d)
  BY DEF Attempts
<1>2. \A d \in Deliveries : (row[d].status = "NONE" \/ d \in unsent)' => Attempts(d)' = 0
  BY <1>1 DEF AttemptsInv
<1>3. \A d \in Deliveries, r \in Retries : queue'[d][r] > 0 => Attempts(d)' <= r
  BY <1>1 DEF AttemptsInv
<1>4. ASSUME NEW w \in Workers
      PROVE  /\ pc'[w] \in Early => Attempts(job[w].d)' <= job'[w].r
             /\ pc'[w] \in Late => Attempts(job[w].d)' <= job'[w].r + 1
  <2>1. Attempts(job[w].d)' = Attempts(job'[w].d)
    BY DEF Attempts
  <2>2. CASE pc'[w] \in Settling
    BY <2>2 DEF Early, Late, Settling
  <2>3. CASE job'[w] = job[w] /\ pc'[w] \in Early /\ pc[w] \in Early
    BY <2>1, <2>3 DEF AttemptsInv, Early, Late
  <2>4. CASE job'[w] = job[w] /\ pc'[w] \in Late /\ pc[w] \in Late
    BY <2>1, <2>4 DEF AttemptsInv, Early, Late
  <2>5. CASE pc'[w] \in Early /\ Attempts(job'[w].d) <= job'[w].r
    BY <2>1, <2>5 DEF Early, Late
  <2> QED
    BY <2>2, <2>3, <2>4, <2>5
<1>5. AttemptsBounded'
  BY DEF AttemptsInv, AttemptsBounded
<1> QED
  BY <1>2, <1>3, <1>4, <1>5 DEF AttemptsInv, Early, Late

(* An answer: nobody else has anything to do with the delivery.            *)
LEMMA AnswerCounts ==
  ASSUME TypeOK, HeldHasRow, TokenInv, AttemptsInv, NEW w \in Workers,
         ProviderAccepts(w) \/ ProviderRefuses(w)
  PROVE  AttemptsInv'
<1>0. PICK d \in Deliveries : d = job[w].d /\ job[w] # NoJob /\ job[w].r \in Retries
  BY BusyHoldsJob DEF ProviderAccepts, ProviderRefuses
<1>1. /\ pc[w] = "sending" /\ pc'[w] \in {"accepted", "refused"}
      /\ \A v \in Workers \ {w} : pc'[v] = pc[v]
      /\ UNCHANGED <<job, row, unsent, queue>>
  BY DEF ProviderAccepts, ProviderRefuses, Goto, TypeOK, db, broker
<1>2. Attempts(d)' <= Attempts(d) + 1
  <2>1. accepted[d] \in Nat /\ refused[d] \in Nat
    BY AttemptsType
  <2>2. Bump(accepted[d]) <= accepted[d] + 1 /\ Bump(refused[d]) <= refused[d] + 1
        /\ Bump(accepted[d]) \in Nat /\ Bump(refused[d]) \in Nat
    BY <2>1, BoundsAssumption DEF Bump
  <2>3. CASE ProviderAccepts(w)
    <3>1. accepted'[d] = Bump(accepted[d]) /\ refused'[d] = refused[d]
      BY <1>0, <2>3 DEF ProviderAccepts, TypeOK
    <3> QED
      BY <2>1, <2>2, <3>1 DEF Attempts
  <2>4. CASE ProviderRefuses(w)
    <3>1. refused'[d] = Bump(refused[d]) /\ accepted'[d] = accepted[d]
      BY <1>0, <2>4 DEF ProviderRefuses, TypeOK
    <3> QED
      BY <2>1, <2>2, <3>1 DEF Attempts
  <2> QED
    BY <2>3, <2>4
<1>3. \A e \in Deliveries \ {d} : Attempts(e)' = Attempts(e)
  BY <1>0 DEF ProviderAccepts, ProviderRefuses, TypeOK, Attempts
<1>4. /\ Active(w, d) /\ OneToken(d) /\ row[d].status # "NONE"
  BY <1>0, <1>1 DEF Active, Handles, TokenInv, HeldHasRow
<1>5. d \notin unsent /\ \A r \in Retries : ~ (queue[d][r] > 0)
  BY <1>4 DEF OneToken, Unhandled
<1>6. Attempts(d) <= job[w].r /\ Attempts(d) \in Nat /\ Attempts(d)' \in Nat
      /\ job[w].r \in Nat /\ job[w].r <= MaxRetries
  <2>1. accepted'[d] \in Nat /\ refused'[d] \in Nat
    <3>1. /\ accepted'[d] \in {accepted[d], Bump(accepted[d])}
          /\ refused'[d] \in {refused[d], Bump(refused[d])}
      BY <1>0 DEF ProviderAccepts, ProviderRefuses, TypeOK
    <3>2. accepted[d] \in Counter /\ refused[d] \in Counter
      BY DEF TypeOK
    <3>3. \A n \in Counter : n \in Nat /\ Bump(n) \in Nat
      BY BumpType, BoundsAssumption DEF Counter
    <3> QED
      BY <3>1, <3>2, <3>3
  <2> QED
    BY <1>0, <1>1, <2>1, AttemptsType, BoundsAssumption DEF AttemptsInv, Attempts, Retries
<1>7. Attempts(d)' <= job[w].r + 1 /\ Attempts(d)' <= MaxRetries + 1
  BY <1>2, <1>6, BoundsAssumption
<1>8. ASSUME NEW v \in Workers
      PROVE  /\ pc'[v] \in Early => Attempts(job[v].d)' <= job'[v].r
             /\ pc'[v] \in Late => Attempts(job[v].d)' <= job'[v].r + 1
  <2>1. CASE v = w
    <3>1. Attempts(job[v].d)' = Attempts(d)' /\ job'[v].r = job[w].r
      BY <1>0, <1>1, <2>1 DEF Attempts
    <3> QED
      BY <1>1, <1>7, <2>1, <3>1 DEF Early
  <2>2. CASE v # w /\ pc[v] \in Early \cup Late
    <3>1. job[v] # NoJob /\ job[v].d \in Deliveries
      BY <2>2, BusyHoldsJob DEF Early, Late
    <3>2. job[v].d # d
      BY <1>4, <2>2, <3>1 DEF OneToken, Active, Handles, Early, Late
    <3>3. Attempts(job[v].d)' = Attempts(job[v].d)
      BY <1>1, <1>3, <3>1, <3>2 DEF Attempts
    <3> QED
      BY <1>1, <2>2, <3>3 DEF AttemptsInv, Early, Late
  <2>3. CASE v # w /\ pc[v] \notin Early \cup Late
    BY <1>1, <2>3
  <2> QED
    BY <2>1, <2>2, <2>3
<1>9. \A e \in Deliveries : (row[e].status = "NONE" \/ e \in unsent)' => Attempts(e)' = 0
  BY <1>1, <1>3, <1>4, <1>5 DEF AttemptsInv
<1>10. \A e \in Deliveries, r \in Retries : queue'[e][r] > 0 => Attempts(e)' <= r
  BY <1>1, <1>3, <1>5 DEF AttemptsInv
<1>11. AttemptsBounded'
  BY <1>3, <1>7 DEF AttemptsInv, AttemptsBounded, Attempts
<1> QED
  BY <1>8, <1>9, <1>10, <1>11 DEF AttemptsInv, Early, Late

LEMMA AttemptsStep ==
  ASSUME OneChain, TypeOK, NoPhantomTask, TokenInv, AttemptsInv, [Next]_vars
  PROVE  AttemptsInv'
<1>0. \A w \in Workers : pc[w] \in Settling \cup Early \cup Late
  BY DEF TypeOK, PCs, Early, Late, Settling
<1>1. ASSUME NEW ds \in SUBSET Deliveries, CreateDeliveries(ds) PROVE AttemptsInv'
  <2>1. \A d \in Deliveries :
          row'[d].status = "NONE" \/ d \in unsent' => row[d].status = "NONE" \/ d \in unsent
    BY <1>1 DEF CreateDeliveries, NoRow
  <2> QED
    BY <1>0, <1>1, <2>1, NoAnswerKeeps DEF CreateDeliveries, broker, worker, history
<1>2. ASSUME NEW d \in Deliveries, ApplyAsync(d) PROVE AttemptsInv'
  <2>1. Publish(d, 0) /\ d \in unsent /\ unsent' \subseteq unsent
        /\ UNCHANGED <<row, pc, job, accepted, refused>>
    BY <1>2 DEF ApplyAsync, worker, history
  <2>2. Attempts(d) = 0
    BY <2>1 DEF AttemptsInv
  <2>3. \A e \in Deliveries, r \in Retries :
          queue'[e][r] > 0 => queue[e][r] > 0 \/ Attempts(e) <= r
    BY <2>1, <2>2, PublishAdds
  <2> QED
    BY <1>0, <2>1, <2>3, NoAnswerKeeps
<1>3. ASSUME NEW d \in Deliveries, Ages(d) \/ TemplateLost(d) PROVE AttemptsInv'
  BY <1>0, <1>3, NoAnswerKeeps DEF Ages, TemplateLost, worker, broker, history
<1>4. ASSUME NEW ds \in SUBSET Deliveries, EnqueueLost(ds) PROVE AttemptsInv'
  BY <1>0, <1>4, NoAnswerKeeps DEF EnqueueLost, worker, broker
<1>5. CASE BeatTick \/ UNCHANGED vars
  BY <1>0, <1>5, NoAnswerKeeps DEF BeatTick, vars, db, worker, history
<1>6. ASSUME NEW w \in Workers, NEW d \in Deliveries, NEW r \in Retries, Take(w, d, r)
      PROVE  AttemptsInv'
  <2>1. /\ Attempts(d) <= r /\ job' = [job EXCEPT ![w] = [d |-> d, r |-> r]]
        /\ queue' = [queue EXCEPT ![d][r] = @ - 1]
        /\ UNCHANGED <<row, unsent, accepted, refused>>
    BY <1>6 DEF AttemptsInv, Take, db, history
  <2>2. PICK label \in {"done", "rejecting", "loaded"} : pc' = [pc EXCEPT ![w] = label]
    BY <1>6, TookLabel
  <2>3. job'[w].d = d /\ job'[w].r = r /\ pc'[w] \in Settling \cup Early
        /\ \A v \in Workers \ {w} : job'[v] = job[v] /\ pc'[v] = pc[v]
    BY <2>1, <2>2 DEF TypeOK, Early, Settling
  <2>4. \A e \in Deliveries, s \in Retries : queue'[e][s] > 0 => queue[e][s] > 0
    BY <2>1 DEF TypeOK
  <2> QED
    BY <1>0, <2>1, <2>3, <2>4, NoAnswerKeeps
<1>7. ASSUME NEW w \in Workers, PublishRetry(w) PROVE AttemptsInv'
  <2>1. PICK d \in Deliveries : d = job[w].d
    BY <1>7, BusyHoldsJob DEF PublishRetry
  <2>2. /\ pc[w] = "requeue" /\ Publish(d, job[w].r + 1)
        /\ UNCHANGED <<row, unsent, job, accepted, refused>>
        /\ pc' = [pc EXCEPT ![w] = "done"]
    BY <1>7, <2>1 DEF PublishRetry, Leave, Goto, db, history
  <2>3. Attempts(d) <= job[w].r + 1
    BY <2>1, <2>2 DEF AttemptsInv
  <2>4. \A e \in Deliveries, r \in Retries :
          queue'[e][r] > 0 => queue[e][r] > 0 \/ Attempts(e) <= r
    BY <2>2, <2>3, PublishAdds
  <2>5. pc'[w] \in Settling /\ \A v \in Workers \ {w} : pc'[v] = pc[v]
    BY <2>2 DEF TypeOK, Settling
  <2> QED
    BY <1>0, <2>2, <2>4, <2>5, NoAnswerKeeps
<1>8. ASSUME NEW w \in Workers, NEW to, Writes(w, to)
      PROVE  AttemptsInv'
  <2>1. \A d \in Deliveries : row'[d].status = "NONE" => row[d].status = "NONE"
    BY <1>8, WriteStatus DEF Stored
  <2>2. UNCHANGED <<unsent, queue, job, accepted, refused>>
    BY <1>8 DEF Writes, FailUnsendable, MarkFailed, MarkSent, MarkDelivered, MarkPending,
                MarkFatal, broker, history
  <2>3. /\ \A v \in Workers \ {w} : pc'[v] = pc[v]
        /\ \/ pc'[w] \in Settling
           \/ pc'[w] \in Early /\ pc[w] \in Early
           \/ pc'[w] \in Late /\ pc[w] \in Late
    BY <1>8 DEF Writes, FailUnsendable, MarkFailed, MarkSent, MarkDelivered, MarkPending,
                MarkFatal, Leave, Goto, TypeOK, Early, Late, Settling
  <2> QED
    BY <1>0, <2>1, <2>2, <2>3, NoAnswerKeeps
<1>9. ASSUME NEW w \in Workers, ProviderAccepts(w) \/ ProviderRefuses(w) PROVE AttemptsInv'
  BY <1>9, AnswerCounts DEF NoPhantomTask
<1>10. ASSUME NEW w \in Workers,
              \/ Refresh(w) \/ RefreshFails(w) \/ Acknowledge(w) \/ ChildLost(w) \/ RaiseOut(w)
       PROVE  AttemptsInv'
  <2>1. UNCHANGED <<row, unsent, queue, accepted, refused>>
    BY <1>10 DEF Refresh, RefreshFails, Acknowledge, ChildLost, RaiseOut, db, broker, history
  <2>2. \A v \in Workers \ {w} : pc'[v] = pc[v] /\ job'[v] = job[v]
    BY <1>10 DEF Refresh, RefreshFails, Acknowledge, ChildLost, RaiseOut, Drop, Leave, Goto, TypeOK
  <2>3. \/ pc'[w] \in Settling
        \/ pc'[w] \in Early /\ pc[w] \in Early /\ job'[w] = job[w]
    BY <1>10 DEF Refresh, RefreshFails, Acknowledge, ChildLost, RaiseOut, Drop, Leave, Goto, TypeOK, Early,
                 Settling
  <2> QED
    BY <1>0, <2>1, <2>2, <2>3, NoAnswerKeeps
<1>11. ~ \E w \in Workers : \/ TakeReconcile(w) \/ NodeLost(w) \/ VisibilityTimeout(w)
                            \/ ReconcileFails(w) \/ \E d \in Deliveries : Requeue(w, d)
  BY DEF TokenInv, OneChain, TakeReconcile, NodeLost, VisibilityTimeout, ReconcileFails,
         Requeue, Fault
<1> QED
  BY <1>1, <1>2, <1>3, <1>4, <1>5, <1>6, <1>7, <1>8, <1>9, <1>10, <1>11
     DEF Next, Web, Step, TakeMessage, Environment, Writes

LEMMA AttemptsCorrect == ASSUME OneChain PROVE Spec => []AttemptsInv
<1>1. Init => AttemptsInv
  BY BoundsAssumption DEF Init, AttemptsInv, AttemptsBounded, Attempts, NoRow
<1>2. TypeOK /\ NoPhantomTask /\ TokenInv /\ AttemptsInv /\ [Next]_vars => AttemptsInv'
  BY AttemptsStep
<1> QED
  BY <1>1, <1>2, TypeCorrect, NoPhantomCorrect, TokenCorrect, PTL DEF Spec

(* One message per delivery gives one chain of attempts: the first and     *)
(* MaxRetries retries, whatever processes and publications are lost.       *)
THEOREM AttemptsBoundedCorrect ==
  ASSUME OneChain
  PROVE  Spec => []AttemptsBounded
<1>1. AttemptsInv => AttemptsBounded
  BY DEF AttemptsInv
<1> QED
  BY <1>1, AttemptsCorrect, PTL

-----------------------------------------------------------------------------
(* The refinement.                                                         *)

(* The abstract machine counts without a bound, so what is shown is about  *)
(* executions in which the counters of the model have not reached theirs   *)
(* when a provider is asked.  One chain of attempts never gets there.      *)
Uncapped == \A w \in Workers : pc[w] = "sending" => refused[job[w].d] < CounterCap

(* A refusal that is still to be recorded can be.                          *)
Recordable == \A w \in Workers : pc[w] = "refused" => row[job[w].d].retries < CounterCap

LEMMA RecordableStep ==
  ASSUME TypeOK, HeldHasRow, Exclusive, SerialInv, Uncapped, Recordable, [Next]_vars
  PROVE  Recordable'
<1> SUFFICES ASSUME NEW v \in Workers, pc'[v] = "refused"
             PROVE  row'[job'[v].d].retries < CounterCap
  BY DEF Recordable
<1>1. CASE ProviderRefuses(v)
  <2>1. pc[v] = "sending" /\ job' = job /\ row' = row
    BY <1>1 DEF ProviderRefuses, db
  <2>2. refused[job[v].d] < CounterCap /\ refused[job[v].d] = row[job[v].d].retries
    BY <2>1 DEF SerialInv, HeldOK, Unanswered, Uncapped
  <2> QED
    BY <2>1, <2>2
<1>2. CASE pc[v] = "refused" /\ job'[v] = job[v]
  <2>1. job[v] # NoJob /\ job[v].d \in Deliveries /\ row[job[v].d].retries < CounterCap
    BY <1>2, BusyHoldsJob DEF Recordable
  <2>2. ASSUME NEW ds \in SUBSET Deliveries, CreateDeliveries(ds) PROVE row'[job[v].d] = row[job[v].d]
    BY <2>1, <2>2 DEF CreateDeliveries, HeldHasRow, NoRow
  <2>3. ASSUME NEW w \in Workers, NEW to, Writes(w, to)
        PROVE  row'[job[v].d] = row[job[v].d]
    <3>1. v # w
      BY <1>2, <2>3 DEF Writes, FailUnsendable, MarkFailed, MarkSent, MarkDelivered, MarkPending,
                        MarkFatal, Leave, Goto, TypeOK
    <3>2. /\ job[w] # NoJob /\ job[w].d \in Deliveries /\ pc[w] # "done"
          /\ \A e \in Deliveries \ {job[w].d} : row'[e] = row[e]
      BY <2>3, WriteExact
    <3>3. job[v].d # job[w].d
      BY <1>2, <2>1, <3>1, <3>2 DEF Exclusive, Active, Handles
    <3> QED
      BY <2>1, <3>2, <3>3
  <2> QED
    BY <1>2, <2>1, <2>2, <2>3, TablesStep
<1>3. ProviderRefuses(v) \/ (pc[v] = "refused" /\ job'[v] = job[v])
  <2>1. ASSUME NEW w \in Workers, Step(w) \/ TakeReconcile(w)
        PROVE  ProviderRefuses(v) \/ (pc[v] = "refused" /\ job'[v] = job[v])
    <3>1. CASE Refresh(w) \/ ProviderAccepts(w) \/ ProviderRefuses(w) \/ TakeReconcile(w)
      BY <3>1 DEF Refresh, ProviderAccepts, ProviderRefuses, TakeReconcile, Leave, Goto, TypeOK
    <3>2. CASE PublishRetry(w) \/ Acknowledge(w) \/ \E d \in Deliveries : Requeue(w, d)
      BY <3>2 DEF PublishRetry, Acknowledge, Requeue, Leave, Goto, TypeOK
    <3>3. CASE \/ FailUnsendable(w) \/ MarkFailed(w) \/ MarkFatal(w)
               \/ MarkSent(w) \/ MarkDelivered(w) \/ MarkPending(w)
      BY <3>3 DEF FailUnsendable, MarkFailed, MarkSent, MarkDelivered, MarkPending, MarkFatal,
                  Leave, Goto, TypeOK
    <3> QED
      BY <2>1, <3>1, <3>2, <3>3 DEF Step
  <2>2. ASSUME NEW w \in Workers, NEW d \in Deliveries, NEW r \in Retries, Take(w, d, r)
        PROVE  pc[v] = "refused" /\ job'[v] = job[v]
    <3>1. PICK label \in {"done", "rejecting", "loaded"} : pc' = [pc EXCEPT ![w] = label]
      BY <2>2, TookLabel
    <3>2. v # w /\ job' = [job EXCEPT ![w] = [d |-> d, r |-> r]]
      BY <2>2, <3>1 DEF Take, TypeOK
    <3> QED
      BY <3>1, <3>2 DEF TypeOK
  <2>3. ASSUME Environment PROVE pc[v] = "refused" /\ job'[v] = job[v]
    BY <2>3 DEF Environment, EnqueueLost, TemplateLost, ChildLost, NodeLost, VisibilityTimeout,
                RaiseOut, RefreshFails, ReconcileFails, Drop, Leave, Goto, TypeOK, worker
  <2>4. CASE Web \/ BeatTick \/ UNCHANGED vars
    BY <2>4 DEF Web, CreateDeliveries, ApplyAsync, Ages, BeatTick, worker, vars
  <2> QED
    BY <2>1, <2>2, <2>3, <2>4 DEF Next, TakeMessage
<1> QED
  BY <1>1, <1>2, <1>3

LEMMA RecordableCorrect == Spec /\ []Exclusive /\ []Uncapped => []Recordable
<1>1. Init => Recordable
  BY DEF Init, Recordable
<1>2. /\ TypeOK /\ NoPhantomTask /\ Exclusive /\ SerialInv /\ Uncapped /\ Recordable
      /\ [Next]_vars
      => Recordable'
  BY RecordableStep DEF NoPhantomTask
<1> QED
  BY <1>1, <1>2, TypeCorrect, NoPhantomCorrect, SerialCorrect, PTL DEF Spec

(* Writing a row is a step of the lifecycle.                               *)
LEMMA LifecycleWrite ==
  ASSUME "db" \notin FaultKinds, TypeOK, SerialInv, FailingAfterFault, Recordable,
         NEW w \in Workers, NEW to, Writes(w, to)
  PROVE  Lifecycle!Next
<1> DEFINE status  == [e \in Deliveries |-> row[e].status]
           retries == [e \in Deliveries |-> row[e].retries]
<1>0. PICK d \in Deliveries : d = job[w].d
  BY WriteExact
<1>1. /\ row'[d].status = to
      /\ row'[d].retries = IF pc[w] = "refused" THEN Bump(row[d].retries) ELSE row[d].retries
      /\ \A e \in Deliveries \ {d} : row'[e] = row[e]
      /\ UNCHANGED <<accepted, refused>>
  <2>1. /\ row'[job[w].d].status = to
        /\ row'[job[w].d].retries = IF pc[w] = "refused" THEN Bump(row[job[w].d].retries)
                                                         ELSE row[job[w].d].retries
        /\ \A e \in Deliveries \ {job[w].d} : row'[e] = row[e]
        /\ UNCHANGED <<accepted, refused>>
    BY WriteExact
  <2> QED
    BY <1>0, <2>1
<1>2. status' = [status EXCEPT ![d] = to] /\ retries' = [retries EXCEPT ![d] = row'[d].retries]
  <2>1. row'[d].status = to /\ \A e \in Deliveries \ {d} : row'[e] = row[e]
    BY <1>1
  <2>2. \A e \in Deliveries : row'[e].status = IF e = d THEN to ELSE row[e].status
    BY <2>1
  <2>3. \A e \in Deliveries : row'[e].retries = IF e = d THEN row'[d].retries ELSE row[e].retries
    BY <2>1
  <2> QED
    BY <2>2, <2>3
<1>3. HeldOK(w) /\ RowOK(d)
  BY DEF SerialInv
<1>4. CASE pc[w] # "refused"
  <2>1. retries' = retries
    BY <1>1, <1>2, <1>4
  <2>2. \/ pc[w] = "rejecting" /\ to = "FAILED"
        \/ pc[w] = "loaded" /\ to = "SENT"
        \/ pc[w] = "accepted" /\ to = "DELIVERED"
    BY <1>4 DEF Writes, FailUnsendable, MarkFailed, MarkSent, MarkDelivered, MarkPending,
                MarkFatal, FailingAfterFault
  <2>3. CASE pc[w] = "rejecting" /\ to = "FAILED"
    <3>1. status[d] = "PENDING"
      BY <1>0, <1>3, <2>3 DEF HeldOK
    <3>2. Lifecycle!Reject(d)
      BY <1>1, <1>2, <2>1, <2>3, <3>1 DEF Lifecycle!Reject, Lifecycle!Move
    <3> QED
      BY <3>2 DEF Lifecycle!Next
  <2>4. CASE pc[w] = "loaded" /\ to = "SENT"
    <3>1. status[d] = "PENDING"
      BY <1>0, <1>3, <2>4 DEF HeldOK
    <3>2. Lifecycle!Send(d)
      BY <1>1, <1>2, <2>1, <2>4, <3>1 DEF Lifecycle!Send, Lifecycle!Move
    <3> QED
      BY <3>2 DEF Lifecycle!Next
  <2>5. CASE pc[w] = "accepted" /\ to = "DELIVERED"
    <3>1. status[d] = "SENT" /\ accepted[d] = 1
      BY <1>0, <1>3, <2>5 DEF HeldOK
    <3>2. Lifecycle!Confirm(d)
      BY <1>1, <1>2, <2>1, <2>5, <3>1 DEF Lifecycle!Confirm, Lifecycle!Move
    <3> QED
      BY <3>2 DEF Lifecycle!Next
  <2> QED
    BY <2>2, <2>3, <2>4, <2>5
<1>5. CASE pc[w] = "refused"
  <2>1. /\ status[d] = "SENT" /\ refused[d] = Bump(row[d].retries)
        /\ row[d].retries < CounterCap
    BY <1>0, <1>3, <1>5 DEF HeldOK, Recordable
  <2>2. row[d].retries \in Nat /\ Bump(row[d].retries) = row[d].retries + 1
    BY <2>1, BoundsAssumption DEF Bump, TypeOK, Rows, Counter
  <2>3. refused[d] > retries[d] /\ retries' = [retries EXCEPT ![d] = @ + 1]
    BY <1>1, <1>2, <1>5, <2>1, <2>2
  <2>4. to \in {"PENDING", "FAILED"}
    BY <1>5 DEF Writes, FailUnsendable, MarkFailed, MarkSent, MarkDelivered, MarkPending, MarkFatal
  <2>5. Lifecycle!CountRefusal(d)
    BY <1>1, <1>2, <2>1, <2>3, <2>4 DEF Lifecycle!CountRefusal, Lifecycle!Move
  <2> QED
    BY <2>5 DEF Lifecycle!Next
<1> QED
  BY <1>4, <1>5

LEMMA LifecycleAnswer ==
  ASSUME TypeOK, SerialInv, Uncapped, NEW w \in Workers, ProviderAccepts(w) \/ ProviderRefuses(w)
  PROVE  Lifecycle!Next
<1>0. PICK d \in Deliveries : d = job[w].d
  BY BusyHoldsJob DEF ProviderAccepts, ProviderRefuses
<1>1. /\ row[d].status = "SENT" /\ accepted[d] = 0 /\ refused[d] = row[d].retries
      /\ refused[d] < CounterCap /\ row' = row
  BY <1>0 DEF ProviderAccepts, ProviderRefuses, SerialInv, HeldOK, Unanswered, Uncapped, db
<1>2. Bump(accepted[d]) = accepted[d] + 1 /\ Bump(refused[d]) = refused[d] + 1
  BY <1>1, BoundsAssumption DEF Bump, TypeOK, Counter
<1>3. CASE ProviderAccepts(w)
  <2>1. accepted' = [accepted EXCEPT ![d] = @ + 1] /\ UNCHANGED refused
    BY <1>0, <1>2, <1>3 DEF ProviderAccepts
  <2>2. Lifecycle!Accept(d)
    BY <1>1, <2>1 DEF Lifecycle!Accept, Lifecycle!Unanswered
  <2> QED
    BY <2>2 DEF Lifecycle!Next
<1>4. CASE ProviderRefuses(w)
  <2>1. refused' = [refused EXCEPT ![d] = @ + 1] /\ UNCHANGED accepted
    BY <1>0, <1>2, <1>4 DEF ProviderRefuses
  <2>2. Lifecycle!Refuse(d)
    BY <1>1, <2>1 DEF Lifecycle!Refuse, Lifecycle!Unanswered
  <2> QED
    BY <2>2 DEF Lifecycle!Next
<1> QED
  BY <1>3, <1>4

LEMMA LifecycleStep ==
  ASSUME "db" \notin FaultKinds, TypeOK, SerialInv, FailingAfterFault, Uncapped, Recordable,
         [Next]_vars
  PROVE  [Lifecycle!Next]_(Lifecycle!vars)
<1>1. CASE UNCHANGED <<row, accepted, refused>>
  BY <1>1 DEF Lifecycle!vars
<1>2. ASSUME NEW ds \in SUBSET Deliveries, CreateDeliveries(ds) PROVE Lifecycle!Next
  <2>1. /\ \A d \in ds : row[d].status = "NONE"
        /\ UNCHANGED <<accepted, refused>>
        /\ row' = [d \in Deliveries |-> IF d \in ds THEN [status |-> "PENDING", retries |-> 0]
                                                    ELSE row[d]]
    BY <1>2 DEF CreateDeliveries, NoRow, history
  <2>2. \A d \in ds : row[d].retries = 0
    BY <1>2 DEF CreateDeliveries, NoRow
  <2>3. \A d \in Deliveries :
          /\ row'[d].status = IF d \in ds THEN "PENDING" ELSE row[d].status
          /\ row'[d].retries = row[d].retries
    BY <2>1, <2>2
  <2>4. Lifecycle!Create(ds)
    BY <2>1, <2>3 DEF Lifecycle!Create
  <2> QED
    BY <2>4 DEF Lifecycle!Next
<1>3. ASSUME NEW w \in Workers, NEW to, Writes(w, to) PROVE Lifecycle!Next
  BY <1>3, LifecycleWrite
<1>4. ASSUME NEW w \in Workers, ProviderAccepts(w) \/ ProviderRefuses(w) PROVE Lifecycle!Next
  BY <1>4, LifecycleAnswer
<1>5. \/ UNCHANGED <<accepted, refused>>
      \/ \E w \in Workers : ProviderAccepts(w) \/ ProviderRefuses(w)
  <2>1. CASE Web \/ BeatTick \/ UNCHANGED vars
    BY <2>1 DEF Web, CreateDeliveries, ApplyAsync, Ages, BeatTick, history, vars
  <2>2. ASSUME NEW w \in Workers, Step(w) \/ TakeReconcile(w)
        PROVE  UNCHANGED <<accepted, refused>> \/ ProviderAccepts(w) \/ ProviderRefuses(w)
    BY <2>2 DEF Step, FailUnsendable, MarkSent, Refresh, MarkDelivered, MarkFailed, MarkPending,
                MarkFatal, PublishRetry, Acknowledge, Requeue, TakeReconcile, history
  <2>3. CASE \E d \in Deliveries, r \in Retries : TakeMessage(d, r)
    BY <2>3 DEF TakeMessage, Take, history
  <2>4. CASE Environment
    BY <2>4 DEF Environment, EnqueueLost, TemplateLost, ChildLost, NodeLost, VisibilityTimeout,
                RaiseOut, RefreshFails, ReconcileFails, history
  <2> QED
    BY <2>1, <2>2, <2>3, <2>4 DEF Next
<1> QED
  BY <1>1, <1>2, <1>3, <1>4, <1>5, TablesStep

LEMMA LifecycleInit == Init => Lifecycle!Init
  BY DEF Init, Lifecycle!Init, NoRow

(* Where no two tasks work on one delivery, every step of the web process, *)
(* of the workers and of the faults that leave the database up is a step   *)
(* of the state machine that the API promises, or leaves it alone.         *)
THEOREM LifecycleCorrect ==
  ASSUME OneProcess \/ OneChain, "db" \notin FaultKinds
  PROVE  Spec /\ []Uncapped => ImplementsLifecycle
<1>1. TypeOK /\ SerialInv /\ FailingAfterFault /\ Uncapped /\ Recordable /\ [Next]_vars
        => [Lifecycle!Next]_(Lifecycle!vars)
  BY LifecycleStep
<1> QED
  BY <1>1, LifecycleInit, TypeCorrect, FailingCorrect, ExclusiveCorrect, SerialCorrect,
     RecordableCorrect, PTL
     DEF Spec, ImplementsLifecycle, Lifecycle!Spec

(* One chain of attempts never reaches the bound of the counters, so the   *)
(* deployment of docker-compose.yml implements the state machine outright, *)
(* with any number of worker processes.                                    *)
THEOREM LifecycleAsShipped ==
  ASSUME OneChain, "db" \notin FaultKinds
  PROVE  Spec => ImplementsLifecycle
<1>1. TypeOK /\ AttemptsInv => Uncapped
  <2> SUFFICES ASSUME TypeOK, AttemptsInv, NEW w \in Workers, pc[w] = "sending"
               PROVE  refused[job[w].d] < CounterCap
    BY DEF Uncapped
  <2>1. job[w].d \in Deliveries /\ job[w].r \in Retries
    BY BusyHoldsJob
  <2>2. Attempts(job[w].d) <= job[w].r
    BY DEF AttemptsInv
  <2>3. accepted[job[w].d] \in Nat /\ refused[job[w].d] \in Nat
    BY <2>1, AttemptsType
  <2> QED
    BY <2>1, <2>2, <2>3, BoundsAssumption DEF Attempts, Retries
<1> QED
  BY <1>1, TypeCorrect, AttemptsCorrect, LifecycleCorrect, PTL

=============================================================================
