------------------------- MODULE DeliveryInvariants -------------------------
(***************************************************************************)
(* Further invariants of Delivery, proved for any number of workers, any   *)
(* duplication of messages and every fault.                                *)
(***************************************************************************)
EXTENDS DeliveryProofs

-----------------------------------------------------------------------------
(* Lemmas about the steps.                                                 *)

(* Publishing adds messages of the published delivery and retry count only.*)
LEMMA PublishAdds ==
  ASSUME TypeOK, NEW d, NEW r, Publish(d, r),
         NEW e \in Deliveries, NEW s \in Retries, queue'[e][s] > 0
  PROVE  queue[e][s] > 0 \/ (e = d /\ s = r)
<1>1. queue[e] \in [Retries -> Nat]
  BY DEF TypeOK
<1>2. CASE e = d
  BY <1>1, <1>2 DEF Publish, TypeOK
<1>3. CASE e # d
  BY <1>3 DEF Publish, TypeOK
<1> QED
  BY <1>2, <1>3

(* Where taking a message leads, and what the session then holds.          *)
LEMMA TookLabel ==
  ASSUME NEW w, NEW d, NEW r, Take(w, d, r)
  PROVE  \E label \in {"done", "rejecting", "loaded"} :
           /\ pc' = [pc EXCEPT ![w] = label]
           /\ seen' = [seen EXCEPT ![w] = NoRow] \/ seen' = [seen EXCEPT ![w] = row[d]]
<1>1. \/ Leave(w)
      \/ /\ Goto(w, IF d \in unsendable THEN "rejecting" ELSE "loaded")
         /\ seen' = [seen EXCEPT ![w] = row[d]]
  BY DEF Take
<1>2. CASE Leave(w)
  BY <1>2 DEF Leave, Goto
<1>3. CASE Goto(w, "rejecting") /\ seen' = [seen EXCEPT ![w] = row[d]]
  BY <1>3 DEF Goto
<1>4. CASE Goto(w, "loaded") /\ seen' = [seen EXCEPT ![w] = row[d]]
  BY <1>4 DEF Goto
<1>5. CASE d \in unsendable
  BY <1>1, <1>2, <1>3, <1>5
<1>6. CASE d \notin unsendable
  BY <1>1, <1>2, <1>4, <1>6
<1> QED
  BY <1>5, <1>6

(* The transitions of send_notification_delivery.                          *)
Writes(w, to) ==
  \/ to = "FAILED" /\ (FailUnsendable(w) \/ MarkFailed(w) \/ MarkFatal(w))
  \/ to = "SENT" /\ MarkSent(w)
  \/ to = "DELIVERED" /\ MarkDelivered(w)
  \/ to = "PENDING" /\ MarkPending(w)

(* Such a step changes the row of the message only, gives it the status    *)
(* `to` or, where the session already held that, leaves it.                *)
LEMMA WriteStatus ==
  ASSUME TypeOK, NEW w \in Workers, NEW to, Writes(w, to)
  PROVE  /\ to \in Stored
         /\ job[w] # NoJob /\ job[w].d \in Deliveries
         /\ \A d \in Deliveries :
              row'[d] = row[d] \/ (d = job[w].d /\ row'[d].status \in {row[d].status, to})
<1>1. to \in Stored
  BY DEF Writes, Stored
<1>2. job[w] # NoJob /\ job[w] \in Jobs /\ job[w].d \in Deliveries
  BY BusyHoldsJob DEF Writes, FailUnsendable, MarkFailed, MarkSent, MarkDelivered, MarkPending, MarkFatal
<1>3. seen[w] \in Rows /\ row[job[w].d] \in Rows
  BY <1>2 DEF TypeOK
<1>4. Update(w, seen[w], to, TRUE) \/ Update(w, seen[w], to, FALSE)
  BY DEF Writes, FailUnsendable, MarkFailed, MarkSent, MarkDelivered, MarkPending, MarkFatal
<1>5. \A d \in Deliveries : d # job[w].d => row'[d] = row[d]
  BY <1>4 DEF Update, TypeOK
<1>6. row'[job[w].d].status \in {row[job[w].d].status, to}
  BY <1>2, <1>3, <1>4 DEF Update, TypeOK, Rows
<1> QED
  BY <1>1, <1>2, <1>5, <1>6

-----------------------------------------------------------------------------
(* No message without a row.                                               *)

(* A row never goes away, so it is enough that whatever a step adds to the *)
(* broker or to a worker's hands names a row.                              *)
LEMMA NothingUnknown ==
  ASSUME NoPhantomTask,
         \A d \in Deliveries : row[d].status # "NONE" => row'[d].status # "NONE",
         \A d \in Deliveries, r \in Retries :
           queue'[d][r] > 0 => queue[d][r] > 0 \/ row[d].status # "NONE",
         \A w \in Workers :
           job'[w] # NoJob => job'[w] = job[w] \/ row[job'[w].d].status # "NONE",
         \A w \in Workers : \A d \in todo'[w] : d \in todo[w] \/ row[d].status # "NONE",
         \A d \in unsent' : d \in unsent \/ row'[d].status # "NONE",
         TypeOK, TypeOK'
  PROVE  NoPhantomTask'
<1>1. \A w \in Workers : job'[w] # NoJob => job'[w].d \in Deliveries
  BY DEF TypeOK, Jobs
<1>2. \A w \in Workers : todo'[w] \subseteq Deliveries
  BY DEF TypeOK
<1>3. unsent' \subseteq Deliveries
  BY DEF TypeOK
<1>4. QueuedHasRow'
  BY DEF NoPhantomTask, QueuedHasRow
<1>5. HeldHasRow'
  BY <1>1 DEF NoPhantomTask, HeldHasRow
<1>6. ToRequeueHasRow'
  BY <1>2 DEF NoPhantomTask, ToRequeueHasRow
<1>7. UnsentHasRow'
  BY <1>3 DEF NoPhantomTask, UnsentHasRow
<1> QED
  BY <1>4, <1>5, <1>6, <1>7 DEF NoPhantomTask

(* Commit before publish: no task ever looks for a row that is not there.  *)
THEOREM NoPhantomCorrect == Spec => []NoPhantomTask
<1>1. Init => NoPhantomTask
  BY DEF Init, NoPhantomTask, QueuedHasRow, HeldHasRow, ToRequeueHasRow, UnsentHasRow
<1>2. TypeOK /\ TypeOK' /\ NoPhantomTask /\ [Next]_vars => NoPhantomTask'
  <2> SUFFICES ASSUME TypeOK, TypeOK', NoPhantomTask, [Next]_vars PROVE NoPhantomTask'
    OBVIOUS
  <2>0. /\ \A d \in Deliveries, r \in Retries : queue[d][r] > 0 => row[d].status # "NONE"
        /\ \A w \in Workers : job[w] # NoJob => row[job[w].d].status # "NONE"
        /\ \A w \in Workers : \A d \in todo[w] : row[d].status # "NONE"
        /\ \A d \in unsent : row[d].status # "NONE"
    BY DEF NoPhantomTask, QueuedHasRow, HeldHasRow, ToRequeueHasRow, UnsentHasRow
  <2>1. ASSUME NEW ds \in SUBSET Deliveries, CreateDeliveries(ds) PROVE NoPhantomTask'
    <3>1. \A e \in Deliveries : row'[e].status # "NONE" \/ row'[e] = row[e]
      BY <2>1 DEF CreateDeliveries, TypeOK
    <3>2. \A d \in ds : row'[d].status # "NONE"
      BY <2>1 DEF CreateDeliveries, TypeOK
    <3> QED
      BY <2>1, <3>1, <3>2, NothingUnknown DEF CreateDeliveries, broker, worker
  <2>2. ASSUME NEW d \in Deliveries, ApplyAsync(d) PROVE NoPhantomTask'
    <3>1. row[d].status # "NONE" /\ Publish(d, 0) /\ UNCHANGED <<row, job, todo>> /\ unsent' \subseteq unsent
      BY <2>0, <2>2 DEF ApplyAsync, worker
    <3> QED
      BY <3>1, PublishAdds, NothingUnknown
  <2>3. ASSUME NEW d \in Deliveries, Ages(d) \/ TemplateLost(d)
        PROVE  NoPhantomTask'
    BY <2>3, NothingUnknown DEF Ages, TemplateLost, broker, worker
  <2>13. ASSUME NEW ds \in SUBSET Deliveries, EnqueueLost(ds) PROVE NoPhantomTask'
    BY <2>13, NothingUnknown DEF EnqueueLost, broker, worker
  <2>4. CASE BeatTick \/ UNCHANGED vars
    BY <2>4, NothingUnknown DEF BeatTick, db, worker, vars
  <2>5. ASSUME NEW w \in Workers, NEW to, Writes(w, to)
        PROVE  NoPhantomTask'
    <3>1. \A d \in Deliveries : row[d].status # "NONE" => row'[d].status # "NONE"
      BY <2>5, WriteStatus DEF Stored
    <3>2. UNCHANGED <<queue, job, todo, unsent>>
      BY <2>5 DEF Writes, FailUnsendable, MarkFailed, MarkSent, MarkDelivered, MarkPending,
                  MarkFatal, broker
    <3> QED
      BY <3>1, <3>2, NothingUnknown
  <2>6. ASSUME NEW w \in Workers,
               Refresh(w) \/ RefreshFails(w) \/ ProviderAccepts(w) \/ ProviderRefuses(w)
        PROVE  NoPhantomTask'
    BY <2>6, NothingUnknown DEF Refresh, RefreshFails, ProviderAccepts, ProviderRefuses, db, broker
  <2>7. ASSUME NEW w \in Workers, PublishRetry(w) PROVE NoPhantomTask'
    <3>1. job[w] # NoJob
      BY <2>7, BusyHoldsJob DEF PublishRetry
    <3>2. row[job[w].d].status # "NONE" /\ Publish(job[w].d, job[w].r + 1)
          /\ UNCHANGED <<row, unsent, job, todo>>
      BY <2>0, <2>7, <3>1 DEF PublishRetry, db
    <3> QED
      BY <3>2, PublishAdds, NothingUnknown
  <2>8. ASSUME NEW w \in Workers, NodeLost(w) \/ VisibilityTimeout(w) PROVE NoPhantomTask'
    <3>1. row[job[w].d].status # "NONE" /\ Publish(job[w].d, job[w].r) /\ UNCHANGED <<row, unsent>>
      BY <2>0, <2>8 DEF NodeLost, VisibilityTimeout, db
    <3>2. \A v \in Workers : /\ job'[v] = job[v] \/ job'[v] = NoJob
                             /\ todo'[v] \subseteq todo[v]
      BY <2>8 DEF NodeLost, VisibilityTimeout, Drop, worker, TypeOK
    <3> QED
      BY <3>1, <3>2, PublishAdds, NothingUnknown
  <2>9. ASSUME NEW w \in Workers, NEW d \in Deliveries, Requeue(w, d) PROVE NoPhantomTask'
    <3>1. row[d].status # "NONE" /\ Publish(d, 0) /\ UNCHANGED <<row, unsent, job>>
          /\ \A v \in Workers : todo'[v] \subseteq todo[v]
      BY <2>0, <2>9 DEF Requeue, db, TypeOK
    <3> QED
      BY <3>1, PublishAdds, NothingUnknown
  <2>10. ASSUME NEW w \in Workers,
                Acknowledge(w) \/ ChildLost(w) \/ RaiseOut(w) \/ ReconcileFails(w)
         PROVE  NoPhantomTask'
    <3>1. \A v \in Workers : /\ job'[v] = job[v] \/ job'[v] = NoJob
                             /\ todo'[v] \subseteq todo[v]
      BY <2>10 DEF Acknowledge, ChildLost, RaiseOut, ReconcileFails, Drop, TypeOK
    <3>2. UNCHANGED <<row, unsent, queue>>
      BY <2>10 DEF Acknowledge, ChildLost, RaiseOut, ReconcileFails, db, broker
    <3> QED
      BY <3>1, <3>2, NothingUnknown
  <2>11. ASSUME NEW w \in Workers, TakeReconcile(w) PROVE NoPhantomTask'
    <3>1. \A v \in Workers : \A d \in todo'[v] : d \in todo[v] \/ row[d].status = "PENDING"
      BY <2>11 DEF TakeReconcile, Stuck, TypeOK
    <3>2. UNCHANGED <<row, unsent, queue, job>>
      BY <2>11 DEF TakeReconcile, db
    <3> QED
      BY <3>1, <3>2, NothingUnknown
  <2>12. ASSUME NEW w \in Workers, NEW d \in Deliveries, NEW r \in Retries, Take(w, d, r)
         PROVE  NoPhantomTask'
    <3>1. row[d].status # "NONE" /\ UNCHANGED <<row, unsent, todo>>
      BY <2>0, <2>12 DEF Take, db
    <3>2. \A v \in Workers : job'[v] = job[v] \/ job'[v].d = d
      BY <2>12 DEF Take, TypeOK
    <3>3. \A e \in Deliveries, s \in Retries : queue'[e][s] > 0 => queue[e][s] > 0
      BY <2>12 DEF Take, TypeOK
    <3> QED
      BY <3>1, <3>2, <3>3, NothingUnknown
  <2> QED
    BY <2>1, <2>2, <2>3, <2>4, <2>5, <2>6, <2>7, <2>8, <2>9, <2>10, <2>11, <2>12, <2>13
       DEF Next, Web, Step, TakeMessage, Environment, Writes
<1> QED
  BY <1>1, <1>2, TypeCorrect, PTL DEF Spec

-----------------------------------------------------------------------------
(* The retry count of a row.                                               *)

(* The copy a session holds is no better than the row, and one refusal is  *)
(* still uncounted when the task has just received it.                     *)
SeenHonest ==
  \A w \in Workers : job[w] # NoJob =>
    /\ seen[w].retries <= refused[job[w].d]
    /\ pc[w] = "refused" => Bump(seen[w].retries) <= refused[job[w].d]

RetryInv == RetryCountHonest /\ SeenHonest

LEMMA Numbers ==
  ASSUME TypeOK
  PROVE  /\ \A d \in Deliveries : row[d].retries \in Nat /\ refused[d] \in Counter /\ refused[d] \in Nat
         /\ \A w \in Workers : seen[w].retries \in Counter /\ seen[w].retries \in Nat
         /\ \A w \in Workers : job[w] # NoJob => job[w].d \in Deliveries /\ job[w].r \in Retries
         /\ faults \in Nat
  BY BoundsAssumption DEF TypeOK, Rows, Counter, Jobs

LEMMA UpdateKeepsRetries ==
  ASSUME TypeOK, NEW w \in Workers, job[w] \in Jobs, NEW held, NEW to,
         Update(w, held, to, FALSE), NEW d \in Deliveries
  PROVE  row'[d].retries = row[d].retries
<1>1. row[d] \in Rows /\ row[job[w].d] \in Rows
  BY DEF TypeOK, Jobs
<1>2. CASE d # job[w].d
  BY <1>2 DEF Update, TypeOK
<1>3. CASE d = job[w].d
  BY <1>1, <1>3 DEF Update, TypeOK, Rows
<1> QED
  BY <1>2, <1>3

(* A step of worker w that moves it to a place other than "refused" and    *)
(* keeps or drops what it holds.                                           *)
MovesOn(w) ==
  /\ \E label \in PCs \ {"refused"} : pc' = [pc EXCEPT ![w] = label]
  /\ job' = job \/ job' = [job EXCEPT ![w] = NoJob]
  /\ seen' = seen \/ seen' = [seen EXCEPT ![w] = NoRow]

LEMMA MovesOnKeeps ==
  ASSUME TypeOK, NEW w \in Workers, MovesOn(w), NEW v \in Workers, job'[v] # NoJob
  PROVE  \/ /\ job'[v] = job[v] /\ seen'[v] = seen[v]
            /\ pc'[v] = "refused" => pc[v] = "refused"
         \/ /\ pc'[v] # "refused"
            /\ seen'[v].retries = 0
<1>1. seen'[v] = seen[v] \/ (v = w /\ seen'[v].retries = 0)
  BY DEF MovesOn, TypeOK, NoRow
<1>2. job'[v] = job[v]
  BY DEF MovesOn, TypeOK
<1>3. IF v = w THEN pc'[v] # "refused" ELSE pc'[v] = pc[v]
  BY DEF MovesOn, TypeOK
<1> QED
  BY <1>1, <1>2, <1>3

LEMMA RetryKeeps ==
  ASSUME TypeOK, TypeOK', RetryInv, UNCHANGED refused,
         \A d \in Deliveries :
           row'[d].retries = row[d].retries \/ row'[d].retries <= refused[d],
         \A w \in Workers : job'[w] # NoJob =>
           \/ /\ job'[w] = job[w] /\ seen'[w] = seen[w]
              /\ pc'[w] = "refused" => pc[w] = "refused"
           \/ /\ pc'[w] # "refused"
              /\ seen'[w].retries = 0 \/ seen'[w] = row[job'[w].d]
  PROVE  RetryInv'
<1>1. RetryCountHonest'
  BY DEF RetryInv, RetryCountHonest
<1>2. ASSUME NEW w \in Workers, job'[w] # NoJob
      PROVE  /\ seen'[w].retries <= refused'[job'[w].d]
             /\ pc'[w] = "refused" => Bump(seen'[w].retries) <= refused'[job'[w].d]
  <2>1. job'[w].d \in Deliveries /\ refused[job'[w].d] \in Nat
    BY <1>2, Numbers DEF TypeOK, Jobs
  <2>2. CASE job'[w] = job[w] /\ seen'[w] = seen[w] /\ (pc'[w] = "refused" => pc[w] = "refused")
    BY <1>2, <2>2 DEF RetryInv, SeenHonest
  <2>3. CASE pc'[w] # "refused" /\ seen'[w].retries = 0
    BY <2>1, <2>3
  <2>4. CASE pc'[w] # "refused" /\ seen'[w] = row[job'[w].d]
    BY <2>1, <2>4 DEF RetryInv, RetryCountHonest
  <2> QED
    BY <1>2, <2>2, <2>3, <2>4
<1> QED
  BY <1>1, <1>2 DEF RetryInv, SeenHonest

(* retry_count never claims more refusals than providers have made.        *)
THEOREM RetryCountCorrect == Spec => []RetryCountHonest
<1>1. Init => RetryInv
  BY DEF Init, RetryInv, RetryCountHonest, SeenHonest, NoRow
<1>2. TypeOK /\ TypeOK' /\ RetryInv /\ [Next]_vars => RetryInv'
  <2> SUFFICES ASSUME TypeOK, TypeOK', RetryInv, [Next]_vars PROVE RetryInv'
    OBVIOUS
  <2>1. ASSUME NEW ds \in SUBSET Deliveries, CreateDeliveries(ds) PROVE RetryInv'
    <3>1. \A e \in Deliveries : row'[e].retries = row[e].retries
      BY <2>1 DEF CreateDeliveries, NoRow
    <3> QED
      BY <2>1, <3>1, RetryKeeps DEF CreateDeliveries, worker, history
  <2>2. ASSUME NEW d \in Deliveries,
               ApplyAsync(d) \/ Ages(d) \/ TemplateLost(d)
        PROVE  RetryInv'
    BY <2>2, RetryKeeps DEF ApplyAsync, Ages, TemplateLost, worker, history
  <2>11. ASSUME NEW ds \in SUBSET Deliveries, EnqueueLost(ds) PROVE RetryInv'
    BY <2>11, RetryKeeps DEF EnqueueLost, worker
  <2>3. CASE BeatTick \/ UNCHANGED vars
    BY <2>3, RetryKeeps DEF BeatTick, db, worker, history, vars
  <2>4. ASSUME NEW w \in Workers, NEW to, Writes(w, to)
        PROVE  RetryInv'
    <3>1. /\ to \in Stored /\ job[w] # NoJob /\ job[w].d \in Deliveries
      BY <2>4, WriteStatus
    <3>2. \A d \in Deliveries : row'[d].retries = row[d].retries \/ row'[d].retries <= refused[d]
      <4>1. job[w] \in Jobs /\ seen[w] \in Rows /\ row[job[w].d] \in Rows
        BY <3>1 DEF TypeOK
      <4>2. CASE MarkFailed(w) \/ MarkPending(w)
        <5>1. Bump(seen[w].retries) <= refused[job[w].d]
          BY <3>1, <4>2 DEF RetryInv, SeenHonest, MarkFailed, MarkPending
        <5>2. Update(w, seen[w], "FAILED", TRUE) \/ Update(w, seen[w], "PENDING", TRUE)
          BY <4>2 DEF MarkFailed, MarkPending
        <5>3. \A d \in Deliveries : \/ row'[d].retries = row[d].retries
                                    \/ d = job[w].d /\ row'[d].retries = Bump(seen[w].retries)
          BY <5>2 DEF Update, TypeOK, Rows
        <5> QED
          BY <5>1, <5>3
      <4>3. CASE FailUnsendable(w) \/ MarkSent(w) \/ MarkDelivered(w) \/ MarkFatal(w)
        <5>1. Update(w, seen[w], to, FALSE)
          BY <2>4, <4>3 DEF Writes, FailUnsendable, MarkSent, MarkDelivered, MarkFatal,
                            MarkFailed, MarkPending
        <5> QED
          BY <4>1, <5>1, UpdateKeepsRetries
      <4> QED
        BY <2>4, <4>2, <4>3 DEF Writes
    <3>3. \A v \in Workers : job'[v] # NoJob =>
            \/ /\ job'[v] = job[v] /\ seen'[v] = seen[v]
               /\ pc'[v] = "refused" => pc[v] = "refused"
            \/ /\ pc'[v] # "refused"
               /\ seen'[v].retries = 0
      <4>1. MovesOn(w)
        BY <2>4 DEF Writes, FailUnsendable, MarkFailed, MarkSent, MarkDelivered, MarkPending,
                    MarkFatal, Leave, Goto, MovesOn, PCs
      <4> QED
        BY <4>1, MovesOnKeeps
    <3>4. UNCHANGED refused
      BY <2>4 DEF Writes, FailUnsendable, MarkFailed, MarkSent, MarkDelivered, MarkPending,
                  MarkFatal, history
    <3> QED
      BY <3>2, <3>3, <3>4, RetryKeeps
  <2>5. ASSUME NEW w \in Workers, Refresh(w) \/ RefreshFails(w) PROVE RetryInv'
    <3>1. \A v \in Workers : job'[v] # NoJob =>
            \/ /\ job'[v] = job[v] /\ seen'[v] = seen[v]
               /\ pc'[v] = "refused" => pc[v] = "refused"
            \/ /\ pc'[v] # "refused"
               /\ seen'[v].retries = 0 \/ seen'[v] = row[job'[v].d]
      BY <2>5 DEF Refresh, RefreshFails, Leave, Goto, NoRow, TypeOK
    <3> QED
      BY <2>5, <3>1, RetryKeeps DEF Refresh, RefreshFails, db, history
  <2>6. ASSUME NEW w \in Workers, ProviderAccepts(w) PROVE RetryInv'
    <3>1. \A v \in Workers : job'[v] = job[v] /\ seen'[v] = seen[v]
                             /\ (pc'[v] = "refused" => pc[v] = "refused")
      BY <2>6 DEF ProviderAccepts, Goto, TypeOK
    <3> QED
      BY <2>6, <3>1, RetryKeeps DEF ProviderAccepts, db
  <2>7. ASSUME NEW w \in Workers, ProviderRefuses(w) PROVE RetryInv'
    <3>1. job[w] # NoJob /\ job[w].d \in Deliveries
      BY <2>7, BusyHoldsJob DEF ProviderRefuses
    <3>2. refused' = [refused EXCEPT ![job[w].d] = Bump(@)] /\ UNCHANGED <<row, job, seen>>
          /\ pc' = [pc EXCEPT ![w] = "refused"]
      BY <2>7 DEF ProviderRefuses, Goto, db
    <3>3. \A d \in Deliveries : refused[d] <= refused'[d]
      BY <3>2, Numbers, BumpGrows DEF TypeOK
    <3>4. Bump(seen[w].retries) <= refused'[job[w].d]
      <4>1. seen[w].retries <= refused[job[w].d]
        BY <3>1 DEF RetryInv, SeenHonest
      <4>2. refused'[job[w].d] = Bump(refused[job[w].d])
        BY <3>1, <3>2 DEF TypeOK
      <4>3. refused[job[w].d] \in 0..CounterCap /\ seen[w].retries \in 0..CounterCap
        BY <3>1, Numbers DEF Counter
      <4> QED
        BY <4>1, <4>2, <4>3, BoundsAssumption DEF Bump
    <3>5. RetryCountHonest'
      <4> SUFFICES ASSUME NEW d \in Deliveries PROVE row'[d].retries <= refused'[d]
        BY DEF RetryCountHonest
      <4>1. row[d].retries <= refused[d] /\ refused[d] <= refused'[d] /\ row'[d] = row[d]
        BY <3>2, <3>3 DEF RetryInv, RetryCountHonest
      <4>2. row[d].retries \in Nat /\ refused[d] \in Nat /\ refused'[d] \in Nat
        BY BoundsAssumption DEF TypeOK, Rows, Counter
      <4> QED
        BY <4>1, <4>2
    <3>6. SeenHonest'
      <4> SUFFICES ASSUME NEW v \in Workers, job'[v] # NoJob
                   PROVE  /\ seen'[v].retries <= refused'[job'[v].d]
                          /\ pc'[v] = "refused" => Bump(seen'[v].retries) <= refused'[job'[v].d]
        BY DEF SeenHonest
      <4>1. job[v] # NoJob /\ job'[v] = job[v] /\ seen'[v] = seen[v] /\ job[v].d \in Deliveries
        BY <3>2, Numbers
      <4>2. /\ seen[v].retries \in Nat /\ refused[job[v].d] \in Nat /\ refused'[job[v].d] \in Nat
            /\ Bump(seen[v].retries) \in Nat
        BY <4>1, Numbers, BumpType, BoundsAssumption DEF TypeOK, Counter
      <4>3. refused[job[v].d] <= refused'[job[v].d] /\ seen[v].retries <= refused[job[v].d]
        BY <3>3, <4>1 DEF RetryInv, SeenHonest
      <4>4. CASE v = w
        BY <3>4, <4>1, <4>2, <4>3, <4>4
      <4>5. CASE v # w
        <5>1. pc'[v] = pc[v]
          BY <3>2, <4>5 DEF TypeOK
        <5>2. pc[v] = "refused" => Bump(seen[v].retries) <= refused[job[v].d]
          BY <4>1 DEF RetryInv, SeenHonest
        <5> QED
          BY <4>1, <4>2, <4>3, <5>1, <5>2
      <4> QED
        BY <4>4, <4>5
    <3> QED
      BY <3>5, <3>6 DEF RetryInv
  <2>8. ASSUME NEW w \in Workers,
               \/ PublishRetry(w) \/ Acknowledge(w) \/ RaiseOut(w)
               \/ ChildLost(w) \/ NodeLost(w) \/ ReconcileFails(w) \/ VisibilityTimeout(w)
        PROVE  RetryInv'
    <3>1. \A v \in Workers : job'[v] # NoJob =>
            \/ /\ job'[v] = job[v] /\ seen'[v] = seen[v]
               /\ pc'[v] = "refused" => pc[v] = "refused"
            \/ /\ pc'[v] # "refused"
               /\ seen'[v].retries = 0
      <4>1. MovesOn(w) \/ UNCHANGED worker
        <5>1. CASE PublishRetry(w) \/ RaiseOut(w)
          BY <5>1 DEF PublishRetry, RaiseOut, Leave, Goto, MovesOn, PCs
        <5>2. CASE Acknowledge(w)
          BY <5>2 DEF Acknowledge, Goto, MovesOn, PCs
        <5>3. CASE ChildLost(w) \/ NodeLost(w) \/ ReconcileFails(w)
          BY <5>3 DEF ChildLost, NodeLost, ReconcileFails, Drop, Goto, MovesOn, PCs
        <5>4. CASE VisibilityTimeout(w)
          BY <5>4 DEF VisibilityTimeout
        <5> QED
          BY <2>8, <5>1, <5>2, <5>3, <5>4
      <4> QED
        BY <4>1, MovesOnKeeps DEF worker
    <3>2. UNCHANGED <<row, refused>>
      BY <2>8 DEF PublishRetry, Acknowledge, RaiseOut, ChildLost, NodeLost, ReconcileFails,
                  VisibilityTimeout, db, history
    <3> QED
      BY <3>1, <3>2, RetryKeeps
  <2>9. ASSUME NEW w \in Workers, TakeReconcile(w) \/ \E d \in Deliveries : Requeue(w, d)
        PROVE  RetryInv'
    <3>1. \A v \in Workers : job'[v] = job[v] /\ seen'[v] = seen[v]
                             /\ (pc'[v] = "refused" => pc[v] = "refused")
      BY <2>9 DEF TakeReconcile, Requeue, Goto, TypeOK
    <3> QED
      BY <2>9, <3>1, RetryKeeps DEF TakeReconcile, Requeue, db, history
  <2>10. ASSUME NEW w \in Workers, NEW d \in Deliveries, NEW r \in Retries, Take(w, d, r)
         PROVE  RetryInv'
    <3>1. job' = [job EXCEPT ![w] = [d |-> d, r |-> r]] /\ UNCHANGED <<row, refused>>
      BY <2>10 DEF Take, db, history
    <3>2. \E label \in {"done", "rejecting", "loaded"} :
            /\ pc' = [pc EXCEPT ![w] = label]
            /\ seen' = [seen EXCEPT ![w] = NoRow] \/ seen' = [seen EXCEPT ![w] = row[d]]
      BY <2>10, TookLabel
    <3>3. job'[w].d = d /\ pc'[w] # "refused" /\ (seen'[w].retries = 0 \/ seen'[w] = row[d])
      BY <3>1, <3>2 DEF TypeOK, NoRow
    <3>4. \A v \in Workers : v # w => job'[v] = job[v] /\ seen'[v] = seen[v] /\ pc'[v] = pc[v]
      BY <3>1, <3>2 DEF TypeOK
    <3>5. \A v \in Workers : job'[v] # NoJob =>
            \/ /\ job'[v] = job[v] /\ seen'[v] = seen[v]
               /\ pc'[v] = "refused" => pc[v] = "refused"
            \/ /\ pc'[v] # "refused"
               /\ seen'[v].retries = 0 \/ seen'[v] = row[job'[v].d]
      BY <3>3, <3>4
    <3> QED
      BY <3>1, <3>5, RetryKeeps
  <2> QED
    BY <2>1, <2>2, <2>3, <2>4, <2>5, <2>6, <2>7, <2>8, <2>9, <2>10, <2>11
       DEF Next, Web, Step, TakeMessage, Environment, Writes
<1>3. RetryInv => RetryCountHonest
  BY DEF RetryInv
<1> QED
  BY <1>1, <1>2, <1>3, TypeCorrect, PTL DEF Spec

-----------------------------------------------------------------------------
(* Giving up.                                                              *)

(* The retry count of a message is backed by as many refusals, and by one  *)
(* more from the moment its own attempt has been refused.                  *)
QueuedBudget ==
  \A d \in Deliveries, r \in Retries : queue[d][r] > 0 => r <= refused[d]
HeldBudget ==
  \A w \in Workers : job[w] # NoJob =>
    /\ job[w].r <= refused[job[w].d]
    /\ pc[w] \in {"refused", "requeue"} => job[w].r < refused[job[w].d]

BudgetInv == QueuedBudget /\ HeldBudget /\ GaveUpOnlyWhenExhausted

LEMMA BudgetKeeps ==
  ASSUME TypeOK, TypeOK', BudgetInv,
         UNCHANGED refused, unsendable \subseteq unsendable', faults > 0 => faults' > 0,
         \A d \in Deliveries : row'[d].status = "FAILED" =>
           row[d].status = "FAILED" \/ refused[d] > MaxRetries \/ d \in unsendable \/ faults' > 0,
         \A d \in Deliveries, r \in Retries :
           queue'[d][r] > 0 => queue[d][r] > 0 \/ r <= refused[d],
         \A w \in Workers : job'[w] # NoJob =>
           \/ /\ job'[w] = job[w]
              /\ pc'[w] \in {"refused", "requeue"} => pc[w] \in {"refused", "requeue"}
           \/ /\ pc'[w] \notin {"refused", "requeue"}
              /\ job'[w].r <= refused[job'[w].d]
  PROVE  BudgetInv'
<1>1. QueuedBudget'
  BY DEF BudgetInv, QueuedBudget
<1>2. HeldBudget'
  BY DEF BudgetInv, HeldBudget
<1>3. GaveUpOnlyWhenExhausted'
  BY DEF BudgetInv, GaveUpOnlyWhenExhausted
<1> QED
  BY <1>1, <1>2, <1>3 DEF BudgetInv

(* A step of worker w that moves it to a place where its own attempt has   *)
(* not been refused and keeps or drops its message.                        *)
Leaves(w) ==
  /\ \E label \in PCs \ {"refused", "requeue"} : pc' = [pc EXCEPT ![w] = label]
  /\ job' = job \/ job' = [job EXCEPT ![w] = NoJob]

LEMMA LeavesKeeps ==
  ASSUME TypeOK, NEW w \in Workers, Leaves(w), NEW v \in Workers, job'[v] # NoJob
  PROVE  /\ job'[v] = job[v]
         /\ pc'[v] \in {"refused", "requeue"} => pc[v] \in {"refused", "requeue"}
<1>1. job'[v] = job[v]
  BY DEF Leaves, TypeOK
<1>2. IF v = w THEN pc'[v] \notin {"refused", "requeue"} ELSE pc'[v] = pc[v]
  BY DEF Leaves, TypeOK
<1> QED
  BY <1>1, <1>2

(* A task that is about to reject a delivery has found its template gone.  *)
RejectedUnsendable == \A w \in Workers : pc[w] = "rejecting" => job[w].d \in unsendable

LEMMA RejectedCorrect == Spec => []RejectedUnsendable
<1>1. Init => RejectedUnsendable
  BY DEF Init, RejectedUnsendable
<1>2. TypeOK /\ RejectedUnsendable /\ [Next]_vars => RejectedUnsendable'
  <2> SUFFICES ASSUME TypeOK, RejectedUnsendable, [Next]_vars PROVE RejectedUnsendable'
    OBVIOUS
  <2>1. ASSUME unsendable \subseteq unsendable',
               \A v \in Workers : pc'[v] = "rejecting" => pc[v] = "rejecting" /\ job'[v] = job[v]
        PROVE  RejectedUnsendable'
    BY <2>1 DEF RejectedUnsendable
  <2>2. ASSUME NEW ds, CreateDeliveries(ds) \/ EnqueueLost(ds) PROVE RejectedUnsendable'
    BY <2>1, <2>2 DEF CreateDeliveries, EnqueueLost, worker
  <2>3. ASSUME NEW d, ApplyAsync(d) \/ Ages(d) \/ TemplateLost(d) PROVE RejectedUnsendable'
    BY <2>1, <2>3 DEF ApplyAsync, Ages, TemplateLost, worker
  <2>4. CASE BeatTick \/ UNCHANGED vars
    BY <2>1, <2>4 DEF BeatTick, db, worker, vars
  <2>5. ASSUME NEW w \in Workers, Step(w) \/ TakeReconcile(w) PROVE RejectedUnsendable'
    <3>1. UNCHANGED unsendable
      BY <2>5 DEF Step, FailUnsendable, MarkSent, Refresh, ProviderAccepts, ProviderRefuses, MarkDelivered,
                  MarkFailed, MarkPending, MarkFatal, PublishRetry, Acknowledge, Requeue, TakeReconcile, db
    <3>2. \E label \in PCs \ {"rejecting"} : pc' = [pc EXCEPT ![w] = label]
      BY <2>5 DEF Step, FailUnsendable, MarkSent, Refresh, ProviderAccepts, ProviderRefuses, MarkDelivered,
                  MarkFailed, MarkPending, MarkFatal, PublishRetry, Acknowledge, Requeue, TakeReconcile, Leave, Goto, PCs
    <3>3. \A v \in Workers : v # w => job'[v] = job[v]
      BY <2>5 DEF Step, FailUnsendable, MarkSent, Refresh, ProviderAccepts, ProviderRefuses, MarkDelivered,
                  MarkFailed, MarkPending, MarkFatal, PublishRetry, Acknowledge, Requeue, TakeReconcile, TypeOK
    <3> QED
      BY <2>1, <3>1, <3>2, <3>3 DEF TypeOK
  <2>6. ASSUME NEW w \in Workers, NEW d \in Deliveries, NEW r \in Retries, Take(w, d, r)
        PROVE  RejectedUnsendable'
    <3>1. job' = [job EXCEPT ![w] = [d |-> d, r |-> r]] /\ UNCHANGED unsendable
      BY <2>6 DEF Take, db
    <3>2. \A v \in Workers : v # w => pc'[v] = pc[v] /\ job'[v] = job[v]
      BY <2>6, <3>1, TookLabel DEF TypeOK
    <3>3. pc'[w] = "rejecting" => d \in unsendable
      BY <2>6 DEF Take, Leave, Goto, TypeOK
    <3> QED
      BY <3>1, <3>2, <3>3 DEF RejectedUnsendable, TypeOK
  <2>7. ASSUME NEW w \in Workers, ChildLost(w) \/ NodeLost(w) \/ ReconcileFails(w)
        PROVE  RejectedUnsendable'
    BY <2>1, <2>7 DEF ChildLost, NodeLost, ReconcileFails, Drop, Goto, TypeOK, db
  <2>8. ASSUME NEW w \in Workers, VisibilityTimeout(w) PROVE RejectedUnsendable'
    BY <2>1, <2>8 DEF VisibilityTimeout, db, worker
  <2>9. ASSUME NEW w \in Workers, RaiseOut(w) \/ RefreshFails(w) PROVE RejectedUnsendable'
    BY <2>1, <2>9 DEF RaiseOut, RefreshFails, Leave, Goto, TypeOK, db
  <2> QED
    BY <2>2, <2>3, <2>4, <2>5, <2>6, <2>7, <2>8, <2>9 DEF Next, Web, TakeMessage, Environment
<1> QED
  BY <1>1, <1>2, TypeCorrect, PTL DEF Spec

(* Only a fault of the database brings a task to the handler for           *)
(* unexpected exceptions.                                                  *)
FailingAfterFault ==
  \A w \in Workers : pc[w] = "failing" =>
    faults > 0 /\ MaxFaults > 0 /\ "db" \in FaultKinds

LEMMA FailingCorrect == Spec => []FailingAfterFault
<1>1. Init => FailingAfterFault
  BY DEF Init, FailingAfterFault
<1>2. TypeOK /\ FailingAfterFault /\ [Next]_vars => FailingAfterFault'
  <2> SUFFICES ASSUME TypeOK, FailingAfterFault, [Next]_vars PROVE FailingAfterFault'
    OBVIOUS
  <2>0. faults \in Nat /\ MaxFaults \in Nat
    BY BoundsAssumption DEF TypeOK
  <2>1. ASSUME faults' = faults \/ faults' = faults + 1,
               \A v \in Workers : pc'[v] = "failing" => pc[v] = "failing"
        PROVE  FailingAfterFault'
    BY <2>0, <2>1 DEF FailingAfterFault
  <2>2. ASSUME NEW ds, CreateDeliveries(ds) \/ EnqueueLost(ds) PROVE FailingAfterFault'
    BY <2>1, <2>2 DEF CreateDeliveries, EnqueueLost, Fault, worker, history
  <2>3. ASSUME NEW d, ApplyAsync(d) \/ Ages(d) \/ TemplateLost(d) PROVE FailingAfterFault'
    BY <2>1, <2>3 DEF ApplyAsync, Ages, TemplateLost, worker, history
  <2>4. CASE BeatTick \/ UNCHANGED vars
    BY <2>1, <2>4 DEF BeatTick, worker, history, vars
  <2>5. ASSUME NEW w \in Workers, Step(w) \/ TakeReconcile(w) PROVE FailingAfterFault'
    <3>1. UNCHANGED faults
      BY <2>5 DEF Step, FailUnsendable, MarkSent, Refresh, ProviderAccepts, ProviderRefuses, MarkDelivered,
                  MarkFailed, MarkPending, MarkFatal, PublishRetry, Acknowledge, Requeue, TakeReconcile, history
    <3>2. \E label \in PCs \ {"failing"} : pc' = [pc EXCEPT ![w] = label]
      BY <2>5 DEF Step, FailUnsendable, MarkSent, Refresh, ProviderAccepts, ProviderRefuses, MarkDelivered,
                  MarkFailed, MarkPending, MarkFatal, PublishRetry, Acknowledge, Requeue, TakeReconcile, Leave, Goto, PCs
    <3> QED
      BY <2>1, <3>1, <3>2 DEF TypeOK
  <2>6. ASSUME NEW w \in Workers, NEW d \in Deliveries, NEW r \in Retries, Take(w, d, r)
        PROVE  FailingAfterFault'
    <3>1. UNCHANGED faults
      BY <2>6 DEF Take, history
    <3> QED
      BY <2>1, <2>6, <3>1, TookLabel DEF TypeOK
  <2>7. ASSUME NEW w \in Workers, ChildLost(w) \/ NodeLost(w) \/ ReconcileFails(w)
        PROVE  FailingAfterFault'
    BY <2>1, <2>7 DEF ChildLost, NodeLost, ReconcileFails, Fault, Drop, Goto, TypeOK
  <2>8. ASSUME NEW w \in Workers, VisibilityTimeout(w) \/ RaiseOut(w) PROVE FailingAfterFault'
    BY <2>1, <2>8 DEF VisibilityTimeout, RaiseOut, Fault, Leave, Goto, TypeOK, worker
  <2>9. ASSUME NEW w \in Workers, RefreshFails(w) PROVE FailingAfterFault'
    <3>1. "db" \in FaultKinds /\ MaxFaults > 0 /\ faults' > 0
      BY <2>0, <2>9 DEF RefreshFails, Fault
    <3> QED
      BY <3>1 DEF FailingAfterFault
  <2> QED
    BY <2>2, <2>3, <2>4, <2>5, <2>6, <2>7, <2>8, <2>9 DEF Next, Web, TakeMessage, Environment
<1> QED
  BY <1>1, <1>2, TypeCorrect, PTL DEF Spec

(* Without a fault a row is given up only after MaxRetries + 1 refusals or *)
(* because it cannot be rendered, whatever tasks overlap.                  *)
THEOREM GaveUpCorrect == Spec => []GaveUpOnlyWhenExhausted
<1>1. Init => BudgetInv
  BY DEF Init, BudgetInv, QueuedBudget, HeldBudget, GaveUpOnlyWhenExhausted, NoRow
<1>2. TypeOK /\ TypeOK' /\ RejectedUnsendable /\ FailingAfterFault /\ BudgetInv /\ [Next]_vars
        => BudgetInv'
  <2> SUFFICES ASSUME TypeOK, TypeOK', RejectedUnsendable, FailingAfterFault, BudgetInv, [Next]_vars
               PROVE  BudgetInv'
    OBVIOUS
  <2>0. /\ \A d \in Deliveries : refused[d] \in Nat
        /\ faults \in Nat /\ MaxRetries \in Nat
        /\ \A w \in Workers : job[w] # NoJob => job[w].d \in Deliveries /\ job[w].r \in 0..MaxRetries
    BY Numbers, BoundsAssumption DEF Retries
  <2>1. ASSUME NEW ds \in SUBSET Deliveries, CreateDeliveries(ds) PROVE BudgetInv'
    <3>1. \A e \in Deliveries : row'[e].status = "FAILED" => row[e].status = "FAILED"
      BY <2>1 DEF CreateDeliveries, TypeOK, Rows
    <3> QED
      BY <2>1, <3>1, BudgetKeeps DEF CreateDeliveries, broker, worker, history
  <2>2. ASSUME NEW d \in Deliveries, ApplyAsync(d) PROVE BudgetInv'
    <3>1. \A e \in Deliveries, r \in Retries : queue'[e][r] > 0 => queue[e][r] > 0 \/ r <= refused[e]
      BY <2>0, <2>2, PublishAdds DEF ApplyAsync
    <3> QED
      BY <2>2, <3>1, BudgetKeeps DEF ApplyAsync, worker, history
  <2>3. ASSUME NEW d \in Deliveries, Ages(d) \/ TemplateLost(d)
        PROVE  BudgetInv'
    <3>1. faults > 0 => faults' > 0
      BY <2>0, <2>3 DEF Ages, TemplateLost, history
    <3> QED
      BY <2>3, <3>1, BudgetKeeps DEF Ages, TemplateLost, broker, worker, history
  <2>16. ASSUME NEW ds \in SUBSET Deliveries, EnqueueLost(ds) PROVE BudgetInv'
    <3>1. faults > 0 => faults' > 0
      BY <2>0, <2>16 DEF EnqueueLost, Fault
    <3> QED
      BY <2>16, <3>1, BudgetKeeps DEF EnqueueLost, broker, worker
  <2>4. CASE BeatTick \/ UNCHANGED vars
    BY <2>4, BudgetKeeps DEF BeatTick, db, worker, history, vars
  <2>5. ASSUME NEW w \in Workers,
               FailUnsendable(w) \/ MarkSent(w) \/ MarkDelivered(w) \/ MarkFailed(w) \/ MarkFatal(w)
        PROVE  BudgetInv'
    <3>1. PICK to : Writes(w, to)
      BY <2>5 DEF Writes
    <3>2. job[w] # NoJob /\ job[w].d \in Deliveries
      BY <3>1, WriteStatus
    <3>3. to = "FAILED" => refused[job[w].d] > MaxRetries \/ job[w].d \in unsendable \/ faults > 0
      <4>1. CASE FailUnsendable(w)
        BY <4>1 DEF FailUnsendable, RejectedUnsendable
      <4>2. CASE MarkFailed(w)
        <5>1. job[w].r >= MaxRetries /\ job[w].r < refused[job[w].d]
          BY <3>2, <4>2 DEF MarkFailed, Exhausted, BudgetInv, HeldBudget
        <5> QED
          BY <2>0, <3>2, <5>1
      <4>3. CASE MarkFatal(w)
        BY <4>3 DEF MarkFatal, FailingAfterFault
      <4> QED
        BY <3>1, <4>1, <4>2, <4>3 DEF Writes
    <3>4. \A d \in Deliveries : row'[d].status = "FAILED" =>
            row[d].status = "FAILED" \/ refused[d] > MaxRetries \/ d \in unsendable \/ faults > 0
      BY <3>1, <3>3, WriteStatus
    <3>5. Leaves(w) /\ UNCHANGED <<queue, refused, unsendable, faults>>
      BY <2>5 DEF FailUnsendable, MarkFailed, MarkSent, MarkDelivered, MarkFatal,
                  Leave, Goto, Leaves, PCs, broker, history
    <3> QED
      BY <3>4, <3>5, LeavesKeeps, BudgetKeeps
  <2>6. ASSUME NEW w \in Workers, MarkPending(w) PROVE BudgetInv'
    <3>1. Writes(w, "PENDING")
      BY <2>6 DEF Writes
    <3>2. \A d \in Deliveries : row'[d].status = "FAILED" => row[d].status = "FAILED"
      BY <3>1, WriteStatus
    <3>3. \A v \in Workers : /\ job'[v] = job[v]
                             /\ pc'[v] \in {"refused", "requeue"} => pc[v] \in {"refused", "requeue"}
      BY <2>6 DEF MarkPending, Goto, TypeOK
    <3> QED
      BY <2>6, <3>2, <3>3, BudgetKeeps DEF MarkPending, broker, history
  <2>7. ASSUME NEW w \in Workers, RefreshFails(w) PROVE BudgetInv'
    <3>1. Leaves(w) /\ UNCHANGED <<row, queue, refused, unsendable>> /\ faults' = faults + 1
      BY <2>7 DEF RefreshFails, Fault, Goto, Leaves, PCs, db, broker
    <3>2. faults' > 0
      BY <2>0, <3>1
    <3> QED
      BY <3>1, <3>2, LeavesKeeps, BudgetKeeps
  <2>8. ASSUME NEW w \in Workers, Refresh(w) \/ ProviderAccepts(w) \/ Acknowledge(w) PROVE BudgetInv'
    <3>1. Leaves(w)
      BY <2>8 DEF Refresh, ProviderAccepts, Acknowledge, Leave, Goto, Leaves, PCs
    <3> QED
      BY <2>8, <3>1, LeavesKeeps, BudgetKeeps
         DEF Refresh, ProviderAccepts, Acknowledge, db, broker, history
  <2>9. ASSUME NEW w \in Workers, ProviderRefuses(w) PROVE BudgetInv'
    <3>1. job[w] # NoJob /\ job[w].d \in Deliveries
      BY <2>9, BusyHoldsJob DEF ProviderRefuses
    <3>2. /\ refused' = [refused EXCEPT ![job[w].d] = Bump(@)]
          /\ pc' = [pc EXCEPT ![w] = "refused"]
          /\ UNCHANGED <<row, job, queue, unsendable, faults>>
      BY <2>9 DEF ProviderRefuses, Goto, db, broker
    <3>3. \A d \in Deliveries : refused[d] <= refused'[d] /\ refused'[d] \in Nat
      BY <3>2, Numbers, BumpGrows, BumpType, BoundsAssumption DEF TypeOK, Counter
    <3>4. job[w].r < refused'[job[w].d]
      <4>1. job[w].r <= refused[job[w].d] /\ job[w].r \in 0..MaxRetries
        BY <2>0, <3>1 DEF BudgetInv, HeldBudget
      <4>2. refused'[job[w].d] = Bump(refused[job[w].d]) /\ refused[job[w].d] \in 0..CounterCap
        BY <3>1, <3>2, Numbers DEF TypeOK, Counter
      <4> QED
        BY <4>1, <4>2, BoundsAssumption DEF Bump
    <3>5. QueuedBudget'
      <4> SUFFICES ASSUME NEW d \in Deliveries, NEW r \in Retries, queue'[d][r] > 0
                   PROVE  r <= refused'[d]
        BY DEF QueuedBudget
      <4>1. r <= refused[d] /\ r \in 0..MaxRetries
        BY <3>2 DEF BudgetInv, QueuedBudget, Retries
      <4> QED
        BY <2>0, <3>3, <4>1
    <3>6. HeldBudget'
      <4> SUFFICES ASSUME NEW v \in Workers, job'[v] # NoJob
                   PROVE  /\ job'[v].r <= refused'[job'[v].d]
                          /\ pc'[v] \in {"refused", "requeue"} => job'[v].r < refused'[job'[v].d]
        BY DEF HeldBudget
      <4>1. job'[v] = job[v] /\ job[v] # NoJob /\ job[v].d \in Deliveries /\ job[v].r \in 0..MaxRetries
        BY <2>0, <3>2
      <4>2. refused[job[v].d] <= refused'[job[v].d]
            /\ refused[job[v].d] \in Nat /\ refused'[job[v].d] \in Nat
        BY <2>0, <3>3, <4>1
      <4>3. job[v].r <= refused[job[v].d]
            /\ (pc[v] \in {"refused", "requeue"} => job[v].r < refused[job[v].d])
        BY <4>1 DEF BudgetInv, HeldBudget
      <4>4. v = w \/ pc'[v] = pc[v]
        BY <3>2 DEF TypeOK
      <4> QED
        BY <3>4, <4>1, <4>2, <4>3, <4>4
    <3>7. GaveUpOnlyWhenExhausted'
      <4> SUFFICES ASSUME NEW d \in Deliveries, row'[d].status = "FAILED"
                   PROVE  refused'[d] > MaxRetries \/ d \in unsendable' \/ faults' > 0
        BY DEF GaveUpOnlyWhenExhausted
      <4>1. refused[d] > MaxRetries \/ d \in unsendable \/ faults > 0
        BY <3>2 DEF BudgetInv, GaveUpOnlyWhenExhausted
      <4> QED
        BY <2>0, <3>2, <3>3, <4>1
    <3> QED
      BY <3>5, <3>6, <3>7 DEF BudgetInv
  <2>10. ASSUME NEW w \in Workers, PublishRetry(w) PROVE BudgetInv'
    <3>1. job[w] # NoJob
      BY <2>10, BusyHoldsJob DEF PublishRetry
    <3>2. job[w].r < refused[job[w].d] /\ job[w].d \in Deliveries /\ job[w].r \in 0..MaxRetries
      BY <2>0, <2>10, <3>1 DEF PublishRetry, BudgetInv, HeldBudget
    <3>3. Publish(job[w].d, job[w].r + 1) /\ Leaves(w)
          /\ UNCHANGED <<row, refused, unsendable, faults>>
      BY <2>10 DEF PublishRetry, Leave, Goto, Leaves, PCs, db, history
    <3>4. \A d \in Deliveries, r \in Retries : queue'[d][r] > 0 => queue[d][r] > 0 \/ r <= refused[d]
      <4> SUFFICES ASSUME NEW d \in Deliveries, NEW r \in Retries, queue'[d][r] > 0
                   PROVE  queue[d][r] > 0 \/ r <= refused[d]
        OBVIOUS
      <4>1. queue[d][r] > 0 \/ (d = job[w].d /\ r = job[w].r + 1)
        BY <3>3, PublishAdds
      <4> QED
        BY <2>0, <3>2, <4>1
    <3> QED
      BY <3>3, <3>4, LeavesKeeps, BudgetKeeps
  <2>11. ASSUME NEW w \in Workers, NodeLost(w) \/ VisibilityTimeout(w) PROVE BudgetInv'
    <3>1. job[w] # NoJob
      BY <2>11 DEF NodeLost, VisibilityTimeout
    <3>2. job[w].r <= refused[job[w].d]
      BY <3>1 DEF BudgetInv, HeldBudget
    <3>3. /\ Publish(job[w].d, job[w].r)
          /\ UNCHANGED <<row, refused, unsendable>> /\ faults' = faults + 1
      BY <2>11 DEF NodeLost, VisibilityTimeout, Fault, db
    <3>4. Leaves(w) \/ UNCHANGED <<pc, job>>
      <4>1. CASE NodeLost(w)
        BY <4>1 DEF NodeLost, Drop, Goto, Leaves, PCs
      <4> QED
        BY <2>11, <4>1 DEF VisibilityTimeout, worker
    <3>5. \A d \in Deliveries, r \in Retries : queue'[d][r] > 0 => queue[d][r] > 0 \/ r <= refused[d]
      BY <3>2, <3>3, PublishAdds
    <3>6. faults' > 0
      BY <2>0, <3>3
    <3> QED
      BY <3>3, <3>4, <3>5, <3>6, LeavesKeeps, BudgetKeeps
  <2>12. ASSUME NEW w \in Workers, NEW d \in Deliveries, Requeue(w, d) PROVE BudgetInv'
    <3>1. \A e \in Deliveries, r \in Retries : queue'[e][r] > 0 => queue[e][r] > 0 \/ r <= refused[e]
      BY <2>0, <2>12, PublishAdds DEF Requeue
    <3>2. Leaves(w)
      BY <2>12 DEF Requeue, Goto, Leaves, PCs
    <3> QED
      BY <2>12, <3>1, <3>2, LeavesKeeps, BudgetKeeps DEF Requeue, db, history
  <2>13. ASSUME NEW w \in Workers, TakeReconcile(w) PROVE BudgetInv'
    <3>1. Leaves(w)
      BY <2>13 DEF TakeReconcile, Goto, Leaves, PCs
    <3> QED
      BY <2>13, <3>1, LeavesKeeps, BudgetKeeps DEF TakeReconcile, db, history
  <2>14. ASSUME NEW w \in Workers, ChildLost(w) \/ RaiseOut(w) \/ ReconcileFails(w)
         PROVE  BudgetInv'
    <3>1. Leaves(w)
      <4>1. CASE ChildLost(w) \/ ReconcileFails(w)
        BY <4>1 DEF ChildLost, ReconcileFails, Drop, Goto, Leaves, PCs
      <4>2. CASE RaiseOut(w)
        BY <4>2 DEF RaiseOut, Leave, Goto, Leaves, PCs
      <4> QED
        BY <2>14, <4>1, <4>2
    <3>2. UNCHANGED <<row, refused, unsendable, queue>> /\ faults' = faults + 1
      BY <2>14 DEF ChildLost, RaiseOut, ReconcileFails, Fault, db, broker
    <3>3. faults' > 0
      BY <2>0, <3>2
    <3> QED
      BY <3>1, <3>2, <3>3, LeavesKeeps, BudgetKeeps
  <2>15. ASSUME NEW w \in Workers, NEW d \in Deliveries, NEW r \in Retries, Take(w, d, r)
         PROVE  BudgetInv'
    <3>1. job' = [job EXCEPT ![w] = [d |-> d, r |-> r]]
          /\ UNCHANGED <<row, refused, unsendable, faults>> /\ queue[d][r] > 0
      BY <2>15 DEF Take, db, history
    <3>2. \E label \in {"done", "rejecting", "loaded"} : pc' = [pc EXCEPT ![w] = label]
      BY <2>15, TookLabel
    <3>3. job'[w].d = d /\ job'[w].r = r /\ pc'[w] \notin {"refused", "requeue"} /\ r <= refused[d]
      BY <3>1, <3>2 DEF TypeOK, BudgetInv, QueuedBudget
    <3>4. \A v \in Workers : v # w => job'[v] = job[v] /\ pc'[v] = pc[v]
      BY <3>1, <3>2 DEF TypeOK
    <3>5. \A e \in Deliveries, s \in Retries : queue'[e][s] > 0 => queue[e][s] > 0
      BY <2>15 DEF Take, TypeOK
    <3>6. \A v \in Workers : job'[v] # NoJob =>
            \/ /\ job'[v] = job[v]
               /\ pc'[v] \in {"refused", "requeue"} => pc[v] \in {"refused", "requeue"}
            \/ /\ pc'[v] \notin {"refused", "requeue"}
               /\ job'[v].r <= refused[job'[v].d]
      BY <3>3, <3>4
    <3> QED
      BY <3>1, <3>5, <3>6, BudgetKeeps
  <2> QED
    BY <2>1, <2>2, <2>3, <2>4, <2>5, <2>6, <2>7, <2>8, <2>9, <2>10, <2>11, <2>12, <2>13,
       <2>14, <2>15, <2>16 DEF Next, Web, Step, TakeMessage, Environment
<1>3. BudgetInv => GaveUpOnlyWhenExhausted
  BY DEF BudgetInv
<1> QED
  BY <1>1, <1>2, <1>3, TypeCorrect, RejectedCorrect, FailingCorrect, PTL DEF Spec

-----------------------------------------------------------------------------
(* A SENT row has an owner.                                                *)

(* It is enough that no row becomes SENT without an owner, and that nobody *)
(* gives up a row that stays SENT.                                         *)
LEMMA OwnersKeep ==
  ASSUME SentHasOwner,
         faults' > 0 \/ faults' = faults,
         \A d \in Deliveries :
           row'[d].status = "SENT" => row[d].status = "SENT" \/ \E w \in Workers : Owns(w, d)',
         \A d \in Deliveries, w \in Workers :
           row'[d].status = "SENT" /\ Owns(w, d) => Owns(w, d)'
  PROVE  SentHasOwner'
<1> SUFFICES ASSUME NEW d \in Deliveries, row'[d].status = "SENT", ~ (faults' > 0)
             PROVE  \E w \in Workers : Owns(w, d)'
  BY DEF SentHasOwner
<1>1. CASE row[d].status = "SENT"
  <2>1. PICK w \in Workers : Owns(w, d)
    BY <1>1 DEF SentHasOwner
  <2> QED
    BY <2>1
<1> QED
  BY <1>1

(* A step of one worker leaves what the others own with them.              *)
LEMMA OthersOwn ==
  ASSUME NEW w \in Workers, TypeOK,
         \A v \in Workers \ {w} : pc'[v] = pc[v] /\ job'[v] = job[v] /\ seen'[v] = seen[v]
  PROVE  \A v \in Workers \ {w}, d \in Deliveries : Owns(v, d) => Owns(v, d)'
  BY DEF Owns, Handles

(* Nobody waits for a SENT row in vain as long as nothing fails.           *)
THEOREM SentHasOwnerCorrect == Spec => []SentHasOwner
<1>1. Init => SentHasOwner
  BY DEF Init, SentHasOwner, NoRow
<1>2. TypeOK /\ SentHasOwner /\ [Next]_vars => SentHasOwner'
  <2> SUFFICES ASSUME TypeOK, SentHasOwner, [Next]_vars PROVE SentHasOwner'
    OBVIOUS
  <2>0. faults \in Nat
    BY DEF TypeOK
  <2>1. ASSUME NEW ds \in SUBSET Deliveries, CreateDeliveries(ds) PROVE SentHasOwner'
    <3>1. \A e \in Deliveries : row'[e].status = "SENT" => row[e].status = "SENT"
      BY <2>1 DEF CreateDeliveries, TypeOK
    <3>2. UNCHANGED <<pc, job, seen, faults>>
      BY <2>1 DEF CreateDeliveries, worker, history
    <3> QED
      BY <3>1, <3>2, OwnersKeep DEF Owns, Handles
  <2>2. ASSUME UNCHANGED <<row, pc, job, seen>>, faults' = faults \/ faults' = faults + 1
        PROVE  SentHasOwner'
    BY <2>0, <2>2, OwnersKeep DEF Owns, Handles
  <2>3. ASSUME faults' = faults + 1 PROVE SentHasOwner'
    BY <2>0, <2>3 DEF SentHasOwner
  <2>4. ASSUME NEW w \in Workers, UNCHANGED <<row, faults>>,
               \A v \in Workers \ {w} : pc'[v] = pc[v] /\ job'[v] = job[v] /\ seen'[v] = seen[v],
               \A d \in Deliveries : row[d].status = "SENT" /\ Owns(w, d) => Owns(w, d)'
        PROVE  SentHasOwner'
    <3>1. \A v \in Workers, d \in Deliveries :
            row'[d].status = "SENT" /\ Owns(v, d) => Owns(v, d)'
      BY <2>4, OthersOwn
    <3> QED
      BY <2>4, <3>1, OwnersKeep
  <2>5. ASSUME NEW w \in Workers, NEW to, Writes(w, to) PROVE SentHasOwner'
    <3>1. /\ to \in Stored
          /\ job[w] # NoJob /\ job[w].d \in Deliveries
          /\ \A d \in Deliveries :
               row'[d] = row[d] \/ (d = job[w].d /\ row'[d].status \in {row[d].status, to})
      BY <2>5, WriteStatus
    <3>2. /\ UNCHANGED <<job, faults>>
          /\ \A v \in Workers \ {w} : pc'[v] = pc[v] /\ seen'[v] = seen[v]
      BY <2>5 DEF Writes, FailUnsendable, MarkFailed, MarkSent, MarkDelivered, MarkPending,
                  MarkFatal, Leave, Goto, TypeOK, history
    <3>3. \A v \in Workers \ {w}, d \in Deliveries : Owns(v, d) => Owns(v, d)'
      BY <3>2, OthersOwn
    <3>4. CASE to = "SENT"
      <4>1. pc[w] = "loaded" /\ pc'[w] = "marking"
        BY <2>5, <3>4 DEF Writes, MarkSent, Goto, TypeOK
      <4>2. Owns(w, job[w].d)'
        BY <3>1, <3>2, <4>1 DEF Owns, Handles
      <4>3. \A d \in Deliveries : ~ Owns(w, d)
        BY <4>1 DEF Owns
      <4> QED
        BY <3>1, <3>2, <3>3, <4>2, <4>3, OwnersKeep
    <3>5. CASE to # "SENT"
      <4>1. \A d \in Deliveries : row'[d].status = "SENT" => row[d].status = "SENT"
        BY <3>1, <3>5
      <4>2. ASSUME NEW d \in Deliveries, Owns(w, d) PROVE row'[d].status # "SENT"
        <5>1. d = job[w].d /\ pc[w] # "loaded"
          BY <4>2 DEF Owns, Handles
        <5>2. seen[w].status = "SENT"
          BY <2>5, <3>5, <4>2 DEF Owns, Writes, FailUnsendable, MarkFailed, MarkDelivered, MarkPending,
                                     MarkFatal
        <5>3. Update(w, seen[w], to, TRUE) \/ Update(w, seen[w], to, FALSE)
          BY <2>5, <3>5 DEF Writes, FailUnsendable, MarkFailed, MarkDelivered, MarkPending, MarkFatal
        <5>4. job[w] \in Jobs /\ seen[w] \in Rows
          BY <3>1 DEF TypeOK
        <5>5. row'[d].status = to
          BY <3>1, <3>5, <5>1, <5>2, <5>3 DEF Update, TypeOK, Rows
        <5> QED
          BY <3>5, <5>5
      <4> QED
        BY <3>2, <3>3, <4>1, <4>2, OwnersKeep
    <3> QED
      BY <3>4, <3>5
  <2>6. ASSUME NEW w \in Workers, Refresh(w) PROVE SentHasOwner'
    <3>1. UNCHANGED <<row, faults, job>>
      BY <2>6 DEF Refresh, db, history
    <3>2. \A v \in Workers \ {w} : pc'[v] = pc[v] /\ seen'[v] = seen[v]
      BY <2>6 DEF Refresh, Leave, Goto, TypeOK
    <3>3. ASSUME NEW d \in Deliveries, row[d].status = "SENT", Owns(w, d) PROVE Owns(w, d)'
      <4>1. pc[w] = "marking" /\ job[w].d = d
        BY <2>6, <3>3 DEF Refresh, Owns, Handles
      <4>2. pc'[w] = "sending" /\ seen'[w] = row[d]
        BY <2>6, <4>1 DEF Refresh, Goto, TypeOK
      <4> QED
        BY <3>1, <3>3, <4>2 DEF Owns, Handles
    <3> QED
      BY <2>4, <3>1, <3>2, <3>3
  <2>7. ASSUME NEW w \in Workers, ProviderAccepts(w) \/ ProviderRefuses(w) PROVE SentHasOwner'
    <3>1. UNCHANGED <<row, faults, job, seen>>
      BY <2>7 DEF ProviderAccepts, ProviderRefuses, db
    <3>2. pc[w] = "sending" /\ pc'[w] \in {"accepted", "refused"}
          /\ \A v \in Workers \ {w} : pc'[v] = pc[v]
      BY <2>7 DEF ProviderAccepts, ProviderRefuses, Goto, TypeOK
    <3>3. \A d \in Deliveries : Owns(w, d) => Owns(w, d)'
      BY <3>1, <3>2 DEF Owns, Handles
    <3> QED
      BY <2>4, <3>1, <3>2, <3>3
  <2>8. ASSUME NEW w \in Workers,
               PublishRetry(w) \/ Acknowledge(w) \/ TakeReconcile(w)
                 \/ \E d \in Deliveries : Requeue(w, d) \/ \E r \in Retries : Take(w, d, r)
        PROVE SentHasOwner'
    <3>1. UNCHANGED <<row, faults>> /\ pc[w] \in {"idle", "requeue", "done", "reconciling"}
      BY <2>8 DEF PublishRetry, Acknowledge, TakeReconcile, Requeue, Take, db, history
    <3>2. \A v \in Workers \ {w} : pc'[v] = pc[v]
      BY <2>8 DEF PublishRetry, Acknowledge, TakeReconcile, Requeue, Take, Leave, Goto, TypeOK
    <3>3. \A v \in Workers \ {w} : job'[v] = job[v] /\ seen'[v] = seen[v]
      BY <2>8 DEF PublishRetry, Acknowledge, TakeReconcile, Requeue, Take, Leave, TypeOK
    <3>4. \A d \in Deliveries : ~ Owns(w, d)
      BY <3>1 DEF Owns
    <3> QED
      BY <2>4, <3>1, <3>2, <3>3, <3>4
  <2>9. ASSUME NEW w \in Workers,
               \/ ChildLost(w) \/ NodeLost(w) \/ VisibilityTimeout(w)
               \/ RaiseOut(w) \/ RefreshFails(w) \/ ReconcileFails(w)
        PROVE SentHasOwner'
    BY <2>3, <2>9 DEF ChildLost, NodeLost, VisibilityTimeout, RaiseOut, RefreshFails,
                      ReconcileFails, Fault
  <2>10. ASSUME NEW d \in Deliveries, ApplyAsync(d) \/ Ages(d) \/ TemplateLost(d)
         PROVE  SentHasOwner'
    BY <2>2, <2>10 DEF ApplyAsync, Ages, TemplateLost, worker, history
  <2>13. ASSUME NEW ds \in SUBSET Deliveries, EnqueueLost(ds) PROVE SentHasOwner'
    BY <2>2, <2>13 DEF EnqueueLost, Fault, worker
  <2>11. CASE BeatTick \/ UNCHANGED vars
    BY <2>2, <2>11 DEF BeatTick, db, worker, history, vars
  <2>12. ASSUME NEW w \in Workers, Step(w) PROVE SentHasOwner'
    <3>1. (\E to \in Stored : Writes(w, to)) \/ Refresh(w) \/ ProviderAccepts(w) \/ ProviderRefuses(w)
          \/ PublishRetry(w) \/ Acknowledge(w) \/ \E d \in Deliveries : Requeue(w, d)
      BY <2>12 DEF Step, Writes, Stored
    <3> QED
      BY <2>5, <2>6, <2>7, <2>8, <3>1
  <2> QED
    BY <2>1, <2>8, <2>9, <2>10, <2>11, <2>12, <2>13 DEF Next, Web, TakeMessage, Environment
<1> QED
  BY <1>1, <1>2, TypeCorrect, PTL DEF Spec

-----------------------------------------------------------------------------
(* A PENDING row is in somebody's hands.                                   *)

InHand(d) ==
  \/ d \in unsent
  \/ \E r \in Retries : queue[d][r] > 0
  \/ \E w \in Workers : Pursues(w, d)

(* A task that has just read its row really changes it with its next       *)
(* write, and the successor it publishes has a retry count of its own.     *)
Ready ==
  \A w \in Workers :
    /\ pc[w] \in {"loaded", "rejecting"} => seen[w].status \notin Terminal
    /\ pc[w] = "requeue" => job[w].r < MaxRetries

(* It is enough that no row becomes PENDING unless it is in hand, and that *)
(* none that stays PENDING is dropped.                                     *)
LEMMA InHandKeeps ==
  ASSUME PendingInHand,
         faults' > 0 \/ faults' = faults,
         \A d \in Deliveries :
           row'[d].status = "PENDING" => row[d].status = "PENDING" \/ InHand(d)',
         \A d \in Deliveries : row'[d].status = "PENDING" /\ InHand(d) => InHand(d)'
  PROVE  PendingInHand'
  BY DEF PendingInHand, InHand

LEMMA PublishKeeps ==
  ASSUME TypeOK, NEW d \in Deliveries, NEW r, Publish(d, r)
  PROVE  /\ \A e \in Deliveries, s \in Retries : queue[e][s] > 0 => queue'[e][s] > 0
         /\ r \in Retries => queue'[d][r] > 0
<1>1. \A e \in Deliveries : queue[e] \in [Retries -> Nat]
  BY DEF TypeOK
<1>2. \A e \in Deliveries \ {d} : queue'[e] = queue[e]
  BY DEF Publish, TypeOK
<1>3. queue'[d] = [queue[d] EXCEPT ![r] = @ + 1]
  BY DEF Publish, TypeOK
<1>4. \A s \in Retries : queue[d][s] > 0 => queue'[d][s] > 0
  BY <1>1, <1>3
<1>5. r \in Retries => queue'[d][r] > 0
  BY <1>1, <1>3
<1> QED
  BY <1>2, <1>4, <1>5

(* A step of a worker that pursues nothing, as long as nothing is taken    *)
(* from the broker.                                                        *)
LEMMA BystanderKeeps ==
  ASSUME TypeOK, NEW w \in Workers, pc[w] \notin {"loaded", "rejecting", "requeue"},
         \A v \in Workers \ {w} : pc'[v] = pc[v] /\ job'[v] = job[v],
         \A e \in Deliveries, s \in Retries : queue[e][s] > 0 => queue'[e][s] > 0,
         unsent' = unsent
  PROVE  \A d \in Deliveries : InHand(d) => InHand(d)'
<1> SUFFICES ASSUME NEW d \in Deliveries, InHand(d) PROVE InHand(d)'
  OBVIOUS
<1>1. ASSUME NEW v \in Workers, Pursues(v, d) PROVE Pursues(v, d)'
  BY <1>1 DEF Pursues, Handles
<1> QED
  BY <1>1 DEF InHand

LEMMA ReadyCorrect == Spec => []Ready
<1>1. Init => Ready
  BY DEF Init, Ready
<1>2. TypeOK /\ Ready /\ [Next]_vars => Ready'
  <2> SUFFICES ASSUME TypeOK, Ready, [Next]_vars PROVE Ready'
    OBVIOUS
  <2>1. ASSUME UNCHANGED <<pc, job, seen>> PROVE Ready'
    BY <2>1 DEF Ready
  <2>2. ASSUME NEW w \in Workers,
               \A v \in Workers \ {w} : pc'[v] = pc[v] /\ job'[v] = job[v] /\ seen'[v] = seen[v],
               pc'[w] \in {"loaded", "rejecting"} => seen'[w].status \notin Terminal,
               pc'[w] = "requeue" => job'[w].r < MaxRetries
        PROVE  Ready'
    BY <2>2 DEF Ready
  <2>3. ASSUME NEW w \in Workers, NEW d \in Deliveries, NEW r \in Retries, Take(w, d, r)
        PROVE  Ready'
    <3>1. \E label \in {"done", "rejecting", "loaded"} : pc' = [pc EXCEPT ![w] = label]
      BY <2>3, TookLabel
    <3>2. \A v \in Workers \ {w} : job'[v] = job[v] /\ seen'[v] = seen[v]
      BY <2>3 DEF Take, Leave, TypeOK
    <3>3. pc'[w] \in {"loaded", "rejecting"} => seen'[w].status \notin Terminal
      BY <2>3 DEF Take, Leave, Goto, TypeOK
    <3> QED
      BY <2>2, <3>1, <3>2, <3>3 DEF TypeOK
  <2>4. ASSUME NEW w \in Workers, MarkPending(w) PROVE Ready'
    <3>1. job[w] \in Jobs
      BY <2>4, BusyHoldsJob DEF MarkPending, TypeOK
    <3>2. job[w].r < MaxRetries
      BY <2>4, <3>1, BoundsAssumption DEF MarkPending, Exhausted, Jobs, Retries
    <3> QED
      BY <2>2, <2>4, <3>2 DEF MarkPending, Goto, TypeOK
  <2>5. ASSUME NEW w \in Workers,
               \/ FailUnsendable(w) \/ MarkSent(w) \/ Refresh(w) \/ MarkDelivered(w) \/ MarkFailed(w)
               \/ MarkFatal(w) \/ RaiseOut(w) \/ RefreshFails(w)
        PROVE  Ready'
    BY <2>2, <2>5 DEF FailUnsendable, MarkSent, Refresh, MarkDelivered, MarkFailed,
                      MarkFatal, RaiseOut, RefreshFails, Leave, Goto, TypeOK
  <2>6. ASSUME NEW w \in Workers,
               \/ ProviderAccepts(w) \/ ProviderRefuses(w) \/ PublishRetry(w) \/ Acknowledge(w)
               \/ TakeReconcile(w) \/ (\E d \in Deliveries : Requeue(w, d))
        PROVE  Ready'
    BY <2>2, <2>6 DEF ProviderAccepts, ProviderRefuses, PublishRetry, Acknowledge,
                      TakeReconcile, Requeue, Leave, Goto, TypeOK
  <2>7. ASSUME NEW w \in Workers, ChildLost(w) \/ NodeLost(w) \/ ReconcileFails(w) PROVE Ready'
    BY <2>2, <2>7 DEF ChildLost, NodeLost, ReconcileFails, Drop, Goto, TypeOK
  <2>8. ASSUME NEW w \in Workers, VisibilityTimeout(w) PROVE Ready'
    BY <2>1, <2>8 DEF VisibilityTimeout, worker
  <2>9. CASE Web \/ BeatTick \/ UNCHANGED vars
    BY <2>1, <2>9 DEF Web, CreateDeliveries, ApplyAsync, Ages, BeatTick, worker, vars
  <2>10. ASSUME (\E ds \in SUBSET Deliveries : EnqueueLost(ds)) \/ (\E d \in Deliveries : TemplateLost(d))
         PROVE  Ready'
    BY <2>1, <2>10 DEF EnqueueLost, TemplateLost, worker
  <2> QED
    BY <2>3, <2>4, <2>5, <2>6, <2>7, <2>8, <2>9, <2>10
       DEF Next, Step, TakeMessage, Environment
<1> QED
  BY <1>1, <1>2, TypeCorrect, PTL DEF Spec

(* No interleaving of overlapping tasks strands a PENDING row.             *)
THEOREM PendingInHandCorrect == Spec => []PendingInHand
<1>1. Init => PendingInHand
  BY DEF Init, PendingInHand, NoRow
<1>2. TypeOK /\ Ready /\ PendingInHand /\ [Next]_vars => PendingInHand'
  <2> SUFFICES ASSUME TypeOK, Ready, PendingInHand, [Next]_vars PROVE PendingInHand'
    OBVIOUS
  <2>0. faults \in Nat /\ 0 \in Retries
    BY BoundsAssumption DEF TypeOK, Retries
  <2>1. ASSUME faults' = faults + 1 PROVE PendingInHand'
    BY <2>0, <2>1 DEF PendingInHand
  <2>2. ASSUME UNCHANGED <<row, unsent, queue, pc, job, faults>> PROVE PendingInHand'
    BY <2>2, InHandKeeps DEF InHand, Pursues, Handles
  <2>3. ASSUME NEW ds \in SUBSET Deliveries, CreateDeliveries(ds) PROVE PendingInHand'
    <3>1. unsent' = unsent \cup ds /\ UNCHANGED <<queue, pc, job, faults>>
      BY <2>3 DEF CreateDeliveries, broker, worker, history
    <3>2. \A d \in Deliveries \ ds : row'[d] = row[d]
      BY <2>3 DEF CreateDeliveries
    <3> QED
      BY <3>1, <3>2, InHandKeeps DEF InHand, Pursues, Handles
  <2>4. ASSUME NEW d \in Deliveries, ApplyAsync(d) PROVE PendingInHand'
    <3>1. unsent' = unsent \ {d} /\ UNCHANGED <<row, pc, job, faults>>
      BY <2>4 DEF ApplyAsync, worker, history
    <3>2. queue'[d][0] > 0
          /\ \A e \in Deliveries, s \in Retries : queue[e][s] > 0 => queue'[e][s] > 0
      BY <2>0, <2>4, PublishKeeps DEF ApplyAsync
    <3> QED
      BY <2>0, <3>1, <3>2, InHandKeeps DEF InHand, Pursues, Handles
  <2>5. ASSUME NEW d \in Deliveries, Ages(d) \/ TemplateLost(d) PROVE PendingInHand'
    BY <2>2, <2>5 DEF Ages, TemplateLost, broker, worker, history
  <2>6. CASE BeatTick \/ UNCHANGED vars
    BY <2>2, <2>6 DEF BeatTick, db, worker, history, vars
  <2>7. ASSUME NEW w \in Workers,
               \/ ChildLost(w) \/ NodeLost(w) \/ VisibilityTimeout(w)
               \/ RaiseOut(w) \/ RefreshFails(w) \/ ReconcileFails(w)
        PROVE PendingInHand'
    BY <2>1, <2>7 DEF ChildLost, NodeLost, VisibilityTimeout, RaiseOut, RefreshFails,
                      ReconcileFails, Fault
  <2>8. ASSUME NEW ds \in SUBSET Deliveries, EnqueueLost(ds) PROVE PendingInHand'
    BY <2>1, <2>8 DEF EnqueueLost, Fault
  <2>9. ASSUME NEW w \in Workers,
               \/ Refresh(w) \/ ProviderAccepts(w) \/ ProviderRefuses(w)
               \/ Acknowledge(w) \/ TakeReconcile(w)
        PROVE PendingInHand'
    <3>1. UNCHANGED <<row, unsent, queue, faults>>
          /\ pc[w] \notin {"loaded", "rejecting", "requeue"}
      BY <2>9 DEF Refresh, ProviderAccepts, ProviderRefuses, Acknowledge, TakeReconcile,
                  db, broker, history
    <3>2. \A v \in Workers \ {w} : pc'[v] = pc[v] /\ job'[v] = job[v]
      BY <2>9 DEF Refresh, ProviderAccepts, ProviderRefuses, Acknowledge, TakeReconcile,
                  Leave, Goto, TypeOK
    <3> QED
      BY <3>1, <3>2, BystanderKeeps, InHandKeeps
  <2>10. ASSUME NEW w \in Workers, NEW d \in Deliveries, Requeue(w, d) PROVE PendingInHand'
    <3>1. UNCHANGED <<row, unsent, faults>> /\ pc[w] = "reconciling"
          /\ \A e \in Deliveries, s \in Retries : queue[e][s] > 0 => queue'[e][s] > 0
      BY <2>10, PublishKeeps DEF Requeue, db, history
    <3>2. \A v \in Workers \ {w} : pc'[v] = pc[v] /\ job'[v] = job[v]
      BY <2>10 DEF Requeue, Goto, TypeOK
    <3> QED
      BY <3>1, <3>2, BystanderKeeps, InHandKeeps
  <2>11. ASSUME NEW w \in Workers, NEW to, Writes(w, to) PROVE PendingInHand'
    <3>1. /\ job[w] # NoJob /\ job[w].d \in Deliveries
          /\ \A d \in Deliveries :
               row'[d] = row[d] \/ (d = job[w].d /\ row'[d].status \in {row[d].status, to})
      BY <2>11, WriteStatus
    <3>2. UNCHANGED <<unsent, queue, job, faults>>
          /\ \A v \in Workers \ {w} : pc'[v] = pc[v]
      BY <2>11 DEF Writes, FailUnsendable, MarkFailed, MarkSent, MarkDelivered, MarkPending,
                   MarkFatal, Leave, Goto, TypeOK, broker, history
    <3>3. CASE MarkDelivered(w) \/ MarkFailed(w) \/ MarkFatal(w)
      <4>1. pc[w] \notin {"loaded", "rejecting", "requeue"} /\ to # "PENDING"
        BY <2>11, <3>3 DEF Writes, MarkDelivered, MarkFailed, FailUnsendable, MarkSent, MarkPending, MarkFatal
      <4> QED
        BY <3>1, <3>2, <4>1, BystanderKeeps, InHandKeeps
    <3>4. CASE MarkSent(w) \/ FailUnsendable(w)
      <4>1. /\ pc[w] \in {"loaded", "rejecting"} /\ to \in {"SENT", "FAILED"}
            /\ Update(w, seen[w], to, FALSE)
        BY <2>11, <3>4 DEF Writes, MarkDelivered, MarkFailed, FailUnsendable, MarkSent, MarkPending, MarkFatal
      <4>2. seen[w].status # to
        BY <4>1 DEF Ready, Terminal
      <4>3. row'[job[w].d].status = to
        BY <3>1, <4>1, <4>2 DEF Update, TypeOK, Rows
      <4>4. \A d \in Deliveries : row'[d].status = "PENDING" =>
              row[d].status = "PENDING" /\ d # job[w].d
        BY <3>1, <4>1, <4>3
      <4>5. ASSUME NEW d \in Deliveries, d # job[w].d, InHand(d) PROVE InHand(d)'
        BY <3>2, <4>5 DEF InHand, Pursues, Handles
      <4> QED
        BY <3>2, <4>4, <4>5, InHandKeeps
    <3>5. CASE MarkPending(w)
      <4>1. pc[w] = "refused" /\ pc'[w] = "requeue"
        BY <3>5 DEF MarkPending, Goto, TypeOK
      <4>2. InHand(job[w].d)'
        BY <3>1, <3>2, <4>1 DEF InHand, Pursues, Handles
      <4>3. \A d \in Deliveries \ {job[w].d} : row'[d] = row[d]
        BY <3>1
      <4> QED
        BY <3>2, <4>1, <4>2, <4>3, BystanderKeeps, InHandKeeps
    <3> QED
      BY <2>11, <3>3, <3>4, <3>5 DEF Writes
  <2>12. ASSUME NEW w \in Workers, PublishRetry(w) PROVE PendingInHand'
    <3>1. /\ job[w] # NoJob /\ job[w].d \in Deliveries /\ job[w].r + 1 \in Retries
      <4>1. job[w] \in Jobs /\ job[w] # NoJob
        BY <2>12, BusyHoldsJob DEF PublishRetry, TypeOK
      <4>2. job[w].r < MaxRetries
        BY <2>12 DEF PublishRetry, Ready
      <4> QED
        BY <4>1, <4>2, BoundsAssumption DEF Jobs, Retries
    <3>2. /\ queue'[job[w].d][job[w].r + 1] > 0
          /\ \A e \in Deliveries, s \in Retries : queue[e][s] > 0 => queue'[e][s] > 0
      BY <2>12, <3>1, PublishKeeps DEF PublishRetry
    <3>3. UNCHANGED <<row, unsent, job, faults>> /\ \A v \in Workers \ {w} : pc'[v] = pc[v]
      BY <2>12 DEF PublishRetry, Leave, Goto, TypeOK, db, history
    <3>4. InHand(job[w].d)'
      BY <3>1, <3>2, <3>3 DEF InHand
    <3>5. ASSUME NEW d \in Deliveries, d # job[w].d, InHand(d) PROVE InHand(d)'
      BY <3>2, <3>3, <3>5 DEF InHand, Pursues, Handles
    <3> QED
      BY <3>3, <3>4, <3>5, InHandKeeps
  <2>13. ASSUME NEW w \in Workers, NEW d \in Deliveries, NEW r \in Retries, Take(w, d, r)
         PROVE  PendingInHand'
    <3>1. UNCHANGED <<row, unsent, faults>> /\ job[w] = NoJob /\ pc[w] = "idle"
      BY <2>13 DEF Take, db, history, TypeOK
    <3>2. \E label \in {"done", "rejecting", "loaded"} : pc' = [pc EXCEPT ![w] = label]
      BY <2>13, TookLabel
    <3>3. \A v \in Workers \ {w} : pc'[v] = pc[v] /\ job'[v] = job[v]
      BY <2>13, <3>2 DEF Take, TypeOK
    <3>4. \A e \in Deliveries \ {d} : queue'[e] = queue[e]
      BY <2>13 DEF Take, TypeOK
    <3>5. ASSUME NEW e \in Deliveries, e # d, InHand(e) PROVE InHand(e)'
      <4>1. \A v \in Workers : Pursues(v, e) => Pursues(v, e)'
        BY <3>1, <3>3 DEF Pursues, Handles
      <4> QED
        BY <3>1, <3>4, <3>5, <4>1 DEF InHand
    <3>6. ASSUME row[d].status = "PENDING" PROVE InHand(d)'
      <4>1. pc'[w] \in {"loaded", "rejecting"}
        BY <2>13, <3>6 DEF Take, Goto, Terminal, TypeOK
      <4>2. job'[w] = [d |-> d, r |-> r] /\ job'[w] # NoJob
        BY <2>13, NoJobAssumption DEF Take, Jobs, TypeOK
      <4> QED
        BY <4>1, <4>2 DEF InHand, Pursues, Handles
    <3> QED
      BY <3>1, <3>5, <3>6, InHandKeeps
  <2>14. ASSUME NEW w \in Workers, Step(w) PROVE PendingInHand'
    <3>1. (\E to \in Stored : Writes(w, to)) \/ Refresh(w) \/ ProviderAccepts(w) \/ ProviderRefuses(w)
          \/ PublishRetry(w) \/ Acknowledge(w) \/ \E d \in Deliveries : Requeue(w, d)
      BY <2>14 DEF Step, Writes, Stored
    <3> QED
      BY <2>9, <2>10, <2>11, <2>12, <3>1
  <2> QED
    BY <2>3, <2>4, <2>5, <2>6, <2>7, <2>8, <2>9, <2>13, <2>14
       DEF Next, Web, TakeMessage, Environment
<1> QED
  BY <1>1, <1>2, TypeCorrect, ReadyCorrect, PTL DEF Spec

=============================================================================
