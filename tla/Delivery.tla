------------------------------ MODULE Delivery ------------------------------
(***************************************************************************)
(* The background half of the notification service: delivery rows in       *)
(* PostgreSQL, send_notification_delivery messages in the Celery broker,   *)
(* the pool of worker processes that executes them, Celery Beat and the    *)
(* reconciliation task.                                                    *)
(*                                                                         *)
(* Every await of the task is an interleaving point, so the read of a row, *)
(* each commit of update_delivery_status, the refresh that follows it and  *)
(* the provider call are steps of their own.  A worker keeps what its      *)
(* SQLAlchemy session holds of the row (`seen`): the session runs with     *)
(* expire_on_commit=False, so a second SELECT of a row it already holds    *)
(* does not reload it; only refresh() does.                                *)
(***************************************************************************)
EXTENDS Naturals, FiniteSets, Functions

CONSTANTS
  Deliveries,    \* ids of delivery rows
  Workers,       \* processes of the Celery worker pool
  Priority,      \* priority of the notification a delivery belongs to
  WorkerQueues,  \* the queues named by the -Q option of `celery worker`
  MaxRetries,    \* max_retries of the task
  FaultKinds,    \* the faults that may happen in this instance
  MaxFaults,     \* bound: how many faults may happen, lost templates not counted
  MaxCopies,     \* bound: Beat waits while a delivery has this many messages
  CounterCap,    \* bound: the counters stop here
  NoJob          \* "this worker holds no message"

Priorities == {"CRITICAL", "HIGH", "NORMAL", "LOW"}

AllFaults == {"enqueue", "child", "node", "visibility", "db", "template"}

Retries == 0..MaxRetries
Counter == 0..CounterCap
Jobs    == [d: Deliveries, r: Retries]

ASSUME PriorityAssumption == Priority \in [Deliveries -> Priorities]
ASSUME BoundsAssumption ==
  /\ MaxRetries \in Nat
  /\ MaxFaults  \in Nat
  /\ MaxCopies  \in Nat
  /\ CounterCap \in Nat
  /\ CounterCap > MaxRetries
ASSUME FaultAssumption == FaultKinds \subseteq AllFaults
ASSUME NoJobAssumption == NoJob \notin Jobs

VARIABLES
  row,        \* committed delivery rows
  tail,       \* newest status log entry of each delivery
  unsent,     \* committed rows whose apply_async call is still to come
  old,        \* rows found PENDING more than 300 seconds after created_at
  unsendable, \* rows whose template is gone or no longer renders
  queue,      \* messages waiting in the broker, by delivery and retry count
  beatQueue,  \* reconciliation messages waiting in the broker
  pc,         \* where each worker process is
  job,        \* the message a worker holds (unacknowledged)
  seen,       \* the row as the worker's database session holds it
  todo,       \* rows a reconciliation run still has to re-queue
  accepted,   \* history: times a provider accepted the notification
  refused,    \* history: times a provider raised ProviderError
  faults      \* history: faults that have happened

db       == <<row, tail, unsent, old, unsendable>>
broker   == <<queue, beatQueue>>
worker   == <<pc, job, seen, todo>>
history  == <<accepted, refused, faults>>
vars     == <<row, tail, unsent, old, unsendable, queue, beatQueue,
              pc, job, seen, todo, accepted, refused, faults>>

-----------------------------------------------------------------------------
(* Rows, status logs and queues.                                           *)

Stored   == {"PENDING", "SENT", "DELIVERED", "FAILED"}
Status   == Stored \cup {"NONE"}
Finished == {"DELIVERED", "FAILED"}

Rows == [status: Status, retries: Counter]

NoRow == [status |-> "NONE", retries |-> 0]

PCs == {"idle", "rejecting", "loaded", "marking", "sending", "accepted", "refused",
        "delivered", "failing", "requeue", "done", "reconciling"}

\* Mutants of Terminal: one of the three statuses is forgotten.
TerminalNotSent  == Finished
TerminalOnlySent == {"SENT"}

(* The statuses at which the task leaves a row alone.                      *)
Terminal == {"SENT", "DELIVERED", "FAILED"}

Bump(n) == IF n < CounterCap THEN n + 1 ELSE n

(* The queue a message of the delivery is published to: the lower-cased    *)
(* priority, with "normal" renamed to "default".                           *)
QueueOf(d) ==
  CASE Priority[d] = "CRITICAL" -> "critical"
    [] Priority[d] = "HIGH"     -> "high"
    [] Priority[d] = "NORMAL"   -> "default"
    [] OTHER                    -> "low"

(* Neither task_default_queue nor task_routes is configured, so Beat       *)
(* publishes the reconciliation task to Celery's own default queue.        *)
ReconcileQueue == "celery"

Publish(d, r) == queue' = [queue EXCEPT ![d][r] = @ + 1]

Fault(kind) ==
  /\ kind \in FaultKinds
  /\ faults < MaxFaults
  /\ faults' = faults + 1

-----------------------------------------------------------------------------
(* The web process, seen from the delivery side.                           *)

Init ==
  /\ row        = [d \in Deliveries |-> NoRow]
  /\ tail       = [d \in Deliveries |-> [from |-> "NONE", to |-> "NONE"]]
  /\ unsent     = {}
  /\ old        = {}
  /\ unsendable = {}
  /\ queue      = [d \in Deliveries |-> [r \in Retries |-> 0]]
  /\ beatQueue  = 0
  /\ pc         = [w \in Workers |-> "idle"]
  /\ job        = [w \in Workers |-> NoJob]
  /\ seen       = [w \in Workers |-> NoRow]
  /\ todo       = [w \in Workers |-> {}]
  /\ accepted   = [d \in Deliveries |-> 0]
  /\ refused    = [d \in Deliveries |-> 0]
  /\ faults     = 0

(* The rows of a request, all of its priority, and their first log entries *)
(* are committed in one transaction before anything is published.          *)
CreateDeliveries(ds) ==
  /\ ds # {}
  /\ \A d \in ds : row[d] = NoRow
  /\ \A d, e \in ds : Priority[d] = Priority[e]
  /\ row'    = [d \in Deliveries |-> IF d \in ds THEN [status |-> "PENDING", retries |-> 0]
                                               ELSE row[d]]
  /\ tail'   = [d \in Deliveries |-> IF d \in ds THEN [from |-> "NONE", to |-> "PENDING"]
                                               ELSE tail[d]]
  /\ unsent' = unsent \cup ds
  /\ UNCHANGED <<old, unsendable, broker, worker, history>>

\* Mutants of ApplyAsync: published before the commit, and published again.
ApplyAsyncEarly(d) ==
  /\ Publish(d, 0)
  /\ UNCHANGED <<db, beatQueue, worker, history>>
ApplyAsyncAgain(d) ==
  /\ d \in unsent
  /\ Publish(d, 0)
  /\ UNCHANGED <<db, beatQueue, worker, history>>

ApplyAsync(d) ==
  /\ d \in unsent
  /\ unsent' = unsent \ {d}
  /\ Publish(d, 0)
  /\ UNCHANGED <<row, tail, old, unsendable, beatQueue, worker, history>>

(* The web process dies, or the broker refuses a message, after the        *)
(* commit: nobody will publish for these rows.                             *)
EnqueueLost(ds) ==
  /\ ds # {} /\ ds \subseteq unsent
  /\ Fault("enqueue")
  /\ unsent' = unsent \ ds
  /\ UNCHANGED <<row, tail, old, unsendable, broker, worker, accepted, refused>>

(* created_at drops below the cutoff of the reconciliation query, which    *)
(* looks at PENDING rows only; a row that has aged before is noticed then. *)
Ages(d) ==
  /\ row[d].status = "PENDING"
  /\ d \notin old
  /\ old' = old \cup {d}
  /\ UNCHANGED <<row, tail, unsent, unsendable, broker, worker, history>>

(* An operator deletes or edits the template: template_id becomes NULL, or *)
(* the stored variables no longer satisfy it.  Only a task that finds the  *)
(* row PENDING looks at the template, so it is enough to lose it then.     *)
TemplateLost(d) ==
  /\ "template" \in FaultKinds
  /\ row[d].status = "PENDING"
  /\ d \notin unsendable
  /\ unsendable' = unsendable \cup {d}
  /\ UNCHANGED <<row, tail, unsent, old, broker, worker, history>>

-----------------------------------------------------------------------------
(* send_notification_delivery.                                             *)

Handles(w, d) == job[w] # NoJob /\ job[w].d = d

\* Mutants of Update: every transition, or none, counts as a retry.
UpdateCounts(w, held, to, increment) ==
  /\ row' = [row EXCEPT ![job[w].d] = [status |-> to, retries |-> Bump(held.retries)]]
  /\ tail' = [tail EXCEPT ![job[w].d] = [from |-> held.status, to |-> to]]
UpdateForgets(w, held, to, increment) ==
  /\ row' = [row EXCEPT ![job[w].d].status = to]
  /\ tail' = [tail EXCEPT ![job[w].d] = [from |-> held.status, to |-> to]]

\* Mutants of Update: the log entry starts from the status the task found at
\* its start; it is added after the commit and so not part of the transaction.
UpdateFromStart(w, held, to, increment) ==
  /\ row' = [row EXCEPT
       ![job[w].d].status  = IF to = held.status THEN @ ELSE to,
       ![job[w].d].retries = IF increment THEN Bump(held.retries) ELSE @]
  /\ tail' = [tail EXCEPT ![job[w].d] = [from |-> "PENDING", to |-> to]]
UpdateLogsLate(w, held, to, increment) ==
  /\ row' = [row EXCEPT
       ![job[w].d].status  = IF to = held.status THEN @ ELSE to,
       ![job[w].d].retries = IF increment THEN Bump(held.retries) ELSE @]
  /\ UNCHANGED tail

(* update_delivery_status: the log entry starts from the status the        *)
(* session holds, and the UPDATE writes only attributes that differ from   *)
(* what the session holds.                                                 *)
Update(w, held, to, increment) ==
  LET d == job[w].d IN
  /\ row' = [row EXCEPT
       ![d].status  = IF to = held.status THEN @ ELSE to,
       ![d].retries = IF increment THEN Bump(held.retries) ELSE @]
  /\ tail' = [tail EXCEPT ![d] = [from |-> held.status, to |-> to]]

Goto(w, label) == pc' = [pc EXCEPT ![w] = label]

(* The coroutine returns or raises: its session is closed, and the message *)
(* is acknowledged next.                                                   *)
Leave(w) ==
  /\ Goto(w, "done")
  /\ seen' = [seen EXCEPT ![w] = NoRow]

(* A process of the pool takes a message and reads the row, which is left  *)
(* alone when it is SENT, DELIVERED or FAILED, and then the template.      *)
Take(w, d, r) ==
  /\ pc[w] = "idle"
  /\ QueueOf(d) \in WorkerQueues
  /\ queue[d][r] > 0
  /\ queue' = [queue EXCEPT ![d][r] = @ - 1]
  /\ job'   = [job EXCEPT ![w] = [d |-> d, r |-> r]]
  /\ \/ /\ row[d].status \in Terminal
        /\ Leave(w)
     \/ /\ row[d].status \notin Terminal
        /\ Goto(w, IF d \in unsendable THEN "rejecting" ELSE "loaded")
        /\ seen' = [seen EXCEPT ![w] = row[d]]
  /\ UNCHANGED <<db, beatQueue, todo, history>>

FailUnsendable(w) ==
  /\ pc[w] = "rejecting"
  /\ Update(w, seen[w], "FAILED", FALSE)
  /\ Leave(w)
  /\ UNCHANGED <<unsent, old, unsendable, broker, job, todo, history>>

MarkSent(w) ==
  /\ pc[w] = "loaded"
  /\ Update(w, seen[w], "SENT", FALSE)
  /\ Goto(w, "marking")
  /\ UNCHANGED <<unsent, old, unsendable, broker, job, seen, todo, history>>

(* db.refresh() after the commit reads whatever is committed by then.      *)
Refresh(w) ==
  /\ \/ /\ pc[w] = "marking"
        /\ seen' = [seen EXCEPT ![w] = row[job[w].d]]
        /\ Goto(w, "sending")
     \/ /\ pc[w] = "delivered"
        /\ Leave(w)
  /\ UNCHANGED <<db, broker, job, todo, history>>

ProviderAccepts(w) ==
  /\ pc[w] = "sending"
  /\ accepted' = [accepted EXCEPT ![job[w].d] = Bump(@)]
  /\ Goto(w, "accepted")
  /\ UNCHANGED <<db, broker, job, seen, todo, refused, faults>>

ProviderRefuses(w) ==
  /\ pc[w] = "sending"
  /\ refused' = [refused EXCEPT ![job[w].d] = Bump(@)]
  /\ Goto(w, "refused")
  /\ UNCHANGED <<db, broker, job, seen, todo, accepted, faults>>

\* Mutant of MarkDelivered: recorded before the provider has answered.
MarkDeliveredEarly(w) ==
  /\ pc[w] = "sending"
  /\ Update(w, seen[w], "DELIVERED", FALSE)
  /\ Goto(w, "delivered")
  /\ UNCHANGED <<unsent, old, unsendable, broker, job, seen, todo, history>>

\* Mutant of MarkDelivered: the status is never committed.
MarkDeliveredUncommitted(w) ==
  /\ pc[w] = "accepted"
  /\ Leave(w)
  /\ UNCHANGED <<db, broker, job, todo, history>>

MarkDelivered(w) ==
  /\ pc[w] = "accepted"
  /\ Update(w, seen[w], "DELIVERED", FALSE)
  /\ Goto(w, "delivered")
  /\ UNCHANGED <<unsent, old, unsendable, broker, job, seen, todo, history>>

\* Mutant of Exhausted: one attempt too few.
ExhaustedEarly(w) == job[w].r + 1 >= MaxRetries

Exhausted(w) == job[w].r >= MaxRetries

MarkFailed(w) ==
  /\ pc[w] = "refused"
  /\ Exhausted(w)
  /\ Update(w, seen[w], "FAILED", TRUE)
  /\ Leave(w)
  /\ UNCHANGED <<unsent, old, unsendable, broker, job, todo, history>>

\* Mutant of MarkPending: the row is not put back.
MarkPendingSkipped(w) ==
  /\ pc[w] = "refused"
  /\ ~ Exhausted(w)
  /\ Goto(w, "requeue")
  /\ UNCHANGED <<db, broker, job, seen, todo, history>>

MarkPending(w) ==
  /\ pc[w] = "refused"
  /\ ~ Exhausted(w)
  /\ Update(w, seen[w], "PENDING", TRUE)
  /\ Goto(w, "requeue")
  /\ UNCHANGED <<unsent, old, unsendable, broker, job, seen, todo, history>>

(* The handler for unexpected exceptions: whatever the row said, FAILED.   *)
MarkFatal(w) ==
  /\ pc[w] = "failing"
  /\ Update(w, seen[w], "FAILED", FALSE)
  /\ Leave(w)
  /\ UNCHANGED <<unsent, old, unsendable, broker, job, todo, history>>

\* Mutants of PublishRetry: the retry count does not grow; nothing is sent.
PublishSame(w) ==
  /\ pc[w] = "requeue"
  /\ Publish(job[w].d, job[w].r)
  /\ Leave(w)
  /\ UNCHANGED <<db, beatQueue, job, todo, history>>
PublishNothing(w) ==
  /\ pc[w] = "requeue"
  /\ Leave(w)
  /\ UNCHANGED <<db, broker, job, todo, history>>

(* self.retry() publishes the successor to the same queue and raises Retry.*)
(* Its countdown only delays the message.                                  *)
PublishRetry(w) ==
  /\ pc[w] = "requeue"
  /\ Publish(job[w].d, job[w].r + 1)
  /\ Leave(w)
  /\ UNCHANGED <<db, beatQueue, job, todo, history>>

(* acks_late: the message leaves the broker only after the task has ended. *)
Acknowledge(w) ==
  /\ pc[w] = "done"
  /\ Goto(w, "idle")
  /\ job' = [job EXCEPT ![w] = NoJob]
  /\ UNCHANGED <<db, broker, seen, todo, history>>

-----------------------------------------------------------------------------
(* Beat and reconcile_pending_deliveries.                                  *)

Copies(d) == SumFunction(queue[d]) + Cardinality({w \in Workers : Handles(w, d)})

(* Every 300 seconds.  Ticks beyond the bounds are left out.               *)
BeatTick ==
  /\ beatQueue = 0
  /\ \A w \in Workers : pc[w] # "reconciling"
  /\ \A d \in Deliveries : Copies(d) < MaxCopies
  /\ beatQueue' = 1
  /\ UNCHANGED <<db, queue, worker, history>>

\* Mutant of Stuck: only rows that were tried before.
StuckRetried == {d \in old : row[d].status = "PENDING" /\ row[d].retries > 0}

Stuck == {d \in old : row[d].status = "PENDING"}

TakeReconcile(w) ==
  /\ pc[w] = "idle"
  /\ ReconcileQueue \in WorkerQueues
  /\ beatQueue > 0
  /\ beatQueue' = beatQueue - 1
  /\ todo' = [todo EXCEPT ![w] = Stuck]
  /\ Goto(w, IF Stuck = {} THEN "idle" ELSE "reconciling")
  /\ UNCHANGED <<db, queue, job, seen, history>>

Requeue(w, d) ==
  /\ pc[w] = "reconciling"
  /\ d \in todo[w]
  /\ Publish(d, 0)
  /\ todo' = [todo EXCEPT ![w] = @ \ {d}]
  /\ Goto(w, IF todo[w] = {d} THEN "idle" ELSE "reconciling")
  /\ UNCHANGED <<db, beatQueue, job, seen, history>>

-----------------------------------------------------------------------------
(* Faults.                                                                 *)

\* Mutant of Drop: the lost process still holds its message.
DropKeepsJob(w) ==
  /\ Goto(w, "idle")
  /\ seen' = [seen EXCEPT ![w] = NoRow]
  /\ todo' = [todo EXCEPT ![w] = {}]
  /\ UNCHANGED job

Drop(w) ==
  /\ Goto(w, "idle")
  /\ job'  = [job EXCEPT ![w] = NoJob]
  /\ seen' = [seen EXCEPT ![w] = NoRow]
  /\ todo' = [todo EXCEPT ![w] = {}]

(* A child of the pool is killed: task_reject_on_worker_lost is off, so    *)
(* Celery acknowledges its message.  A reconciliation run is lost as well. *)
ChildLost(w) ==
  /\ pc[w] # "idle"
  /\ Fault("child")
  /\ Drop(w)
  /\ UNCHANGED <<db, broker, accepted, refused>>

(* The whole worker goes: the broker delivers the unacknowledged message   *)
(* again once the visibility timeout has passed.                           *)
NodeLost(w) ==
  /\ job[w] # NoJob
  /\ Fault("node")
  /\ Publish(job[w].d, job[w].r)
  /\ Drop(w)
  /\ UNCHANGED <<db, beatQueue, accepted, refused>>

(* The visibility timeout passes while the task is still running.          *)
VisibilityTimeout(w) ==
  /\ job[w] # NoJob
  /\ Fault("visibility")
  /\ Publish(job[w].d, job[w].r)
  /\ UNCHANGED <<db, beatQueue, worker, accepted, refused>>

(* The database or the broker fails and the exception leaves the task with *)
(* nothing further recorded; Celery acknowledges the message.  After a     *)
(* failed commit that is the outcome on every path: no handler rolls the   *)
(* session back, so the update that should record FAILED raises as well.   *)
RaiseOut(w) ==
  /\ pc[w] \in {"rejecting", "loaded", "marking", "accepted", "refused", "delivered",
               "failing", "requeue"}
  /\ Fault("db")
  /\ Leave(w)
  /\ UNCHANGED <<db, broker, job, todo, accepted, refused>>

(* The commit of SENT or of DELIVERED is through and the refresh after it  *)
(* cannot get a connection: the handler for unexpected exceptions reads    *)
(* the row afresh, the refresh having expired it, to record FAILED next.   *)
RefreshFails(w) ==
  /\ pc[w] \in {"marking", "delivered"}
  /\ Fault("db")
  /\ seen' = [seen EXCEPT ![w] = row[job[w].d]]
  /\ Goto(w, "failing")
  /\ UNCHANGED <<db, broker, job, todo, accepted, refused>>

(* A query or a publish of the reconciliation run fails: the rows it has   *)
(* not reached stay as they are.                                           *)
ReconcileFails(w) ==
  /\ pc[w] = "reconciling"
  /\ Fault("db")
  /\ Drop(w)
  /\ UNCHANGED <<db, broker, accepted, refused>>

-----------------------------------------------------------------------------
Web ==
  \/ \E ds \in SUBSET Deliveries : CreateDeliveries(ds)
  \/ \E d \in Deliveries : ApplyAsync(d) \/ Ages(d)

(* What a busy worker does next of its own accord.                         *)
Step(w) ==
  \/ FailUnsendable(w)
  \/ MarkSent(w)
  \/ Refresh(w)
  \/ ProviderAccepts(w)
  \/ ProviderRefuses(w)
  \/ MarkDelivered(w)
  \/ MarkFailed(w)
  \/ MarkPending(w)
  \/ MarkFatal(w)
  \/ PublishRetry(w)
  \/ Acknowledge(w)
  \/ \E d \in Deliveries : Requeue(w, d)

TakeMessage(d, r) == \E w \in Workers : Take(w, d, r)

Environment ==
  \/ \E ds \in SUBSET Deliveries : EnqueueLost(ds)
  \/ \E d \in Deliveries : TemplateLost(d)
  \/ \E w \in Workers :
       \/ ChildLost(w)
       \/ NodeLost(w)
       \/ VisibilityTimeout(w)
       \/ RaiseOut(w)
       \/ RefreshFails(w)
       \/ ReconcileFails(w)

Next ==
  \/ Web
  \/ BeatTick
  \/ \E w \in Workers : TakeReconcile(w) \/ Step(w)
  \/ \E d \in Deliveries, r \in Retries : TakeMessage(d, r)
  \/ Environment

Spec == Init /\ [][Next]_vars

(* The event loop and the pool keep running, every provider call ends      *)
(* (latency is bounded), Beat ticks, rows age, and the Redis transport     *)
(* polls its queues round-robin, so no message is passed over forever.     *)
(* Nothing makes a client, an operator or a fault act.                     *)
Fairness ==
  /\ \A d \in Deliveries : WF_vars(ApplyAsync(d)) /\ WF_vars(Ages(d))
  /\ \A w \in Workers : WF_vars(Step(w))
  /\ \A d \in Deliveries, r \in Retries : SF_vars(TakeMessage(d, r))
  /\ WF_vars(BeatTick)
  /\ SF_vars(\E w \in Workers : TakeReconcile(w))

FairSpec == Spec /\ Fairness

-----------------------------------------------------------------------------
(* Properties.                                                             *)

(* Every variable has its type; a worker is busy with a message exactly    *)
(* when it is neither idle nor reconciling, and holds rows to re-queue     *)
(* exactly while it reconciles.                                            *)
TypeOK ==
  /\ row        \in [Deliveries -> Rows]
  /\ tail       \in [Deliveries -> [from: Status, to: Status]]
  /\ unsent     \subseteq Deliveries
  /\ old        \subseteq Deliveries
  /\ unsendable \subseteq Deliveries
  /\ queue      \in [Deliveries -> [Retries -> Nat]]
  /\ beatQueue  \in Nat
  /\ pc         \in [Workers -> PCs]
  /\ job        \in [Workers -> Jobs \cup {NoJob}]
  /\ seen       \in [Workers -> Rows]
  /\ todo       \in [Workers -> SUBSET Deliveries]
  /\ accepted   \in [Deliveries -> Counter]
  /\ refused    \in [Deliveries -> Counter]
  /\ faults     \in Nat
  /\ \A w \in Workers :
       /\ (job[w] = NoJob) <=> (pc[w] \in {"idle", "reconciling"})
       /\ (todo[w] # {}) <=> (pc[w] = "reconciling")

(* Commit before publish: a message in the broker, in a worker's hands or  *)
(* about to be re-queued always names a committed row, so the "not found"  *)
(* branch of the task is never taken.                                      *)
QueuedHasRow   == \A d \in Deliveries, r \in Retries : queue[d][r] > 0 => row[d].status # "NONE"
HeldHasRow     == \A w \in Workers : job[w] # NoJob => row[job[w].d].status # "NONE"
ToRequeueHasRow == \A w \in Workers : \A d \in todo[w] : row[d].status # "NONE"
UnsentHasRow   == \A d \in unsent : row[d].status # "NONE"

NoPhantomTask == QueuedHasRow /\ HeldHasRow /\ ToRequeueHasRow /\ UnsentHasRow

(* However tasks overlap and whatever fails, a row says DELIVERED only     *)
(* after a provider has accepted that notification.                        *)
DeliveredMeansAccepted ==
  \A d \in Deliveries : row[d].status = "DELIVERED" => accepted[d] > 0

(* retry_count never claims more refusals than providers have made: lost   *)
(* updates of overlapping workers only ever make it too small.             *)
RetryCountHonest == \A d \in Deliveries : row[d].retries <= refused[d]

(* Without a fault, a row is given up only after MaxRetries + 1 refusals   *)
(* of that delivery or because its template is gone, also when overlapping *)
(* tasks overwrite one another's outcome.                                  *)
GaveUpOnlyWhenExhausted ==
  \A d \in Deliveries : row[d].status = "FAILED" =>
    refused[d] > MaxRetries \/ d \in unsendable \/ faults > 0

(* Without a fault, a row is SENT only while some worker is still going to *)
(* move it on: nobody can wait for it in vain, however updates interleave. *)
Owns(w, d) ==
  /\ Handles(w, d)
  /\ \/ pc[w] = "marking"
     \/ pc[w] \in {"sending", "accepted", "refused"} /\ seen[w].status = "SENT"

SentHasOwner ==
  \A d \in Deliveries : row[d].status = "SENT" =>
    faults > 0 \/ \E w \in Workers : Owns(w, d)

(* Without a fault, a PENDING row is always about to be published, waits   *)
(* as a message or is held by a worker that is going to move it on or to   *)
(* publish its retry: no interleaving of overlapping tasks strands it.     *)
Pursues(w, d) == Handles(w, d) /\ pc[w] \in {"loaded", "rejecting", "requeue"}

PendingInHand ==
  \A d \in Deliveries : row[d].status = "PENDING" =>
    \/ faults > 0
    \/ d \in unsent
    \/ \E r \in Retries : queue[d][r] > 0
    \/ \E w \in Workers : Pursues(w, d)

(* The next three are about deliveries that no two tasks handle at the     *)
(* same time: one worker process, or one message per delivery.             *)

(* A provider accepts a notification at most once, although messages are   *)
(* redelivered and re-queued.                                              *)
AtMostOnceAccepted == \A d \in Deliveries : accepted[d] <= 1

(* The newest log entry ends at the status of the row.                     *)
AuditAgrees == \A d \in Deliveries : tail[d].to = row[d].status

(* The audit trail is a chain: an entry starts where the one before it     *)
(* ended.                                                                  *)
AuditChain ==
  [][\A d \in Deliveries : tail'[d] # tail[d] => tail'[d].from = tail[d].to]_tail

(* A delivery reported DELIVERED or FAILED keeps that status.              *)
FinishedStays ==
  [][\A d \in Deliveries :
       row[d].status \in Finished => row'[d].status = row[d].status]_row

(* One message per delivery gives one chain of attempts: the first and     *)
(* MaxRetries retries.                                                     *)
AttemptsBounded ==
  \A d \in Deliveries : accepted[d] + refused[d] <= MaxRetries + 1

(* The state machine the rows implement where no two tasks of a delivery   *)
(* overlap.                                                                *)
Lifecycle == INSTANCE DeliveryLifecycle WITH
  status  <- [d \in Deliveries |-> row[d].status],
  retries <- [d \in Deliveries |-> row[d].retries]

(* Every step of the workers, the web process and the faults is a step of  *)
(* the delivery state machine or leaves it alone.                          *)
ImplementsLifecycle == Lifecycle!Spec

(* With reconciliation running, no row stays PENDING for ever, although    *)
(* publications and workers are lost.                                      *)
PendingLeaves ==
  \A d \in Deliveries : row[d].status = "PENDING" ~> row[d].status # "PENDING"

(* Every committed delivery is DELIVERED or FAILED in the end.             *)
Settles ==
  \A d \in Deliveries : row[d].status = "PENDING" ~> row[d].status \in Finished

=============================================================================
