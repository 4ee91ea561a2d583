# Central Notification System: TLA+ models and proofs

The service accepts `POST /notifications`, stores a notification with one
delivery row per channel in PostgreSQL, publishes one Celery message per
delivery to Redis, and lets a pool of workers call mock providers, with retries,
a status log and a reconciliation job. Paths below are relative to the
repository root (`app/` is `src/app/` in `PROJECT.json`).

## 1. Inventory

| Component | Code | State it keeps | Operations |
|---|---|---|---|
| Delivery worker | `app/workers/tasks.py`, `app/repositories/notification.py`, `app/core/database.py` | delivery rows, status logs, the row in each session's identity map, broker messages and their retry counts | read the row, fail an unsendable one, mark SENT, call the provider, mark DELIVERED / PENDING / FAILED, `self.retry()`, the handler for unexpected exceptions |
| Reconciliation and Beat | `app/workers/tasks.py:165-203`, `app/workers/celery_app.py` | the list of stuck rows of one run, Beat's message | tick every 300 s, query old PENDING rows, re-queue each |
| Request handler and idempotency | `app/api/v1/notifications.py`, `app/services/idempotency.py` | Redis entry `idempotency:<key>` (lock or answer, with TTLs), `notifications.idempotency_key` (unique) | check or lock, insert, commit, publish, save the answer, release the key |
| Rate limiter | `app/services/rate_limiter.py` | one sorted set per user, with a TTL | prune and count, add and extend |
| Providers | `app/providers/` | none | send: accept or raise `ProviderError` |
| Preferences | `app/repositories/preference.py`, `app/services/preference.py`, `app/api/v1/users.py` | one row per user | upsert, read, filter channels |
| Templates | `app/repositories/template.py`, `app/services/template.py`, `app/api/v1/templates.py` | template rows, unique names | create, list, get, render |
| Read endpoints, schemas, shell, migrations | `app/api/v1/*` GETs, `app/schemas/`, `app/main.py`, `app/core/`, `alembic/` | none of their own | queries, validation, wiring, DDL |

**How they interact.** The handler asks the idempotency service first, then the
rate limiter and the template service, commits the rows, publishes, reads the
notification back and saves its answer in Redis. The only link from web to
worker is a committed row and a message with its id; the only link back is the
row. Beat publishes a message that any worker subscribed to its queue may take.
Two workers share nothing but the database and the broker.

**What is hard here.**
- The status is checked in one transaction, changed in a second and a third, and
  nothing locks the row, so overlapping tasks of one delivery interleave freely.
- Sessions run with `expire_on_commit=False`: a second SELECT of a row the
  session holds does not reload it, an UPDATE writes only attributes that differ
  from what the session holds, and only `refresh()` sees other writers.
- Messages are acknowledged late: a lost node or a passed visibility timeout
  delivers again; a lost pool child does not (`task_reject_on_worker_lost` is off).
- A commit that failed leaves the session unusable until a rollback nobody does,
  so the handler that should record FAILED raises as well and nothing is
  recorded.
- An idempotency key lives in two places with different lifetimes (120 s or 24 h
  in Redis, for ever in the unique column), and neither `save_response` nor
  `delete_key` looks at whose entry it overwrites or deletes.
- Counting and adding a request are two Redis transactions with a timestamp taken
  before the first.

`PROJECT.json` lists each hazard with its line and the properties aimed at it.

**What makes each component correct.** Delivery: no message without a row; one
acceptance per notification; DELIVERED, FAILED and `retry_count` tell the truth;
final statuses are final and the log is a chain; every delivery ends. Requests:
one notification per key, one answer per key, an answer never shows something
uncommitted or half published, no two rivals inside, every lock ends, a key that
looks free is usable. Limiter: the set and the admissions of a window stay
bounded, and `retry_after` is long enough. Preferences: every channel ends as one
of the overlapping writers asked, an answered opt-out is neither lost nor ignored.
Templates: one per name, visible once its creation is answered. The whole service:
what a 201 answer shows is on its way and settles, and no channel is served twice
for one idempotency key, whatever was retried.

## 2. Modules

| Module | Role |
|---|---|
| `Delivery` | workers, broker, Beat, reconciliation, rows and their faults |
| `DeliveryLifecycle` | abstract specification: the state machine of a delivery row against what the provider was asked |
| `DeliveryProofs`, `DeliveryInvariants` | type correctness and six invariants of `Delivery` that hold however tasks overlap |
| `DeliverySerialProofs` | what holds of `Delivery` where no two tasks work on one delivery, and that it then implements `DeliveryLifecycle` |
| `SendNotification`, `SendNotificationProofs` | concurrent executions of `POST /notifications`; its safety properties |
| `NotificationService`, `NotificationServiceProofs` | `SendNotification` and `Delivery` composed; that the composition implements both, and what follows for its own properties |
| `RateLimiter`, `RateLimiterProofs` | the sliding window; the bounds on its set and on every window, and what `retry_after` is worth |
| `PreferenceRegister` | abstract specification: one switch per channel |
| `Preferences` | concurrent upserts of one user's row |
| `Templates` | concurrent creations of template names |
| `Acceptance`, `AcceptanceProofs` | extends these two with the requests that read them; all its safety properties, and that the upserts implement the register |
| `MC*` | constants, symmetry and constraints for TLC |

### Delivery

`row` and `tail` are the tables (the newest log entry is enough for chain and
agreement properties); `queue[d][r]` counts waiting messages of delivery `d` with
Celery retry count `r`; `pc`, `job`, `seen` and `todo` are a worker process: where
it is, the unacknowledged message, the session's copy of the row, and the rows a
reconciliation run still has to publish. `accepted` and `refused` are histories.

| Code | Actions |
|---|---|
| commit and `apply_async` of the handler | `CreateDeliveries`, `ApplyAsync`, `EnqueueLost` |
| task start, early return on SENT/DELIVERED/FAILED | `Take` |
| missing or broken template | `TemplateLost`, `FailUnsendable` |
| `update_delivery_status`: UPDATE, log, commit, then `refresh` | `Update` inside `MarkSent`, `MarkDelivered`, `MarkFailed`, `MarkPending`; `Refresh` |
| provider call | `ProviderAccepts`, `ProviderRefuses` |
| `self.retry()`, end of the task | `PublishRetry`, `Acknowledge` |
| reconciliation | `BeatTick`, `Ages`, `TakeReconcile`, `Requeue`, `ReconcileFails` |
| faults | `ChildLost`, `NodeLost`, `VisibilityTimeout`, `RaiseOut`, `RefreshFails`, `MarkFatal` |

The commit and the refresh after it are separate steps, except where nothing of
the refresh is used again. A refresh that fails (`RefreshFails`) leads to the handler
for unexpected exceptions, which reads the row again there and records FAILED in a
step of its own (`MarkFatal`): another worker may write in between. The retry countdown only delays a message, and since
every delay is an interleaving it needs no clock. The "delivery not found" and
"unsupported channel" branches are unreachable from the API (`NoPhantomTask`
proves the first, the schema's enum excludes the second) and have no action.

### SendNotification

One process per execution of the handler; a client's retry is one more request.
An entry and a stored notification are named by the request that made them, so
payload and body need no copy. `Insert` models PostgreSQL's unique index: an
insert waits for an open transaction with the same key. An empty header skips
the lock (`if idempotency_key:`) yet is stored as `''`; `EmptyKey` keeps this
apart from an absent header. Rate limit, unknown template and missing variables
are one outcome, `Refuse`. Faults: process crash at every await, a handler slower
than the lock's 120 s, expiry of a saved answer, failing database, broker and
Redis commands (with or without effect).

### NotificationService

Instances of the two modules over one set of variables. They share the rows and
the broker: `Commit` of a request is also `CreateDeliveries` for its filtered
channels, each turn of the loop over `deliveries_created` (`Send`) is an
`ApplyAsync`, the loop's end is `Publish`, and a crash or a broker error in the
loop (`Lose`) is also an `EnqueueLost` of what it has not published. Every other
step is one side's own. `targets` is the filtered channel list, chosen at
`Insert`; `Acceptance` models how it comes about. A delivery is a pair of request
and entry of that list: a request that names a channel twice gets two rows, which
`Channels` would have to hold as two members.

### Preferences, Templates, Acceptance

`ReadRow` is the SELECT of an upsert, `WriteUpdate` its commit over a row that
was there (only columns that differ from what was read are in the UPDATE),
`WriteInsert` its commit over none (the primary key lets one win), `RefreshRow`
the read for the answer, `UpsertFails` a database error before or after the
commit. `before` records, for each upsert, which others had been answered when it
began. `Templates` has the same shape: `LookUpName`, `InsertTemplate` against the
unique index, `RefreshTemplate`, `CreationFails`. In `Acceptance` a request looks
up its template, is refused for its variables or not, and reads and filters by the
preferences. `FilterChannels` yields the set of channels: the order of the list and
repetitions in it are left out, and an empty list is the same as none, as
`if not requested_channels` has it. A module of the two has no specification of its
own; its steps are conjoined with what the others leave alone in `Acceptance`.

### RateLimiter

`Arrive` reads the clock, `Reject`/`Pass` are the first pipeline (prune, count,
oldest member), `Add` the second (ZADD, EXPIRE), `Fail` a pipeline that raises.
`Unit` is ticks per second, so that truncation of `retry_after` is visible.

## 3. Runs

| Run | Question | Instance and bounds |
|---|---|---|
| `faults` | Do the invariants that hold without any assumption on overlap hold, and is every PENDING row pursued? | 1 delivery, 2 workers, every kind of fault, 1 fault, 1 retry |
| `one_worker` | Is a delivery sent once, logged as it is, final when final, a refinement of `DeliveryLifecycle` if tasks cannot overlap, and does every PENDING row leave PENDING although publications and processes are lost? | 1 worker, reconciliation duplicates allowed, 2 faults, 2 retries |
| `shipped` | As started by `docker-compose.yml` and without faults: does every delivery implement `DeliveryLifecycle`, which accepts a notification once, log its changes as a chain though each retry may run in another process, take at most `MaxRetries + 1` attempts, and end? | 2 deliveries of different priority, 2 workers |
| `requests` | Are keys, answers and entries consistent under every fault? | 3 requests on one key (one with another payload) and 2 with an empty header, 2 faults |
| `requests_fair` | Without slow handlers: is the lock a lock, are answers kept, does every request and every lock end? | 3 requests on a key, 1 without a header, 2 faults |
| `limiter` | How far can overlapping requests exceed the limit, and does whoever waits as announced, plus a second, find an entry gone? | 5 requests, 2 inside at a time, any delay; half-second ticks and a window of 2.5 s, so that truncation shows |
| `service` | Is a key served once per channel, and is what a 201 shows in hand and settled in the end? | a request and its retry on one key, 2 channels, 1 worker, one web fault (crash or broker), one worker fault (lost child), no retries |
| `acceptance` | What may a request conclude from upserts and creations already answered? | 3 upserts of 2 channels no two of which agree, 2 creations of one name, 2 requests (one lists a channel, one lists none) |
| `sent_stuck` | violation: a killed worker leaves a row SENT for ever | 1 worker, 1 lost child |
| `overlap` | violation: two tasks of one delivery both send it | 2 workers, a reconciliation duplicate, no fault |
| `publish_fails` | violation: a released key cannot be retried | 2 requests, broker fails once |
| `limiter_overlap` | violation: two overlapping requests pass a limit of 1 | 3 requests, 2 inside |

**Bounds and why they suffice.** `MaxCopies` = 2: Beat is held back while a
delivery already has two messages; two are enough for every overlap of two
workers, and faults may still add one. `MaxFaults` = 1 or 2: one fault per
message already separates "lost before", "lost between" and "lost after" each
commit, a second one lets the recovery fail. `CounterCap` is above every value the
properties compare with (`MaxRetries + 1` refusals, 2 acceptances); counters stop
there, and `one_worker` has a cap no instance reaches. `MaxRetries` = 1 or 2
shows a retry and its exhaustion. Three requests per key are the least that
separate the one holding a lock, the one whose entry replaced it and the one that
reads the result. `MaxTime` is more than a window, so that members leave it and
the set expires. In `service` one worker with one duplicate already lets every step of the
worker fall between any two of the publishing loop; overlap of workers is the
matter of `faults`, and retries are that of `one_worker`, so `MaxRetries` is 0
there. The two requests and the two channels of `service` are interchangeable; since
`SYMMETRY` is unsound with its liveness property, the constraint `FirstOfPairs`
names the one that commits, or is published, first. It cuts no behaviour short:
a state outside it is one inside it with the names exchanged, and no behaviour
inside it leaves it but by a step whose mirror image stays. In `acceptance` two
upserts can disagree and the third can have been answered before either began; a
fourth would add no new relation between two of them.

**Deadlock** is checked in the `faults`, `one_worker`, `sent_stuck`,
`overlap` and `service` runs, where Beat never lets the system rest. The others stop when
every request has been answered, or when all deliveries are final and nobody
consumes Beat's message (`shipped`), hence `CHECK_DEADLOCK FALSE` there.

**Fairness.** `Delivery`: weak fairness of each worker's own steps (a coroutine
whose await has ended is resumed, a provider call has bounded latency), of the
publication after a commit, of rows ageing and of Beat; strong fairness of taking
each kind of message and of taking the reconciliation message, because the
Redis transport polls its queues round-robin, so a message that waits again and again
is taken although workers are busy in between. No fairness on clients, operators,
faults, or on the choice between acceptance and refusal. `SendNotification`: weak
fairness of every request that has begun and of the expiry of a lock whose
request has ended. The web process's event loop and Redis's TTL justify both.
`NotificationService`: the same for the same steps; `WebStep` contains the turns
of the publishing loop. `Preferences`, `Templates` and `Acceptance` promise
nothing that needs fairness.

**The refinements.** `Lifecycle` maps a row to its status and `retry_count`;
the histories map to themselves. Every step is one of `Create`, `Send`,
`Accept`, `Refuse`, `Confirm`, `CountRefusal`, `Reject` or a stutter. It holds with one
worker under lost processes and redelivery, and with many workers where each
delivery has one message; it fails as soon as two tasks of a delivery overlap.
`Register` maps an upsert to the channels it need not write any more (`Taken`):
those its read found as asked, then all. Its read is thus the moment it sets the
former, its commit the moment it sets the latter, whatever was committed between.
The register does not promise that all channels change at one moment, and they
do not: two overlapping upserts can leave a row that neither asked for.
`NotificationService` is not mapped to an abstract specification but onto its two
parts, by a theorem.

## 4. Proofs

All theorems are for arbitrary constants satisfying the named assumptions
(`PriorityAssumption`, `BoundsAssumption`, `FaultAssumption`, `NoJobAssumption`;
`KeyAssumption`, `PayloadAssumption`, `NobodyAssumption`; `NumbersAssumption`,
`RequestsAssumption`; `AskedAssumption`, `NameAssumption`, `RequestAssumption`);
those only type the constants, and ask
that `CounterCap` exceed `MaxRetries` and requests of a user be finitely many.
The theorems of `NotificationServiceProofs` need none.

Some properties depend on how the service is deployed or on what may fail; the
runs show that each condition matters (`overlap`, and section 5). Their theorems
have it as a hypothesis on the constants:

- *No two tasks on one delivery*: `OneProcess` (a pool of one process, every fault
  allowed, reconciliation and redelivery included) or `OneChain` (any number of
  workers, but nobody consumes the reconciliation task, as in `docker-compose.yml`,
  and the broker redelivers nothing; lost processes and publications allowed).
- *The database stays up* (`"db" \notin FaultKinds`) for finality and the lifecycle:
  a failed refresh after DELIVERED makes the task record FAILED.
- *The counters have not reached their bound* (`[]Uncapped`) for the lifecycle under
  `OneProcess`. `CounterCap` is the model's bound, not the code's; under `OneChain`
  it is proved that no execution gets there, so that `LifecycleAsShipped` has no such
  hypothesis.
- *No handler outlives its lock*, and not both of "a Redis command raises after it
  took effect" and "a saved answer expires", for mutual exclusion. With both, the
  request that saved an answer and was told it had failed can still be about to
  delete it when it expires and another request gets in.
- *A limit above zero* for `retry_after`: with `RATE_LIMIT_MAX_REQUESTS` 0 a request is
  turned away from an empty set, which nothing can leave.

| Theorem | States | Inductive invariant |
|---|---|---|
| `DeliveryProofs!TypeCorrect` | `TypeOK` | itself: a worker holds a message exactly while busy with one |
| `DeliveredCorrect` | `DeliveredMeansAccepted` | with `AnswerKept`: a worker in `accepted` has the acceptance behind it, which is what MarkDelivered relies on |
| `NoPhantomCorrect` | `NoPhantomTask` | its four parts need one another: broker, hands, re-queue list and unsent rows feed each other |
| `RetryCountCorrect` | `RetryCountHonest` | with `SeenHonest`: a *stale copy* is honest too, and in `refused` one refusal is not counted yet; that is why lost updates only lower the count |
| `GaveUpCorrect` | `GaveUpOnlyWhenExhausted` | with `QueuedBudget` and `HeldBudget`: a message with retry count `r` has `r` refusals behind it, whatever duplicates exist; with `FailingAfterFault`: the handler for unexpected exceptions runs only after a fault |
| `SentHasOwnerCorrect` | `SentHasOwner` | itself, given `TypeOK`: a write of another status by an owner really changes the row since the owner's copy says SENT |
| `PendingInHandCorrect` | `PendingInHand` | with `Ready`: a worker about to send or reject has seen a row that is not finished, so its write changes the row whatever others wrote, and one about to publish a retry has an attempt left; then a row becomes PENDING only where somebody goes on to publish for it, and a message leaves the broker only into the hands of a worker that moves the row on or finds it finished |
| `AtMostOnceCorrect`, `AuditAgreesCorrect` | `AtMostOnceAccepted`, `AuditAgrees`, if `OneProcess` or `OneChain` | `SerialInv` given `Exclusive`. `RowOK`: a row not sent yet, or put back, has no acceptance and all its refusals counted; `HeldOK`: whoever is about to write holds the row as it is, whoever is about to ask the provider holds an unanswered one. Neither half is inductive alone: the row's history is kept because the worker's copy is fresh, and that is fresh because nobody else writes. `Exclusive` is trivial for one process; for `OneChain` it comes from `TokenInv`: of each delivery there is one publication to come, or one message, or one task, or nothing |
| `AuditChainCorrect` | `AuditChain`, same condition | the step, from `SerialInv` |
| `FinishedStaysCorrect` | `FinishedStays`, same condition, database up | the step, from `SerialInv`: a worker that writes finds PENDING or SENT |
| `AttemptsBoundedCorrect` | `AttemptsBounded`, if `OneChain` | `AttemptsInv`: a message or task with retry count `r` comes after at most `r` attempts, `r + 1` once the provider has answered; it needs `TokenInv`, or a second message would add attempts of its own |
| `LifecycleCorrect` | `Spec /\ []Uncapped => ImplementsLifecycle`, same condition, database up | `SerialInv` and `Recordable`: each action is mapped to its step of `DeliveryLifecycle` or to a stutter |
| `LifecycleAsShipped` | `ImplementsLifecycle`, if `OneChain` and the database is up | `AttemptsInv` shows `Uncapped` |
| `SendNotificationProofs!TypeCorrect` | `TypeOK` | itself |
| `OnePerKeyCorrect` | `OnePerKey` | with `OneOpen`: no rival of an open insert is stored or open; the unique index alone carries it, Redis is not used |
| `DoneIsCompleteCorrect` | `DoneIsComplete` | `AnswerInv`: with `Progress`, what a request past its commit and its publication has stored and queued |
| `AnswerHonestCorrect`, `SameAnswerCorrect` | `AnswerHonest`, `SameAnswer` | a 201 comes from the request itself or from a complete DONE entry; `OnePerKey` makes all of them one |
| `MutualExclusionCorrect` | `MutualExclusion`, under the condition on locks above | `LockInv`: whoever works under a key is named by its entry, and a DONE entry of a request still at work is there only if a Redis command may fail |
| `DoneStaysCorrect` | `DoneStays`, if no lock lapses early, no Redis command fails and no saved answer expires | the step, from `LockInv`: who releases or saves is the one its entry names |
| `RateLimiterProofs!TypeCorrect` | `TypeOK` | itself; the earliest member of a finite set of numbers exists (`LeastNatural`, since `<` is well-founded) |
| `RetryCorrect` | `RetryWithinASecond`, if the limit is above zero | `NothingAnnounced`; then `WholeSeconds`, that truncating division by the ticks of a second loses less than a second |
| `SetBoundedCorrect` | `SetBounded` | `SetInv`: adds that at most `InFlight` requests are inside; `Pass` compares the set with the limit but does not see the requests that have passed and not added themselves yet |
| `WindowBoundedCorrect` | `WindowBounded` | `WindowInv`: a recent admission is never pruned nor lost to the TTL (`Recent`), and for each window that has closed, the admissions in it together with requests still inside that read the clock in it (`Counted`) are bounded; a window's last admissions are counted by the request that enters after it, so the bound has to speak of both |
| `ImplementsSendNotification` | `Spec => Req!Spec` | every composed step is a step of the web side or leaves it alone |
| `ImplementsDelivery` | `Spec => Wrk!Spec` | with `TargetsOK`: the rows a request creates and loses are a set `Delivery` knows |
| `AnsweredInHandCorrect` | `AnsweredInHand` | `EarlyInv` and `Linked`: a committed notification has a row for each target, one that counts as published has none left to publish; from these, `AnswerHonest` of the web side and `SentHasOwner` and `PendingInHand` of the workers give the three cases of a row's status |
| `NotificationServiceProofs!TypeCorrect` | `TypeOK` | `UnsentOK`, with `EarlyInv` and `TargetsOK`: what is still to be published belongs to a target of a request in its loop, so that a loop that ended, or was cut off, leaves nothing behind |
| `SentOnceCorrect` | `SentOnce` | `OnlyStored`: the deliveries of a request that has not committed have no row and no acceptance; so a channel served twice for a key would be two stored rivals, which `OnePerKey` excludes |
| `AcceptanceProofs!TypeCorrect` | `TypeOK` | itself: once an upsert has seen or written the row, it stays, and so does a template |
| `LastWordCorrect` | `LastWord` | a column an upsert does not write was as asked when it read it, and stays so unless a rival writes it |
| `RegisterCorrect` | `ImplementsRegister` | `PrefsTypeOK`; the steps of the others leave an upsert's `Taken` alone |
| `OneTemplateCorrect` | `OneTemplate` | with the type: a creation answered, or past its insert, has a template of its name |
| `OptOutCorrect` | `OptOutHonoured` | `LastWord`: the row the request reads says no |
| `NothingWithheldCorrect` | `NothingWithheld` | `AskedFor`: whatever the row says of a channel, an upsert that has committed asked for it |

`AnsweredInHandCorrect`, `SentOnceCorrect` and `NotificationServiceProofs!TypeCorrect`
have theorems of the parts as premises (`Req!Spec => []Req!AnswerHonest` and so
on). They are proved in the modules named in their comments; the prover cannot
cite a theorem through an instance of a module of proofs, hence the premises.
All but one of them hold for every value of the constants. The exception is
`Wrk!AtMostOnceAccepted` in `SentOnceCorrect`, which is `AtMostOnceCorrect` and so
needs `OneProcess` or `OneChain` of the workers of the service; the `service` run has
one worker.

The order of the arguments for deliveries: `TypeCorrect` and `NoPhantomCorrect`
first; then for `OneChain` `TokenInv` (without looking at the rows), from it
`Exclusive`, from that `SerialInv`, which says that a session's copy is the row
whenever an update relies on it; all of `AtMostOnceAccepted`, the audit properties,
finality and the refinement are consequences of that one fact, and the properties
that survive overlap (`DeliveryInvariants`) are those that do without it.

Model-checked only: liveness (`Settles`, `PendingLeaves`, `AnsweredSettles`,
`Answered`, `LockEnds`), which with fairness and ENABLED is out of the prover's
reach. Every safety property of a passing run is a theorem. The conditions
above are no artefact of the proofs: TLC violates the properties in instances with
reconciliation consumed, a lost node or a passed visibility timeout and two workers
(`AuditAgrees` with a passed timeout only), the `db` fault, a slow handler, `redis` and
`expire` together, a limit of zero.

## 5. What the models show beyond the runs

Each of these is a change of a few lines in a configuration above: other constants,
the property named, and no deadlock check where the system then may stop.

- *Nobody consumes the reconciliation task.* The worker is started with
  `-Q critical,high,default,low` (`docker-compose.yml:58`) and Beat publishes to
  Celery's default queue `celery`, so `DESIGN.md:115-116` does not happen: in
  `one_worker` with `WorkerQueues <- ShippedQueues`, `PendingLeaves` fails. The
  runs about reconciliation therefore use `AllQueues`, the documented design.
- *Reconciled duplicates can retry for ever.* A row whose messages keep coming back
  starts a new chain at retry count 0 each time; `Settles` fails with two workers and
  `AllQueues`, against "a maximum of 3 times" (`DESIGN.md:112`).
- *Overlap breaks the audit trail and finality.* With two workers and `AllQueues`,
  `AuditChain` and `FinishedStays` fail (`DESIGN.md:101`, `app/workers/tasks.py:52`).
  `ImplementsLifecycle` fails too, among others because two refusals can be counted
  as one (`app/repositories/notification.py:77`).
- *FAILED over DELIVERED.* With one worker and the `db` fault, a refresh that gets no
  connection after the commit of DELIVERED makes `FinishedStays` fail (`RefreshFails`, then `MarkFatal`).
- *Four attempts.* `AttemptsBounded` is `MaxRetries + 1`: the first attempt and 3
  retries, where `DESIGN.md:112` says "If all 3 attempts fail".
- *Slow handlers.* With the `slow` fault, `MutualExclusion` (`DESIGN.md:142`) and
  `DoneStays` fail: a lapsed lock lets a rival in, whose failure deletes the entry.
- *Expired answers.* With `expire`, `FreeKeyIsUsable` fails: after 24 hours a key
  is free in Redis and still taken in the table (`README.md:122`).
- *Late requests.* In `limiter` with `InFlight` 1, `StrictLimit` fails: the
  timestamp is older than the expiry of the set it is added to.
- *Truncated `retry_after`.* Without the added second `RetryWithinASecond` fails
  (`app/services/rate_limiter.py:43`).
- *Mixed preferences.* A row that is none of the rows asked for: in `acceptance`,
  `row \in {Asked[u] : u \in Upserts} \cup {NoRow}` fails. The register is per channel for that reason.
- *Conflicts become errors.* Two first upserts of a user, or two creations of a
  name, that overlap: the loser's IntegrityError is caught by nobody (`WriteInsert`
  to "error", `InsertTemplate` to "conflict") and answered 500, where the handler of
  templates answers 400 to one that comes later (`app/api/v1/templates.py:24`).

Read in the code, without bearing on a model:

- `app/api/v1/users.py` uses `Any` at lines 25, 38 and 65 and imports it at line
  69: under the Python 3.11 of the image the module cannot be imported. The models
  describe the endpoints as written.
- The handlers in `app/main.py` for template, lock and payload errors are not
  reached from the endpoint, which turns these into `HTTPException` itself.

## 6. Not modelled

- Template rendering (Jinja2), schemas, logging, settings, migrations, GET
  handlers: no state of their own; their outcomes are choices in the models.
- Failure rates and latencies of the providers: every outcome at every time.
- `error_message`: only written when given, so a delivered row may keep an old error.
- A channel listed twice in a request: the code keeps it and delivers twice, and no
  document says what it should do.
- The response of an upsert: it shows the row as the refresh finds it, which may be
  a later one; nothing depends on it.
- Users other than one in `RateLimiter` and `Preferences`: keys and rows of
  different users are independent.

## 7. Plan

Done in this order: delivery pipeline and its abstract state machine; type and
truth invariants proved; request handler with idempotency and its proofs; rate
limiter; preferences, templates and the requests that read them; the composed
service; the properties of deliveries that no two tasks work on, the refinement of
the lifecycle, the lock, the windows of the limiter and the safety of the service
proved.

Next:
1. The safety half of liveness: that a worker which is busy, and a request which
   has begun, always has a step to take, and that each step brings it nearer to its
   end (a variant), so that only fairness itself is left to TLC.
2. `error_message`, if a document comes to say what it holds for a delivered row.
