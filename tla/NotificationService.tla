------------------------ MODULE NotificationService ------------------------
(***************************************************************************)
(* The service end to end: executions of POST /notifications on one side,  *)
(* the workers on the other.  The two share the delivery rows and the      *)
(* broker only: the commit of a request creates its rows, its publications *)
(* put their messages into the broker, and every other step belongs to one *)
(* side and leaves the other alone.                                        *)
(***************************************************************************)
EXTENDS Naturals, FiniteSets

CONSTANTS
  \* of the web processes
  Requests, Keys, NoKey, EmptyKey, Key, Payloads, Payload, Nobody,
  WebFaultKinds, MaxWebFaults,
  \* of a notification
  Channels,    \* entries of a filtered channel list; one repeated gets two rows
  PriorityOf,  \* the priority each request asks for
  \* of the workers
  Workers, WorkerQueues, MaxRetries, NoJob,
  WorkerFaultKinds, MaxWorkerFaults, MaxCopies, CounterCap

VARIABLES
  entry, stored, queued, rpc, reply, body, rfaults,  \* SendNotification
  targets,                                           \* the filtered channels of each request
  row, tail, unsent, old, unsendable, queue, beatQueue,
  wpc, job, seen, todo, accepted, refused, wfaults   \* Delivery

(* create_delivery makes one row for each channel of the notification.     *)
DeliveriesOf(q) == {q} \X targets[q]

Req == INSTANCE SendNotification WITH
  pc <- rpc, faults <- rfaults,
  FaultKinds <- WebFaultKinds, MaxFaults <- MaxWebFaults

Wrk == INSTANCE Delivery WITH
  Deliveries <- Requests \X Channels,
  Priority   <- [d \in Requests \X Channels |-> PriorityOf[d[1]]],
  pc <- wpc, faults <- wfaults,
  FaultKinds <- WorkerFaultKinds, MaxFaults <- MaxWorkerFaults

web     == <<entry, stored, queued, rpc, reply, body, rfaults>>
workers == <<row, tail, unsent, old, unsendable, queue, beatQueue,
             wpc, job, seen, todo, accepted, refused, wfaults>>
vars    == <<web, targets, workers>>

Init == Req!Init /\ Wrk!Init /\ targets = [q \in Requests |-> {}]

-----------------------------------------------------------------------------
(* Steps the two sides take together.                                      *)

(* The channels left by the preference filter, fixed before the insert.    *)
Insert(q) ==
  /\ Req!Insert(q)
  /\ \/ rpc'[q] # "inserted" /\ UNCHANGED targets
     \/ rpc'[q] = "inserted" /\ \E cs \in SUBSET Channels : targets' = [targets EXCEPT ![q] = cs]
  /\ UNCHANGED workers

(* The notification and all its deliveries, in one transaction.            *)
Commit(q) ==
  /\ Req!Commit(q)
  /\ \/ targets[q] = {} /\ UNCHANGED workers
     \/ Wrk!CreateDeliveries(DeliveriesOf(q))
  /\ UNCHANGED targets

Unsent(q) == unsent \cap DeliveriesOf(q)

(* One turn of the loop over deliveries_created; workers run beside it.    *)
Send(q, c) ==
  /\ rpc[q] = "committed"
  /\ Wrk!ApplyAsync(<<q, c>>)
  /\ UNCHANGED <<web, targets>>

\* Mutant of Publish: the answer does not wait for the loop.
PublishBeside(q) == Req!Publish(q) /\ UNCHANGED <<workers, targets>>

(* The loop has ended.                                                     *)
Publish(q) ==
  /\ Unsent(q) = {}
  /\ Req!Publish(q)
  /\ UNCHANGED <<workers, targets>>

\* Mutant of Lose: the rows still count as about to be published.
LoseNothing(q) ==
  /\ rpc[q] = "committed"
  /\ Req!Crash(q)
  /\ UNCHANGED <<workers, targets>>

(* The process dies, or apply_async raises, in the loop: this request      *)
(* publishes nothing more.  A message may be out although its call raised. *)
Lose(q) ==
  /\ rpc[q] = "committed"
  /\ Req!Crash(q) \/ (targets[q] # {} /\ Req!BrokerFails(q))
  /\ queued'[q] = "some" <=> Unsent(q) # DeliveriesOf(q)
  /\ \/ Unsent(q) = {} /\ UNCHANGED workers
     \/ Wrk!EnqueueLost(Unsent(q))
  /\ UNCHANGED targets

-----------------------------------------------------------------------------
(* Steps of one side.                                                      *)

WebAlone(q) ==
  /\ \/ Req!SkipLock(q) \/ Req!Lookup(q) \/ Req!Lock(q)
     \/ Req!Refuse(q) \/ Req!Save(q) \/ Req!Release(q)
  /\ UNCHANGED <<workers, targets>>

WebFault(q) ==
  /\ \/ rpc[q] # "committed" /\ Req!Crash(q)
     \/ Req!DatabaseFails(q)
     \/ Req!RedisFails(q)
  /\ UNCHANGED <<workers, targets>>

Expiry(k) ==
  /\ Req!LockLapses(k) \/ Req!LockLapsesEarly(k) \/ Req!AnswerLapses(k)
  /\ UNCHANGED <<workers, targets>>

WorkersOnly == UNCHANGED <<web, targets>>

Ages(d)         == Wrk!Ages(d) /\ WorkersOnly
BeatTick        == Wrk!BeatTick /\ WorkersOnly
WorkerStep(w)   == Wrk!Step(w) /\ WorkersOnly
TakeReconcile   == (\E w \in Workers : Wrk!TakeReconcile(w)) /\ WorkersOnly
TakeMessage(d, r) == Wrk!TakeMessage(d, r) /\ WorkersOnly

WorkerFault ==
  /\ \/ \E d \in Requests \X Channels : Wrk!TemplateLost(d)
     \/ \E w \in Workers :
          \/ Wrk!ChildLost(w) \/ Wrk!NodeLost(w) \/ Wrk!VisibilityTimeout(w)
          \/ Wrk!RaiseOut(w) \/ Wrk!RefreshFails(w) \/ Wrk!ReconcileFails(w)
  /\ WorkersOnly

-----------------------------------------------------------------------------
WebStep(q) ==
  \/ WebAlone(q) \/ Insert(q) \/ Commit(q) \/ Publish(q)
  \/ \E c \in Channels : Send(q, c)

Next ==
  \/ \E q \in Requests : WebStep(q) \/ Lose(q) \/ WebFault(q)
  \/ \E k \in Keys : Expiry(k)
  \/ \E d \in Requests \X Channels :
       Ages(d) \/ \E r \in 0..MaxRetries : TakeMessage(d, r)
  \/ BeatTick
  \/ TakeReconcile
  \/ \E w \in Workers : WorkerStep(w)
  \/ WorkerFault

Spec == Init /\ [][Next]_vars

(* The fairness of the two sides, for the same reasons.                    *)
Fairness ==
  /\ \A q \in Requests : WF_vars(rpc[q] # "new" /\ WebStep(q))
  /\ \A w \in Workers : WF_vars(WorkerStep(w))
  /\ \A d \in Requests \X Channels :
       WF_vars(Ages(d)) /\ \A r \in 0..MaxRetries : SF_vars(TakeMessage(d, r))
  /\ WF_vars(BeatTick)
  /\ SF_vars(TakeReconcile)

FairSpec == Spec /\ Fairness

-----------------------------------------------------------------------------
(* Properties.                                                             *)

Answered(q) == rpc[q] = "answered" /\ reply[q] = "created"

TypeOK ==
  /\ Req!TypeOK
  /\ Wrk!TypeOK
  /\ targets \in [Requests -> SUBSET Channels]
  /\ \A d \in unsent : rpc[d[1]] = "committed"

(* Across the executions that share an idempotency key, retries after an   *)
(* error or a crash in the middle of publishing included, a provider       *)
(* accepts at most one message on each channel.                            *)
SentOnce ==
  \A d, e \in Requests \X Channels :
    /\ accepted[d] <= 1
    /\ accepted[d] > 0 /\ accepted[e] > 0 /\ d # e
         => d[2] # e[2] \/ e[1] \notin Req!Rivals(d[1])

(* Behind a 201 answer, also one replayed from Redis, every delivery of    *)
(* the notification shown is settled, waits as a message or is in a        *)
(* worker's hands, unless a worker has failed.                             *)
InHand(d) ==
  \/ row[d].status \in Wrk!Finished
  \/ \E r \in 0..MaxRetries : queue[d][r] > 0
  \/ \E w \in Workers : Wrk!Handles(w, d)

AnsweredInHand ==
  \A q \in Requests : Answered(q) =>
    \A c \in targets[body[q]] : InHand(<<body[q], c>>) \/ wfaults > 0

(* Every delivery behind a 201 answer is DELIVERED or FAILED in the end,   *)
(* unless a worker fails.                                                  *)
AllSettled ==
  \A q \in Requests : Answered(q) =>
    \A c \in targets[body[q]] : row[<<body[q], c>>].status \in Wrk!Finished \/ wfaults > 0

AnsweredSettles == (\E q \in Requests : Answered(q)) ~> AllSettled

=============================================================================
