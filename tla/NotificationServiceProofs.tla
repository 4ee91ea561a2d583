--------------------- MODULE NotificationServiceProofs ---------------------
(***************************************************************************)
(* The composition adds no behaviour to its parts: every theorem about     *)
(* SendNotification and about Delivery is one about the whole service.     *)
(***************************************************************************)
EXTENDS NotificationService, TLAPS

(* Every step of the service is a step of POST /notifications as           *)
(* SendNotification has it, or leaves the web side alone.                  *)
THEOREM ImplementsSendNotification == Spec => Req!Spec
<1>1. Init => Req!Init
  BY DEF Init
<1>2. [Next]_vars => [Req!Next]_(Req!vars)
  <2> SUFFICES ASSUME [Next]_vars PROVE Req!Next \/ UNCHANGED web
    BY DEF web, Req!vars
  <2>1. ASSUME NEW q \in Requests, WebStep(q) PROVE Req!Step(q) \/ UNCHANGED web
    BY <2>1 DEF WebStep, WebAlone, Insert, Commit, Publish, Send, Req!Step
  <2>2. ASSUME NEW q \in Requests, Lose(q) \/ WebFault(q)
        PROVE  Req!Crash(q) \/ Req!DatabaseFails(q) \/ Req!BrokerFails(q) \/ Req!RedisFails(q)
    BY <2>2 DEF Lose, WebFault
  <2>3. ASSUME NEW k \in Keys, Expiry(k)
        PROVE  Req!LockLapses(k) \/ Req!LockLapsesEarly(k) \/ Req!AnswerLapses(k)
    BY <2>3 DEF Expiry
  <2> QED
    BY <2>1, <2>2, <2>3
       DEF Next, Req!Next, vars, Ages, BeatTick, WorkerStep, TakeReconcile, TakeMessage,
           WorkerFault, WorkersOnly
<1> QED
  BY <1>1, <1>2, PTL DEF Spec, Req!Spec

(* A request's deliveries are on channels of the service.                  *)
TargetsOK == targets \in [Requests -> SUBSET Channels]

LEMMA TargetsCorrect == Spec => []TargetsOK
<1>1. Init => TargetsOK
  BY DEF Init, TargetsOK
<1>2. TargetsOK /\ [Next]_vars => TargetsOK'
  <2> SUFFICES ASSUME TargetsOK, [Next]_vars PROVE TargetsOK'
    OBVIOUS
  <2>1. ASSUME UNCHANGED targets PROVE TargetsOK'
    BY <2>1 DEF TargetsOK
  <2>2. ASSUME NEW q \in Requests, Insert(q) PROVE TargetsOK'
    BY <2>2 DEF Insert, TargetsOK
  <2>3. ASSUME NEW q \in Requests, WebStep(q) \/ Lose(q) \/ WebFault(q), ~ Insert(q)
        PROVE  UNCHANGED targets
    BY <2>3 DEF WebStep, WebAlone, Commit, Publish, Send, Lose, WebFault
  <2> QED
    BY <2>1, <2>2, <2>3
       DEF Next, vars, WebStep, Expiry, Ages, BeatTick, WorkerStep, TakeReconcile, TakeMessage,
           WorkerFault, WorkersOnly
<1> QED
  BY <1>1, <1>2, PTL DEF Spec

LEMMA DeliveryStep ==
  ASSUME TargetsOK, [Next]_vars
  PROVE  Wrk!Next \/ UNCHANGED workers
<1> DEFINE D == Requests \X Channels
<1>1. \A q \in Requests : DeliveriesOf(q) \in SUBSET D /\ Unsent(q) \in SUBSET D
  BY DEF TargetsOK, DeliveriesOf, Unsent
<1>2. ASSUME NEW q \in Requests, Commit(q) PROVE Wrk!Next \/ UNCHANGED workers
  <2>1. CASE Wrk!CreateDeliveries(DeliveriesOf(q))
    BY <1>1, <2>1 DEF Wrk!Next, Wrk!Web
  <2> QED
    BY <1>2, <2>1 DEF Commit
<1>3. ASSUME NEW q \in Requests, NEW c \in Channels, Send(q, c) PROVE Wrk!Next
  <2>1. Wrk!ApplyAsync(<<q, c>>) /\ <<q, c>> \in D
    BY <1>3 DEF Send
  <2> QED
    BY <2>1 DEF Wrk!Next, Wrk!Web
<1>4. ASSUME NEW q \in Requests, Lose(q) PROVE Wrk!Next \/ UNCHANGED workers
  <2>1. CASE Wrk!EnqueueLost(Unsent(q))
    BY <1>1, <2>1 DEF Wrk!Next, Wrk!Environment
  <2> QED
    BY <1>4, <2>1 DEF Lose
<1>5. ASSUME NEW q \in Requests, WebAlone(q) \/ Insert(q) \/ Publish(q) \/ WebFault(q)
      PROVE  UNCHANGED workers
  BY <1>5 DEF WebAlone, Insert, Publish, WebFault
<1>6. ASSUME NEW k \in Keys, Expiry(k) PROVE UNCHANGED workers
  BY <1>6 DEF Expiry
<1>7. ASSUME NEW d \in D, Ages(d) PROVE Wrk!Next
  BY <1>7 DEF Ages, Wrk!Next, Wrk!Web
<1>8. ASSUME NEW d \in D, NEW r \in 0..MaxRetries, TakeMessage(d, r) PROVE Wrk!Next
  BY <1>8 DEF TakeMessage, Wrk!Next, Wrk!Retries
<1>9. ASSUME BeatTick \/ TakeReconcile \/ (\E w \in Workers : WorkerStep(w)) PROVE Wrk!Next
  BY <1>9 DEF BeatTick, TakeReconcile, WorkerStep, Wrk!Next
<1>10. ASSUME WorkerFault PROVE Wrk!Next
  BY <1>10 DEF WorkerFault, Wrk!Next, Wrk!Environment
<1> QED
  BY <1>2, <1>3, <1>4, <1>5, <1>6, <1>7, <1>8, <1>9, <1>10 DEF Next, WebStep, vars

(* The workers, the broker and the rows behave as Delivery says: in        *)
(* particular one request's rows are created, published and lost in the    *)
(* ways Delivery allows for any set of rows.                               *)
THEOREM ImplementsDelivery == Spec => Wrk!Spec
<1>1. Init => Wrk!Init
  BY DEF Init
<1>2. TargetsOK /\ [Next]_vars => [Wrk!Next]_(Wrk!vars)
  BY DeliveryStep DEF workers, Wrk!vars
<1> QED
  BY <1>1, <1>2, TargetsCorrect, PTL DEF Spec, Wrk!Spec

-----------------------------------------------------------------------------
(* What the steps leave alone.                                             *)

(* Only a request's own steps move it, or add to what is to be published.  *)
LEMMA QuietSteps ==
  ASSUME [Next]_vars,
         ~ \E q \in Requests : \/ Insert(q) \/ Commit(q) \/ Publish(q)
                              \/ Lose(q) \/ WebAlone(q) \/ WebFault(q)
  PROVE  UNCHANGED <<stored, queued, rpc, targets>> /\ unsent' \subseteq unsent
<1>1. ASSUME NEW k \in Keys, Expiry(k)
      PROVE  UNCHANGED <<stored, queued, rpc, targets, unsent>>
  BY <1>1 DEF Expiry, workers, Req!LockLapses, Req!LockLapsesEarly, Req!AnswerLapses
<1>2. ASSUME NEW q \in Requests, NEW c \in Channels, Send(q, c)
      PROVE  UNCHANGED <<stored, queued, rpc, targets>> /\ unsent' \subseteq unsent
  BY <1>2 DEF Send, Wrk!ApplyAsync, web
<1>3. ASSUME NEW d \in Requests \X Channels, Ages(d) \/ (\E r \in 0..MaxRetries : TakeMessage(d, r))
      PROVE  UNCHANGED <<stored, queued, rpc, targets, unsent>>
  BY <1>3 DEF Ages, TakeMessage, Wrk!Ages, Wrk!TakeMessage, Wrk!Take, Wrk!db, WorkersOnly, web
<1>4. ASSUME BeatTick \/ TakeReconcile
      PROVE  UNCHANGED <<stored, queued, rpc, targets, unsent>>
  BY <1>4 DEF BeatTick, TakeReconcile, Wrk!BeatTick, Wrk!TakeReconcile, Wrk!db, WorkersOnly, web
<1>5. ASSUME NEW w \in Workers, WorkerStep(w)
      PROVE  UNCHANGED <<stored, queued, rpc, targets, unsent>>
  BY <1>5
     DEF WorkerStep, Wrk!Step, Wrk!FailUnsendable, Wrk!MarkSent, Wrk!Refresh,
         Wrk!ProviderAccepts, Wrk!ProviderRefuses, Wrk!MarkDelivered, Wrk!MarkFailed,
         Wrk!MarkPending, Wrk!MarkFatal, Wrk!PublishRetry, Wrk!Acknowledge, Wrk!Requeue, Wrk!db,
         WorkersOnly, web
<1>6. ASSUME WorkerFault
      PROVE  UNCHANGED <<stored, queued, rpc, targets, unsent>>
  BY <1>6
     DEF WorkerFault, Wrk!TemplateLost, Wrk!ChildLost, Wrk!NodeLost, Wrk!VisibilityTimeout,
         Wrk!RaiseOut, Wrk!RefreshFails, Wrk!ReconcileFails, Wrk!db, WorkersOnly, web
<1>7. CASE UNCHANGED vars
  BY <1>7 DEF vars, web, workers
<1> QED
  BY <1>1, <1>2, <1>3, <1>4, <1>5, <1>6, <1>7 DEF Next, WebStep

(* The steps of a request outside the transaction and the loop.            *)
LEMMA AsideSteps ==
  ASSUME NEW q \in Requests, WebAlone(q) \/ WebFault(q)
  PROVE  /\ UNCHANGED <<stored, queued, targets, workers>>
         /\ rpc[q] # "committed" /\ \E l : rpc' = [rpc EXCEPT ![q] = l]
<1>1. CASE WebAlone(q)
  BY <1>1 DEF WebAlone, Req!SkipLock, Req!Lookup, Req!Lock, Req!Refuse, Req!Save, Req!Release,
              Req!Answer, Req!Fail, Req!Goto
<1>2. CASE WebFault(q)
  BY <1>2 DEF WebFault, Req!Crash, Req!DatabaseFails, Req!RedisFails, Req!Answer, Req!Fail, Req!Goto
<1> QED
  BY <1>1, <1>2

-----------------------------------------------------------------------------
(* What the commit and the publication of a request leave behind.          *)

Early == {"new", "locking", "inside", "inserted"}

EarlyInv ==
  /\ stored \subseteq Requests
  /\ rpc \in [Requests -> Req!PCs] /\ queued \in [Requests -> {"none", "some", "all"}]
  /\ \A q \in Requests : rpc[q] \in Early => q \notin stored /\ queued[q] = "none"

LEMMA EarlyCorrect == Spec => []EarlyInv
<1>1. Init => EarlyInv
  BY DEF Init, Req!Init, EarlyInv, Req!PCs
<1>2. EarlyInv /\ [Req!Next]_(Req!vars) => EarlyInv'
  <2> SUFFICES ASSUME EarlyInv, [Req!Next]_(Req!vars) PROVE EarlyInv'
    OBVIOUS
  <2>1. ASSUME UNCHANGED <<rpc, stored, queued>> PROVE EarlyInv'
    BY <2>1 DEF EarlyInv
  <2>2. ASSUME NEW q \in Requests, UNCHANGED <<stored, queued>>,
               \E l \in Req!PCs : Req!Goto(q, l) /\ (rpc[q] \in Early \/ l \notin Early)
        PROVE  EarlyInv'
    BY <2>2 DEF EarlyInv, Req!Goto
  <2>3. ASSUME NEW q \in Requests, Req!SkipLock(q) \/ Req!Lookup(q) \/ Req!Lock(q) PROVE EarlyInv'
    BY <2>2, <2>3 DEF Req!SkipLock, Req!Lookup, Req!Lock, Req!Answer, Req!PCs, Early
  <2>4. ASSUME NEW q \in Requests,
               Req!Refuse(q) \/ Req!Insert(q) \/ Req!Save(q) \/ Req!Release(q) \/ Req!DatabaseFails(q)
        PROVE  EarlyInv'
    BY <2>2, <2>4 DEF Req!Refuse, Req!Insert, Req!Save, Req!Release, Req!DatabaseFails,
                      Req!Fail, Req!Answer, Req!PCs, Early
  <2>5. ASSUME NEW q \in Requests, Req!RedisFails(q) PROVE EarlyInv'
    BY <2>2, <2>5 DEF Req!RedisFails, Req!Fail, Req!Answer, Req!PCs, Early
  <2>6. ASSUME NEW q \in Requests, Req!Commit(q) PROVE EarlyInv'
    BY <2>6 DEF Req!Commit, Req!Goto, Req!PCs, Early, EarlyInv
  <2>7. ASSUME NEW q \in Requests, Req!Publish(q) \/ Req!Crash(q) \/ Req!BrokerFails(q) PROVE EarlyInv'
    <3>1. stored' = stored /\ \E l \in Req!PCs \ Early : rpc' = [rpc EXCEPT ![q] = l]
      BY <2>7 DEF Req!Publish, Req!Crash, Req!BrokerFails, Req!Fail, Req!Goto, Req!PCs, Early
    <3>2. queued' = queued \/ \E n \in {"some", "all"} : queued' = [queued EXCEPT ![q] = n]
      BY <2>7 DEF Req!Publish, Req!Crash, Req!BrokerFails
    <3> QED
      BY <3>1, <3>2 DEF EarlyInv
  <2>8. ASSUME NEW k \in Keys, Req!LockLapses(k) \/ Req!LockLapsesEarly(k) \/ Req!AnswerLapses(k)
        PROVE  EarlyInv'
    BY <2>1, <2>8 DEF Req!LockLapses, Req!LockLapsesEarly, Req!AnswerLapses
  <2>9. CASE UNCHANGED Req!vars
    BY <2>1, <2>9 DEF Req!vars
  <2> QED
    BY <2>3, <2>4, <2>5, <2>6, <2>7, <2>8, <2>9 DEF Req!Next, Req!Step
<1> QED
  BY <1>1, <1>2, ImplementsSendNotification, PTL DEF Spec, Req!Spec

(* Every delivery of a committed notification has its row, and none of a   *)
(* notification that counts as published is still to be published.         *)
Linked ==
  /\ \A q \in stored : \A c \in targets[q] : row[<<q, c>>].status # "NONE"
  /\ \A q \in Requests : queued[q] = "all" => Unsent(q) = {}

(* A row never goes away.                                                  *)
LEMMA RowsStay ==
  ASSUME Wrk!TypeOK, Wrk!Next \/ UNCHANGED workers,
         NEW d \in Requests \X Channels, row[d].status # "NONE"
  PROVE  row'[d].status # "NONE"
<1>1. ASSUME UNCHANGED row PROVE row'[d].status # "NONE"
  BY <1>1
<1>2. ASSUME NEW w \in Workers, NEW held, NEW to \in Wrk!Stored, NEW increment \in BOOLEAN,
             Wrk!Update(w, held, to, increment)
      PROVE  row'[d].status # "NONE"
  BY <1>2 DEF Wrk!Update, Wrk!TypeOK, Wrk!Rows, Wrk!Stored
<1>3. ASSUME NEW ds \in SUBSET (Requests \X Channels), Wrk!CreateDeliveries(ds)
      PROVE  row'[d].status # "NONE"
  BY <1>3 DEF Wrk!CreateDeliveries, Wrk!NoRow
<1>4. ASSUME NEW w \in Workers, Wrk!Step(w) PROVE row'[d].status # "NONE"
  <2>1. {"SENT", "DELIVERED", "FAILED", "PENDING"} = Wrk!Stored
    BY DEF Wrk!Stored
  <2>2. CASE Wrk!FailUnsendable(w) \/ Wrk!MarkSent(w) \/ Wrk!MarkDelivered(w)
    BY <1>2, <2>1, <2>2 DEF Wrk!FailUnsendable, Wrk!MarkSent, Wrk!MarkDelivered
  <2>3. CASE Wrk!MarkFailed(w) \/ Wrk!MarkPending(w) \/ Wrk!MarkFatal(w)
    BY <1>2, <2>1, <2>3 DEF Wrk!MarkFailed, Wrk!MarkPending, Wrk!MarkFatal
  <2>4. CASE Wrk!Refresh(w) \/ Wrk!ProviderAccepts(w) \/ Wrk!ProviderRefuses(w)
    BY <1>1, <2>4 DEF Wrk!Refresh, Wrk!ProviderAccepts, Wrk!ProviderRefuses, Wrk!db
  <2>5. CASE Wrk!PublishRetry(w) \/ Wrk!Acknowledge(w) \/ (\E e \in Requests \X Channels : Wrk!Requeue(w, e))
    BY <1>1, <2>5 DEF Wrk!PublishRetry, Wrk!Acknowledge, Wrk!Requeue, Wrk!db
  <2> QED
    BY <1>4, <2>2, <2>3, <2>4, <2>5 DEF Wrk!Step
<1>5. ASSUME Wrk!Environment PROVE UNCHANGED row
  BY <1>5
     DEF Wrk!Environment, Wrk!EnqueueLost, Wrk!TemplateLost, Wrk!ChildLost, Wrk!NodeLost,
         Wrk!VisibilityTimeout, Wrk!RaiseOut, Wrk!RefreshFails, Wrk!ReconcileFails, Wrk!db
<1>6. ASSUME NEW w \in Workers, Wrk!TakeReconcile(w) PROVE UNCHANGED row
  BY <1>6 DEF Wrk!TakeReconcile, Wrk!db
<1>7. ASSUME NEW e \in Requests \X Channels, NEW r \in Wrk!Retries, Wrk!TakeMessage(e, r)
      PROVE  UNCHANGED row
  BY <1>7 DEF Wrk!TakeMessage, Wrk!Take, Wrk!db
<1>8. ASSUME NEW e \in Requests \X Channels, Wrk!ApplyAsync(e) \/ Wrk!Ages(e)
      PROVE  UNCHANGED row
  BY <1>8 DEF Wrk!ApplyAsync, Wrk!Ages
<1>9. CASE Wrk!BeatTick
  BY <1>1, <1>9 DEF Wrk!BeatTick, Wrk!db
<1>10. CASE UNCHANGED workers
  BY <1>1, <1>10 DEF workers
<1> QED
  BY <1>1, <1>3, <1>4, <1>5, <1>6, <1>7, <1>8, <1>9, <1>10 DEF Wrk!Next, Wrk!Web

LEMMA LinkedCorrect == Spec /\ []Wrk!TypeOK => []Linked
<1>1. Init => Linked
  BY DEF Init, Req!Init, Linked
<1>2. Linked /\ EarlyInv /\ TargetsOK /\ Wrk!TypeOK /\ [Next]_vars => Linked'
  <2> SUFFICES ASSUME Linked, EarlyInv, TargetsOK, Wrk!TypeOK, [Next]_vars PROVE Linked'
    OBVIOUS
  <2>1. \A d \in Requests \X Channels : row[d].status # "NONE" => row'[d].status # "NONE"
    BY DeliveryStep, RowsStay
  <2>2. ASSUME UNCHANGED <<stored, targets>>, unsent' \subseteq unsent,
               \A q \in Requests : queued'[q] = "all" => queued[q] = "all" \/ Unsent(q) = {}
        PROVE  Linked'
    BY <2>1, <2>2 DEF Linked, EarlyInv, TargetsOK, Unsent, DeliveriesOf
  <2>3. ASSUME NEW p \in Requests, Insert(p) PROVE Linked'
    <3>1. CASE UNCHANGED targets
      BY <2>2, <2>3, <3>1 DEF Insert, Req!Insert, workers
    <3>2. ASSUME NEW cs \in SUBSET Channels, targets' = [targets EXCEPT ![p] = cs] PROVE Linked'
      <4>1. p \notin stored /\ queued[p] = "none"
        BY <2>3 DEF Insert, Req!Insert, EarlyInv, Early
      <4>2. UNCHANGED <<stored, queued, unsent, row>>
        BY <2>3 DEF Insert, Req!Insert, workers
      <4>3. \A q \in Requests \ {p} : targets'[q] = targets[q]
        BY <3>2 DEF TargetsOK
      <4> QED
        BY <4>1, <4>2, <4>3 DEF Linked, EarlyInv, Unsent, DeliveriesOf
    <3> QED
      BY <2>3, <3>1, <3>2 DEF Insert
  <2>4. ASSUME NEW p \in Requests, Commit(p) PROVE Linked'
    <3>1. /\ stored' = stored \cup {p} /\ UNCHANGED <<queued, targets>>
          /\ p \notin stored /\ queued[p] = "none"
      BY <2>4 DEF Commit, Req!Commit, EarlyInv, Early
    <3>2. /\ unsent' \subseteq unsent \cup DeliveriesOf(p)
          /\ \A c \in targets[p] : row'[<<p, c>>].status # "NONE"
      <4>1. CASE targets[p] = {} /\ UNCHANGED workers
        BY <4>1 DEF workers
      <4>2. CASE Wrk!CreateDeliveries(DeliveriesOf(p))
        BY <4>2 DEF Wrk!CreateDeliveries, DeliveriesOf, TargetsOK
      <4> QED
        BY <2>4, <4>1, <4>2 DEF Commit
    <3> QED
      BY <2>1, <3>1, <3>2 DEF Linked, EarlyInv, TargetsOK, Unsent, DeliveriesOf
  <2>5. ASSUME NEW p \in Requests, Publish(p) PROVE Linked'
    BY <2>2, <2>5 DEF Publish, Req!Publish, EarlyInv, workers
  <2>6. ASSUME NEW p \in Requests, Lose(p) PROVE Linked'
    <3>1. unsent' \subseteq unsent
      BY <2>6 DEF Lose, Wrk!EnqueueLost, workers
    <3>2. UNCHANGED <<stored, targets>> /\ \A q \in Requests : queued'[q] = "all" => queued[q] = "all"
      BY <2>6 DEF Lose, Req!Crash, Req!BrokerFails, EarlyInv
    <3> QED
      BY <2>2, <3>1, <3>2
  <2>7. ASSUME NEW p \in Requests, WebAlone(p) \/ WebFault(p) PROVE Linked'
    BY <2>2, <2>7, AsideSteps DEF workers
  <2> QED
    BY <2>2, <2>3, <2>4, <2>5, <2>6, <2>7, QuietSteps
<1> QED
  BY <1>1, <1>2, EarlyCorrect, TargetsCorrect, PTL DEF Spec

-----------------------------------------------------------------------------
(* Behind a 201 answer, also one replayed from Redis, every delivery of    *)
(* the notification shown is settled, waits as a message or is in a        *)
(* worker's hands, unless a worker has failed.  It follows from four       *)
(* theorems about the two sides, proved in SendNotificationProofs,         *)
(* DeliveryProofs and DeliveryInvariants: the prover cannot cite them      *)
(* through an instance, so they are written out as the premises.           *)
THEOREM AnsweredInHandCorrect ==
  /\ Req!Spec => []Req!AnswerHonest
  /\ Wrk!Spec => []Wrk!TypeOK
  /\ Wrk!Spec => []Wrk!SentHasOwner
  /\ Wrk!Spec => []Wrk!PendingInHand
  => (Spec => []AnsweredInHand)
<1>1. ASSUME Linked, TargetsOK, EarlyInv, Req!AnswerHonest,
             Wrk!TypeOK, Wrk!SentHasOwner, Wrk!PendingInHand
      PROVE  AnsweredInHand
  <2>1. ASSUME NEW d \in Requests \X Channels, ~ (wfaults > 0),
               d \notin unsent, row[d].status # "NONE"
        PROVE  InHand(d)
    <3>1. row[d].status \in {"PENDING", "SENT"} \cup Wrk!Finished
      BY <1>1, <2>1 DEF Wrk!TypeOK, Wrk!Rows, Wrk!Status, Wrk!Stored, Wrk!Finished
    <3>2. CASE row[d].status = "PENDING"
      BY <1>1, <2>1, <3>2 DEF Wrk!PendingInHand, Wrk!Pursues, Wrk!Retries, InHand
    <3>3. CASE row[d].status = "SENT"
      BY <1>1, <2>1, <3>3 DEF Wrk!SentHasOwner, Wrk!Owns, InHand
    <3>4. CASE row[d].status \in Wrk!Finished
      BY <3>4 DEF InHand
    <3> QED
      BY <3>1, <3>2, <3>3, <3>4
  <2>2. ASSUME NEW q \in Requests, Answered(q), NEW c \in targets[body[q]]
        PROVE  /\ <<body[q], c>> \in (Requests \X Channels) \ unsent
               /\ row[<<body[q], c>>].status # "NONE"
    <3>1. body[q] \in stored /\ queued[body[q]] = "all"
      BY <1>1, <2>2 DEF Answered, Req!AnswerHonest
    <3> QED
      BY <1>1, <2>2, <3>1 DEF Linked, TargetsOK, EarlyInv, Unsent, DeliveriesOf
  <2> QED
    BY <2>1, <2>2 DEF AnsweredInHand
<1> QED
  BY <1>1, LinkedCorrect, TargetsCorrect, EarlyCorrect,
     ImplementsSendNotification, ImplementsDelivery, PTL

-----------------------------------------------------------------------------
(* What is still to be published is published by the loop of its own       *)
(* request, which is running: no row waits for a loop that has ended.      *)
UnsentOK ==
  \A q \in Requests, c \in Channels :
    <<q, c>> \in unsent => rpc[q] = "committed" /\ c \in targets[q]

LEMMA UnsentCorrect == Spec => []UnsentOK
<1>1. Init => UnsentOK
  BY DEF Init, Wrk!Init, UnsentOK
<1>2. UnsentOK /\ EarlyInv /\ TargetsOK /\ [Next]_vars => UnsentOK'
  <2> SUFFICES ASSUME UnsentOK, EarlyInv, TargetsOK, [Next]_vars PROVE UnsentOK'
    OBVIOUS
  <2>1. ASSUME UNCHANGED <<rpc, targets>>, unsent' \subseteq unsent PROVE UnsentOK'
    BY <2>1 DEF UnsentOK
  <2>2. ASSUME NEW p \in Requests, NEW l, rpc' = [rpc EXCEPT ![p] = l],
               \A q \in Requests \ {p} : targets'[q] = targets[q],
               unsent' \subseteq unsent, \A c \in Channels : <<p, c>> \notin unsent'
        PROVE  UnsentOK'
    BY <2>2 DEF UnsentOK, EarlyInv
  <2>3. ASSUME NEW p \in Requests, Insert(p) PROVE UnsentOK'
    <3>1. /\ rpc[p] = "inside" /\ unsent' = unsent /\ \E l : rpc' = [rpc EXCEPT ![p] = l]
      BY <2>3 DEF Insert, workers, Req!Insert, Req!Goto, Req!Fail
    <3>2. \A q \in Requests \ {p} : targets'[q] = targets[q]
      BY <2>3 DEF Insert, TargetsOK
    <3>3. \A c \in Channels : <<p, c>> \notin unsent'
      BY <3>1 DEF UnsentOK
    <3> QED
      BY <2>2, <3>1, <3>2, <3>3
  <2>4. ASSUME NEW p \in Requests, Commit(p) PROVE UnsentOK'
    <3>1. rpc' = [rpc EXCEPT ![p] = "committed"] /\ UNCHANGED targets /\ rpc[p] = "inserted"
      BY <2>4 DEF Commit, Req!Commit, Req!Goto
    <3>2. unsent' \subseteq unsent \cup DeliveriesOf(p)
      BY <2>4 DEF Commit, Wrk!CreateDeliveries, workers
    <3> QED
      BY <3>1, <3>2 DEF UnsentOK, EarlyInv, DeliveriesOf
  <2>5. ASSUME NEW p \in Requests, Publish(p) \/ Lose(p) PROVE UnsentOK'
    <3>1. UNCHANGED targets /\ \E l : rpc' = [rpc EXCEPT ![p] = l]
      BY <2>5 DEF Publish, Lose, Req!Publish, Req!Crash, Req!BrokerFails, Req!Fail, Req!Goto
    <3>2. unsent' \subseteq unsent /\ unsent' \cap DeliveriesOf(p) = {}
      BY <2>5 DEF Publish, Lose, workers, Wrk!EnqueueLost, Unsent
    <3>3. \A c \in Channels : <<p, c>> \notin unsent'
      BY <3>2 DEF UnsentOK, DeliveriesOf
    <3> QED
      BY <2>2, <3>1, <3>2, <3>3
  <2>6. ASSUME NEW p \in Requests, WebAlone(p) \/ WebFault(p) PROVE UnsentOK'
    <3>1. UNCHANGED <<targets, unsent>> /\ rpc[p] # "committed" /\ \E l : rpc' = [rpc EXCEPT ![p] = l]
      BY <2>6, AsideSteps DEF workers
    <3>2. \A c \in Channels : <<p, c>> \notin unsent'
      BY <3>1 DEF UnsentOK
    <3> QED
      BY <2>2, <3>1, <3>2
  <2> QED
    BY <2>1, <2>3, <2>4, <2>5, <2>6, QuietSteps
<1> QED
  BY <1>1, <1>2, EarlyCorrect, TargetsCorrect, PTL DEF Spec

(* Type correctness of the composition; that of its two sides is proved in *)
(* SendNotificationProofs and in DeliveryProofs.                           *)
THEOREM TypeCorrect ==
  /\ Req!Spec => []Req!TypeOK
  /\ Wrk!Spec => []Wrk!TypeOK
  => (Spec => []TypeOK)
<1>1. UnsentOK /\ TargetsOK /\ Req!TypeOK /\ Wrk!TypeOK => TypeOK
  <2> SUFFICES ASSUME UnsentOK, Wrk!TypeOK, NEW d \in unsent PROVE rpc[d[1]] = "committed"
    BY DEF TypeOK, TargetsOK
  <2>1. PICK q \in Requests, c \in Channels : d = <<q, c>>
    BY DEF Wrk!TypeOK
  <2> QED
    BY <2>1 DEF UnsentOK
<1> QED
  BY <1>1, UnsentCorrect, TargetsCorrect, ImplementsSendNotification, ImplementsDelivery, PTL

-----------------------------------------------------------------------------
(* Nothing happens to the deliveries of a request that has not committed:  *)
(* a provider accepts only what belongs to a stored notification.          *)

Untouched(d) == row[d].status = "NONE" /\ accepted[d] = 0

LEMMA UntouchedStays ==
  ASSUME Wrk!TypeOK, Wrk!HeldHasRow, NEW d \in Requests \X Channels, Untouched(d),
         NEW w \in Workers, Wrk!Step(w)
  PROVE  Untouched(d)'
<1>1. job[w] # NoJob => job[w].d # d
  BY DEF Wrk!HeldHasRow, Untouched
<1>2. Wrk!Step(w) => job[w] # NoJob \/ UNCHANGED <<row, accepted>>
  BY DEF Wrk!Step, Wrk!TypeOK, Wrk!FailUnsendable, Wrk!MarkSent, Wrk!Refresh,
         Wrk!ProviderAccepts, Wrk!ProviderRefuses, Wrk!MarkDelivered, Wrk!MarkFailed,
         Wrk!MarkPending, Wrk!PublishRetry, Wrk!Acknowledge, Wrk!Requeue, Wrk!MarkFatal, Wrk!db, Wrk!history
<1>3. ASSUME NEW held, NEW to, NEW increment, Wrk!Update(w, held, to, increment), job[w].d # d
      PROVE  row'[d] = row[d]
  BY <1>3 DEF Wrk!Update, Wrk!TypeOK, Wrk!Rows
<1>4. ASSUME job[w].d # d PROVE row'[d] = row[d]
  <2>1. CASE Wrk!FailUnsendable(w) \/ Wrk!MarkSent(w) \/ Wrk!MarkDelivered(w)
    BY <1>3, <1>4, <2>1 DEF Wrk!FailUnsendable, Wrk!MarkSent, Wrk!MarkDelivered
  <2>2. CASE Wrk!MarkFailed(w) \/ Wrk!MarkPending(w) \/ Wrk!MarkFatal(w)
    BY <1>3, <1>4, <2>2 DEF Wrk!MarkFailed, Wrk!MarkPending, Wrk!MarkFatal
  <2>3. CASE Wrk!Refresh(w) \/ Wrk!ProviderAccepts(w) \/ Wrk!ProviderRefuses(w)
    BY <2>3 DEF Wrk!Refresh, Wrk!ProviderAccepts, Wrk!ProviderRefuses, Wrk!db
  <2>4. CASE Wrk!PublishRetry(w) \/ Wrk!Acknowledge(w) \/ (\E e \in Requests \X Channels : Wrk!Requeue(w, e))
    BY <2>4 DEF Wrk!PublishRetry, Wrk!Acknowledge, Wrk!Requeue, Wrk!db
  <2> QED
    BY <2>1, <2>2, <2>3, <2>4 DEF Wrk!Step
<1>5. ASSUME job[w].d # d PROVE accepted'[d] = accepted[d]
  BY <1>5 DEF Wrk!Step, Wrk!TypeOK, Wrk!FailUnsendable, Wrk!MarkSent, Wrk!Refresh,
         Wrk!ProviderAccepts, Wrk!ProviderRefuses, Wrk!MarkDelivered, Wrk!MarkFailed,
         Wrk!MarkPending, Wrk!PublishRetry, Wrk!Acknowledge, Wrk!Requeue, Wrk!MarkFatal, Wrk!history
<1> QED
  BY <1>1, <1>2, <1>4, <1>5 DEF Untouched

OnlyStored ==
  \A q \in Requests \ stored : \A c \in Channels : Untouched(<<q, c>>)

LEMMA OnlyStoredCorrect ==
  Spec /\ []Wrk!TypeOK /\ []Wrk!HeldHasRow => []OnlyStored
<1>1. Init => OnlyStored
  BY DEF Init, Wrk!Init, Wrk!NoRow, OnlyStored, Untouched
<1>2. OnlyStored /\ Wrk!TypeOK /\ Wrk!HeldHasRow /\ [Next]_vars => OnlyStored'
  <2> SUFFICES ASSUME OnlyStored, Wrk!TypeOK, Wrk!HeldHasRow, [Next]_vars,
                      NEW q \in Requests \ stored', NEW c \in Channels
               PROVE  Untouched(<<q, c>>)'
    BY DEF OnlyStored
  <2> DEFINE D == Requests \X Channels
  <2>1. stored \subseteq stored'
    <3>1. ASSUME NEW p \in Requests, Insert(p) \/ Commit(p) \/ Publish(p) \/ Lose(p)
          PROVE  stored \subseteq stored'
      BY <3>1 DEF Insert, Commit, Publish, Lose, Req!Insert, Req!Commit, Req!Publish,
                  Req!Crash, Req!BrokerFails
    <3> QED
      BY <3>1, AsideSteps, QuietSteps
  <2>2. PICK d \in D : d = <<q, c>> /\ Untouched(d)
    BY <2>1 DEF OnlyStored
  <2> SUFFICES Untouched(d)'
    BY <2>2
  <2>3. ASSUME UNCHANGED <<row, accepted>> PROVE Untouched(d)'
    BY <2>2, <2>3 DEF Untouched
  <2>4. ASSUME NEW p \in Requests, Commit(p) PROVE Untouched(d)'
    <3>1. p # q /\ d \notin DeliveriesOf(p)
      BY <2>2, <2>4 DEF Commit, Req!Commit, DeliveriesOf
    <3>2. CASE UNCHANGED workers
      BY <2>3, <3>2 DEF workers
    <3>3. CASE Wrk!CreateDeliveries(DeliveriesOf(p))
      BY <2>2, <3>1, <3>3 DEF Wrk!CreateDeliveries, Wrk!history, Untouched
    <3> QED
      BY <2>4, <3>2, <3>3 DEF Commit
  <2>5. ASSUME NEW p \in Requests,
               \/ WebAlone(p) \/ WebFault(p) \/ Insert(p) \/ Publish(p) \/ Lose(p)
               \/ \E b \in Channels : Send(p, b)
        PROVE  Untouched(d)'
    BY <2>3, <2>5 DEF WebAlone, WebFault, Insert, Publish, Lose, Send, workers,
                      Wrk!EnqueueLost, Wrk!ApplyAsync, Wrk!history
  <2>6. ASSUME NEW k \in Keys, Expiry(k) PROVE Untouched(d)'
    BY <2>3, <2>6 DEF Expiry, workers
  <2>7. ASSUME NEW e \in D, Ages(e) \/ (\E r \in 0..MaxRetries : TakeMessage(e, r))
        PROVE  Untouched(d)'
    BY <2>3, <2>7 DEF Ages, TakeMessage, Wrk!Ages, Wrk!TakeMessage, Wrk!Take, Wrk!db, Wrk!history
  <2>8. ASSUME BeatTick \/ TakeReconcile PROVE Untouched(d)'
    BY <2>3, <2>8 DEF BeatTick, TakeReconcile, Wrk!BeatTick, Wrk!TakeReconcile, Wrk!db, Wrk!history
  <2>9. ASSUME NEW w \in Workers, WorkerStep(w) PROVE Untouched(d)'
    BY <2>2, <2>9, UntouchedStays DEF WorkerStep
  <2>10. CASE WorkerFault
    BY <2>3, <2>10
       DEF WorkerFault, Wrk!TemplateLost, Wrk!ChildLost, Wrk!NodeLost, Wrk!VisibilityTimeout,
           Wrk!RaiseOut, Wrk!RefreshFails, Wrk!ReconcileFails, Wrk!db, Wrk!history
  <2>11. CASE UNCHANGED vars
    BY <2>3, <2>11 DEF vars, web, workers
  <2>12. CASE \E p \in Requests : WebStep(p) \/ Lose(p) \/ WebFault(p)
    BY <2>4, <2>5, <2>12 DEF WebStep
  <2> QED
    BY <2>6, <2>7, <2>8, <2>9, <2>10, <2>11, <2>12 DEF Next
<1> QED
  BY <1>1, <1>2, PTL DEF Spec

(* Across the executions that share an idempotency key, retries after an   *)
(* error or a crash in the middle of publishing included, a provider       *)
(* accepts at most one message on each channel, provided that it accepts   *)
(* no single delivery twice: see AtMostOnceCorrect in                      *)
(* DeliverySerialProofs for the workers of which that is true.  The other  *)
(* premises are theorems of SendNotificationProofs, DeliveryProofs and     *)
(* DeliveryInvariants.                                                     *)
THEOREM SentOnceCorrect ==
  /\ Req!Spec => []Req!OnePerKey
  /\ Wrk!Spec => []Wrk!TypeOK
  /\ Wrk!Spec => []Wrk!HeldHasRow
  /\ Wrk!Spec => []Wrk!AtMostOnceAccepted
  => (Spec => []SentOnce)
<1>1. OnlyStored /\ Req!OnePerKey /\ Wrk!AtMostOnceAccepted => SentOnce
  <2> SUFFICES ASSUME OnlyStored, Req!OnePerKey, Wrk!AtMostOnceAccepted
               PROVE  SentOnce
    OBVIOUS
  <2>1. ASSUME NEW d \in Requests \X Channels, accepted[d] > 0 PROVE d[1] \in stored
    <3>1. PICK q \in Requests, c \in Channels : d = <<q, c>>
      OBVIOUS
    <3> QED
      BY <2>1, <3>1 DEF OnlyStored, Untouched
  <2>2. ASSUME NEW d \in Requests \X Channels, NEW e \in Requests \X Channels,
               accepted[d] > 0, accepted[e] > 0
        PROVE  e[1] \notin Req!Rivals(d[1])
    <3>1. d[1] \in stored /\ e[1] \in stored
      BY <2>1, <2>2
    <3> QED
      BY <3>1 DEF Req!OnePerKey
  <2> QED
    BY <2>2 DEF SentOnce, Wrk!AtMostOnceAccepted
<1> QED
  BY <1>1, OnlyStoredCorrect, ImplementsSendNotification, ImplementsDelivery, PTL

=============================================================================
