----------------------- MODULE SendNotificationProofs -----------------------
(***************************************************************************)
(* What holds of POST /notifications whatever lock lapses, is deleted or   *)
(* overwritten under a running request: for every set of requests and of   *)
(* keys, and any number of faults of any kind.  The last part is about the *)
(* lock itself, which is one as long as no handler outlives it.            *)
(***************************************************************************)
EXTENDS SendNotification, TLAPS

-----------------------------------------------------------------------------
(* Type correctness.                                                       *)

EntryOK ==
  /\ entry \in [Keys -> Entries]
  /\ \A k \in Keys : entry[k].status = "NONE" <=> entry[k].by = Nobody

LEMMA SetType ==
  ASSUME EntryOK, NEW q \in Requests, NEW s \in {"LOCK", "DONE"}, SetEntry(q, s)
  PROVE  EntryOK'
<1>1. [status |-> s, by |-> q] \in Entries
  BY DEF Entries
<1>2. entry' \in [Keys -> Entries]
  BY <1>1 DEF EntryOK, SetEntry
<1>3. ASSUME NEW k \in Keys PROVE entry'[k].status = "NONE" <=> entry'[k].by = Nobody
  <2>1. CASE k = Key[q]
    BY <2>1, NobodyAssumption DEF EntryOK, SetEntry
  <2>2. CASE k # Key[q]
    BY <2>2 DEF EntryOK, SetEntry
  <2> QED
    BY <2>1, <2>2
<1> QED
  BY <1>2, <1>3 DEF EntryOK

LEMMA DeleteType ==
  ASSUME EntryOK, NEW x,
         entry' = [k \in Keys |-> IF k = x THEN NoEntry ELSE entry[k]]
  PROVE  EntryOK'
  BY DEF EntryOK, NoEntry, Entries

LEMMA LapseType ==
  ASSUME EntryOK, NEW k \in Keys, entry' = [entry EXCEPT ![k] = NoEntry]
  PROVE  EntryOK'
  BY DEF EntryOK, NoEntry, Entries

(* The state of the requests and of the two stores keeps its types.        *)
THEOREM TypeCorrect == Spec => []TypeOK
<1>1. Init => TypeOK
  BY DEF Init, TypeOK, NoEntry, Entries, PCs, Replies
<1>2. TypeOK /\ [Next]_vars => TypeOK'
  <2> SUFFICES ASSUME TypeOK, [Next]_vars PROVE TypeOK'
    OBVIOUS
  <2>1. EntryOK
    BY DEF TypeOK, EntryOK
  <2>2. ASSUME UNCHANGED entry PROVE EntryOK'
    BY <2>1, <2>2 DEF EntryOK
  <2> DEFINE RestOK ==
        /\ stored \subseteq Requests
        /\ queued \in [Requests -> {"none", "some", "all"}]
        /\ pc     \in [Requests -> PCs]
        /\ reply  \in [Requests -> Replies]
        /\ body   \in [Requests -> Requests \cup {Nobody}]
        /\ faults \in Nat
  <2>3. RestOK
    BY DEF TypeOK
  <2>5. EntryOK' /\ RestOK' => TypeOK'
    BY DEF TypeOK, EntryOK
  <2>6. ASSUME NEW q \in Requests, SkipLock(q) PROVE TypeOK'
    BY <2>2, <2>3, <2>5, <2>6 DEF SkipLock, Goto, PCs
  <2>7. ASSUME NEW q \in Requests, Lookup(q) PROVE TypeOK'
    <3>1. entry[Key[q]].by \in Requests \cup {Nobody}
      BY <2>1, <2>7 DEF Lookup, Locks, EntryOK, Entries
    <3>2. body' \in [Requests -> Requests \cup {Nobody}]
      BY <2>3, <2>7, <3>1 DEF Lookup
    <3> QED
      BY <2>2, <2>3, <2>5, <2>7, <3>2 DEF Lookup, Answer, Goto, PCs, Replies
  <2>8. ASSUME NEW q \in Requests, Lock(q) PROVE TypeOK'
    <3>1. EntryOK'
      BY <2>1, <2>2, <2>8, SetType DEF Lock
    <3> QED
      BY <2>3, <2>5, <2>8, <3>1 DEF Lock, Answer, Goto, PCs, Replies
  <2>9. ASSUME NEW q \in Requests, Refuse(q) PROVE TypeOK'
    BY <2>2, <2>3, <2>5, <2>9 DEF Refuse, Fail, Goto, PCs, Replies
  <2>10. ASSUME NEW q \in Requests, Insert(q) PROVE TypeOK'
    BY <2>2, <2>3, <2>5, <2>10 DEF Insert, Fail, Goto, PCs, Replies
  <2>11. ASSUME NEW q \in Requests, Commit(q) PROVE TypeOK'
    BY <2>2, <2>3, <2>5, <2>11 DEF Commit, Goto, PCs
  <2>12. ASSUME NEW q \in Requests, Publish(q) PROVE TypeOK'
    BY <2>2, <2>3, <2>5, <2>12 DEF Publish, Goto, PCs
  <2>13. ASSUME NEW q \in Requests, Save(q) PROVE TypeOK'
    <3>1. EntryOK'
      BY <2>1, <2>2, <2>13, SetType DEF Save
    <3> QED
      BY <2>3, <2>5, <2>13, <3>1 DEF Save, Answer, Goto, PCs, Replies
  <2>14. ASSUME NEW q \in Requests, Release(q) PROVE TypeOK'
    <3>1. EntryOK'
      BY <2>1, <2>14, DeleteType DEF Release
    <3> QED
      BY <2>3, <2>5, <2>14, <3>1 DEF Release, Goto, PCs
  <2>15. ASSUME NEW q \in Requests, Crash(q) PROVE TypeOK'
    BY <2>2, <2>3, <2>5, <2>15 DEF Crash, Fault, Goto, PCs
  <2>16. ASSUME NEW q \in Requests, DatabaseFails(q) PROVE TypeOK'
    BY <2>2, <2>3, <2>5, <2>16 DEF DatabaseFails, Fault, Fail, Goto, PCs, Replies
  <2>17. ASSUME NEW q \in Requests, BrokerFails(q) PROVE TypeOK'
    BY <2>2, <2>3, <2>5, <2>17 DEF BrokerFails, Fault, Fail, Goto, PCs, Replies
  <2>18. ASSUME NEW q \in Requests, RedisFails(q) PROVE TypeOK'
    <3>1. UNCHANGED entry \/ SetEntry(q, "LOCK") \/ SetEntry(q, "DONE")
      BY <2>18 DEF RedisFails
    <3>2. EntryOK'
      BY <2>1, <2>2, <3>1, SetType
    <3>3. Answer(q, "error") \/ Fail(q, "error")
      BY <2>18 DEF RedisFails
    <3>4. pc' \in [Requests -> PCs] /\ reply' \in [Requests -> Replies]
      BY <2>3, <3>3 DEF Answer, Fail, Goto, PCs, Replies
    <3>5. UNCHANGED <<stored, queued, body>> /\ faults' = faults + 1
      BY <2>18 DEF RedisFails, Fault
    <3> QED
      BY <2>3, <2>5, <3>2, <3>4, <3>5
  <2>19. ASSUME NEW k \in Keys, LockLapses(k) PROVE TypeOK'
    BY <2>1, <2>3, <2>5, <2>19, LapseType DEF LockLapses
  <2>20. ASSUME NEW k \in Keys, LockLapsesEarly(k) PROVE TypeOK'
    <3>1. EntryOK'
      BY <2>1, <2>20, LapseType DEF LockLapsesEarly
    <3>2. UNCHANGED <<stored, queued, pc, reply, body>> /\ faults' = faults + 1
      BY <2>20 DEF LockLapsesEarly, Fault
    <3> QED
      BY <2>3, <2>5, <3>1, <3>2
  <2>21. ASSUME NEW k \in Keys, AnswerLapses(k) PROVE TypeOK'
    <3>1. EntryOK'
      BY <2>1, <2>21, LapseType DEF AnswerLapses
    <3>2. UNCHANGED <<stored, queued, pc, reply, body>> /\ faults' = faults + 1
      BY <2>21 DEF AnswerLapses, Fault
    <3> QED
      BY <2>3, <2>5, <3>1, <3>2
  <2>22. CASE UNCHANGED vars
    BY <2>2, <2>3, <2>5, <2>22 DEF vars
  <2> QED
    BY <2>6, <2>7, <2>8, <2>9, <2>10, <2>11, <2>12, <2>13, <2>14, <2>15,
       <2>16, <2>17, <2>18, <2>19, <2>20, <2>21, <2>22 DEF Next, Step
<1> QED
  BY <1>1, <1>2, PTL DEF Spec

-----------------------------------------------------------------------------
(* The unique index.  OnePerKey is inductive together with what PostgreSQL *)
(* gives the holder of an open insert: no rival is open or committed.      *)

OneOpen ==
  \A q \in Requests : pc[q] = "inserted" =>
    \A p \in Rivals(q) : pc[p] # "inserted" /\ p \notin stored

LEMMA RivalsSymmetric ==
  \A q, p \in Requests : p \in Rivals(q) => q \in Rivals(p)
  BY DEF Rivals, Named

(* Only Insert opens a transaction and only Commit stores a notification.  *)
LEMMA OtherSteps ==
  ASSUME TypeOK, [Next]_vars, \A q \in Requests : ~ Insert(q) /\ ~ Commit(q)
  PROVE  /\ stored' = stored
         /\ \A p \in Requests : pc'[p] = "inserted" => pc[p] = "inserted"
<1> USE DEF TypeOK, Goto, Answer, Fail
<1>1. ASSUME NEW q \in Requests, Step(q)
      PROVE  stored' = stored /\ \A p \in Requests : pc'[p] = "inserted" => pc[p] = "inserted"
  BY <1>1 DEF Step, SkipLock, Lookup, Lock, Refuse, Publish, Save, Release
<1>2. ASSUME NEW q \in Requests, Crash(q) \/ DatabaseFails(q) \/ BrokerFails(q) \/ RedisFails(q)
      PROVE  stored' = stored /\ \A p \in Requests : pc'[p] = "inserted" => pc[p] = "inserted"
  BY <1>2 DEF Crash, DatabaseFails, BrokerFails, RedisFails
<1>3. ASSUME NEW k \in Keys, LockLapses(k) \/ LockLapsesEarly(k) \/ AnswerLapses(k)
      PROVE  stored' = stored /\ pc' = pc
  BY <1>3 DEF LockLapses, LockLapsesEarly, AnswerLapses
<1> QED
  BY <1>1, <1>2, <1>3 DEF Next, vars

(* One idempotency key, one notification: the index holds where the lock   *)
(* does not.                                                               *)
THEOREM OnePerKeyCorrect == Spec => []OnePerKey
<1>1. Init => OneOpen /\ OnePerKey
  BY DEF Init, OneOpen, OnePerKey
<1>2. TypeOK /\ OneOpen /\ OnePerKey /\ [Next]_vars => (OneOpen /\ OnePerKey)'
  <2> SUFFICES ASSUME TypeOK, OneOpen, OnePerKey, [Next]_vars
               PROVE  OneOpen' /\ OnePerKey'
    OBVIOUS
  <2>1. ASSUME NEW q \in Requests, Insert(q) PROVE OneOpen' /\ OnePerKey'
    <3>1. stored' = stored
      BY <2>1 DEF Insert
    <3>2. CASE pc' = [pc EXCEPT ![q] = "inserted"] /\ Rivals(q) \cap stored = {}
      <4>1. \A p \in Rivals(q) : p # q /\ pc[p] # "inserted"
        BY <2>1 DEF Insert, Rivals
      <4> QED
        BY <3>1, <3>2, <4>1, RivalsSymmetric DEF TypeOK, OneOpen, OnePerKey, Rivals
    <3>3. CASE pc' = [pc EXCEPT ![q] = "releasing"]
      BY <3>1, <3>3 DEF TypeOK, OneOpen, OnePerKey, Rivals
    <3> QED
      BY <2>1, <3>2, <3>3 DEF Insert, Fail, Goto
  <2>2. ASSUME NEW q \in Requests, Commit(q) PROVE OneOpen' /\ OnePerKey'
    <3>1. /\ pc[q] = "inserted" /\ pc' = [pc EXCEPT ![q] = "committed"]
          /\ stored' = stored \cup {q}
      BY <2>2 DEF Commit, Goto
    <3>2. \A p \in Rivals(q) : pc[p] # "inserted" /\ p \notin stored
      BY <3>1 DEF OneOpen
    <3>3. OnePerKey'
      BY <3>1, <3>2, RivalsSymmetric DEF TypeOK, OnePerKey, Rivals
    <3>4. OneOpen'
      BY <3>1, <3>2, RivalsSymmetric DEF TypeOK, OneOpen, Rivals
    <3> QED
      BY <3>3, <3>4
  <2>3. CASE \A q \in Requests : ~ Insert(q) /\ ~ Commit(q)
    BY <2>3, OtherSteps DEF OneOpen, OnePerKey, Rivals
  <2> QED
    BY <2>1, <2>2, <2>3
<1> QED
  BY <1>1, <1>2, TypeCorrect, PTL DEF Spec

-----------------------------------------------------------------------------
(* The answers.                                                            *)

(* How far a request got bounds what exists of its notification.           *)
Progress ==
  \A q \in Requests :
    /\ pc[q] \in {"new", "locking", "inside", "inserted", "committed"} => queued[q] = "none"
    /\ pc[q] \in {"committed", "queued"} => q \in stored
    /\ pc[q] = "queued" => queued[q] = "all"

(* AnswerHonest from the moment the answer is decided.                     *)
Honest ==
  \A q \in Requests : reply[q] = "created" =>
    /\ body[q] \in stored
    /\ queued[body[q]] = "all"
    /\ Key[body[q]] = Key[q]
    /\ Payload[body[q]] = Payload[q]

AnswerInv == Progress /\ Honest /\ DoneIsComplete

(* Notifications and completed publications never go away.                 *)
Grows ==
  /\ stored \subseteq stored'
  /\ \A p \in Requests : queued[p] = "all" => queued'[p] = "all"

LEMMA ProgressStep ==
  ASSUME TypeOK, Progress, [Next]_vars
  PROVE  Progress' /\ Grows
<1> USE DEF TypeOK, Goto, Answer, Fail
<1>1. ASSUME NEW q \in Requests,
             SkipLock(q) \/ Lookup(q) \/ Lock(q) \/ Refuse(q) \/ Insert(q)
      PROVE  Progress' /\ Grows
  BY <1>1 DEF SkipLock, Lookup, Lock, Refuse, Insert, Progress, Grows
<1>2. ASSUME NEW q \in Requests, Commit(q) \/ Publish(q) \/ Save(q) \/ Release(q)
      PROVE  Progress' /\ Grows
  BY <1>2 DEF Commit, Publish, Save, Release, Progress, Grows
<1>3. ASSUME NEW q \in Requests, Crash(q) \/ DatabaseFails(q)
      PROVE  Progress' /\ Grows
  BY <1>3 DEF Crash, DatabaseFails, Progress, Grows
<1>4. ASSUME NEW q \in Requests, BrokerFails(q) \/ RedisFails(q)
      PROVE  Progress' /\ Grows
  BY <1>4 DEF BrokerFails, RedisFails, Progress, Grows
<1>5. ASSUME NEW k \in Keys, LockLapses(k) \/ LockLapsesEarly(k) \/ AnswerLapses(k)
      PROVE  Progress' /\ Grows
  BY <1>5 DEF LockLapses, LockLapsesEarly, AnswerLapses, Progress, Grows
<1>6. CASE UNCHANGED vars
  BY <1>6 DEF vars, Progress, Grows
<1> QED
  BY <1>1, <1>2, <1>3, <1>4, <1>5, <1>6 DEF Next, Step

(* Only a replay and a completed request answer 201.                       *)
LEMMA OtherAnswers ==
  ASSUME TypeOK, [Next]_vars, \A q \in Requests : ~ Lookup(q) /\ ~ Save(q)
  PROVE  body' = body /\ \A p \in Requests : reply'[p] = "created" => reply[p] = "created"
<1> USE DEF TypeOK, Goto, Answer, Fail
<1>1. ASSUME NEW q \in Requests, Step(q)
      PROVE  body' = body /\ \A p \in Requests : reply'[p] = "created" => reply[p] = "created"
  BY <1>1 DEF Step, SkipLock, Lock, Refuse, Insert, Commit, Publish, Release
<1>2. ASSUME NEW q \in Requests, Crash(q) \/ DatabaseFails(q) \/ BrokerFails(q) \/ RedisFails(q)
      PROVE  body' = body /\ \A p \in Requests : reply'[p] = "created" => reply[p] = "created"
  BY <1>2 DEF Crash, DatabaseFails, BrokerFails, RedisFails
<1>3. ASSUME NEW k \in Keys, LockLapses(k) \/ LockLapsesEarly(k) \/ AnswerLapses(k)
      PROVE  body' = body /\ reply' = reply
  BY <1>3 DEF LockLapses, LockLapsesEarly, AnswerLapses
<1> QED
  BY <1>1, <1>2, <1>3 DEF Next, vars

LEMMA HonestStep ==
  ASSUME TypeOK, AnswerInv, Grows, [Next]_vars
  PROVE  Honest'
<1>1. ASSUME NEW q \in Requests, Lookup(q) PROVE Honest'
  <2>1. CASE UNCHANGED body /\ \A p \in Requests : reply'[p] = "created" => reply[p] = "created"
    BY <2>1 DEF TypeOK, AnswerInv, Honest, Grows
  <2>2. CASE /\ reply' = [reply EXCEPT ![q] = "created"]
             /\ body'  = [body EXCEPT ![q] = entry[Key[q]].by]
             /\ entry[Key[q]].status = "DONE"
             /\ Payload[entry[Key[q]].by] = Payload[q]
    <3> DEFINE e == entry[Key[q]]
    <3>1. Key[q] \in Keys
      BY <1>1 DEF Lookup, Locks
    <3>2. e.by \in stored /\ queued[e.by] = "all" /\ Key[e.by] = Key[q]
      BY <2>2, <3>1 DEF AnswerInv, DoneIsComplete
    <3> QED
      BY <2>2, <3>2 DEF TypeOK, AnswerInv, Honest, Grows
  <2> QED
    BY <1>1, <2>1, <2>2 DEF Lookup, Answer, Goto, TypeOK
<1>2. ASSUME NEW q \in Requests, Save(q) PROVE Honest'
  <2>1. q \in stored /\ queued[q] = "all"
    BY <1>2 DEF Save, AnswerInv, Progress
  <2> QED
    BY <1>2, <2>1 DEF Save, Answer, TypeOK, AnswerInv, Honest, Grows
<1>3. CASE \A q \in Requests : ~ Lookup(q) /\ ~ Save(q)
  BY <1>3, OtherAnswers DEF TypeOK, AnswerInv, Honest, Grows
<1> QED
  BY <1>1, <1>2, <1>3

LEMMA DoneStep ==
  ASSUME TypeOK, AnswerInv, Grows, [Next]_vars
  PROVE  DoneIsComplete'
<1>1. ASSUME NEW q \in Requests, pc[q] = "queued", SetEntry(q, "DONE") PROVE DoneIsComplete'
  <2>1. q \in stored /\ queued[q] = "all"
    BY <1>1 DEF AnswerInv, Progress
  <2> SUFFICES ASSUME NEW k \in Keys, entry'[k].status = "DONE"
               PROVE  LET p == entry'[k].by IN Key[p] = k /\ p \in stored' /\ queued'[p] = "all"
    BY DEF DoneIsComplete
  <2>2. CASE k = Key[q]
    BY <1>1, <2>1, <2>2 DEF SetEntry, TypeOK, Grows
  <2>3. CASE k # Key[q]
    BY <1>1, <2>3 DEF SetEntry, TypeOK, Grows, AnswerInv, DoneIsComplete
  <2> QED
    BY <2>2, <2>3
<1>2. ASSUME \A k \in Keys : entry'[k].status = "DONE" => entry'[k] = entry[k]
      PROVE  DoneIsComplete'
  BY <1>2 DEF TypeOK, Grows, AnswerInv, DoneIsComplete
<1>3. ASSUME NEW q \in Requests, SetEntry(q, "LOCK") PROVE DoneIsComplete'
  <2>1. \A k \in Keys : entry'[k].status = "DONE" => entry'[k] = entry[k]
    BY <1>3 DEF SetEntry, TypeOK
  <2> QED
    BY <1>2, <2>1
<1>4. ASSUME UNCHANGED entry PROVE DoneIsComplete'
  BY <1>2, <1>4
<1>5. ASSUME NEW k \in Keys, entry' = [entry EXCEPT ![k] = NoEntry] PROVE DoneIsComplete'
  <2>1. \A j \in Keys : entry'[j].status = "DONE" => entry'[j] = entry[j]
    BY <1>5 DEF TypeOK, NoEntry
  <2> QED
    BY <1>2, <2>1
<1>6. ASSUME NEW q \in Requests, Release(q) PROVE DoneIsComplete'
  <2>1. \A j \in Keys : entry'[j].status = "DONE" => entry'[j] = entry[j]
    BY <1>6 DEF Release, TypeOK, NoEntry
  <2> QED
    BY <1>2, <2>1
<1>7. ASSUME NEW q \in Requests, RedisFails(q) PROVE DoneIsComplete'
  BY <1>1, <1>3, <1>4, <1>7 DEF RedisFails
<1>8. ASSUME NEW q \in Requests, Save(q) PROVE DoneIsComplete'
  BY <1>1, <1>4, <1>8 DEF Save
<1>9. ASSUME NEW q \in Requests, Lock(q) PROVE DoneIsComplete'
  BY <1>3, <1>4, <1>9 DEF Lock
<1>10. ASSUME NEW q \in Requests,
              \/ SkipLock(q) \/ Lookup(q) \/ Refuse(q) \/ Insert(q) \/ Commit(q) \/ Publish(q)
              \/ Crash(q) \/ DatabaseFails(q) \/ BrokerFails(q)
       PROVE  DoneIsComplete'
  BY <1>4, <1>10 DEF SkipLock, Lookup, Refuse, Insert, Commit, Publish,
                     Crash, DatabaseFails, BrokerFails
<1>11. ASSUME NEW k \in Keys, LockLapses(k) \/ LockLapsesEarly(k) \/ AnswerLapses(k)
       PROVE  DoneIsComplete'
  BY <1>5, <1>11 DEF LockLapses, LockLapsesEarly, AnswerLapses
<1>12. CASE UNCHANGED vars
  BY <1>4, <1>12 DEF vars
<1> QED
  BY <1>6, <1>7, <1>8, <1>9, <1>10, <1>11, <1>12 DEF Next, Step

LEMMA AnswerInvariant == Spec => []AnswerInv
<1>1. Init => AnswerInv
  BY DEF Init, AnswerInv, Progress, Honest, DoneIsComplete, NoEntry
<1>2. TypeOK /\ AnswerInv /\ [Next]_vars => AnswerInv'
  BY ProgressStep, HonestStep, DoneStep DEF AnswerInv
<1> QED
  BY <1>1, <1>2, TypeCorrect, PTL DEF Spec

(* A 201 answer shows a committed and wholly published notification of the *)
(* same key and payload.                                                   *)
THEOREM AnswerHonestCorrect == Spec => []AnswerHonest
<1>1. AnswerInv => AnswerHonest
  BY DEF AnswerInv, Honest, AnswerHonest
<1> QED
  BY <1>1, AnswerInvariant, PTL

(* A DONE entry is the answer of a request that got all the way through.   *)
THEOREM DoneIsCompleteCorrect == Spec => []DoneIsComplete
<1>1. AnswerInv => DoneIsComplete
  BY DEF AnswerInv
<1> QED
  BY <1>1, AnswerInvariant, PTL

(* All 201 answers to one key show the same notification: each shows one   *)
(* stored under the key, and the index admits no two.                      *)
THEOREM SameAnswerCorrect == Spec => []SameAnswer
<1>1. TypeOK /\ AnswerInv /\ OnePerKey => SameAnswer
  <2> SUFFICES ASSUME TypeOK, AnswerInv, OnePerKey,
                      NEW q \in Requests, NEW p \in Requests,
                      reply[q] = "created", reply[p] = "created", Locks(q), Key[p] = Key[q]
               PROVE  body[p] = body[q]
    BY DEF SameAnswer
  <2>1. /\ body[q] \in stored /\ body[p] \in stored
        /\ Key[body[q]] = Key[q] /\ Key[body[p]] = Key[q]
    BY DEF AnswerInv, Honest
  <2>2. Key[q] # NoKey
    BY KeyAssumption DEF Locks
  <2> QED
    BY <2>1, <2>2 DEF OnePerKey, Rivals, Named, TypeOK
<1> QED
  BY <1>1, TypeCorrect, AnswerInvariant, OnePerKeyCorrect, PTL

-----------------------------------------------------------------------------
(* The lock, where no handler outlives its 120 seconds.                    *)

(* Whoever works under a key has its entry.  An answer that is saved while *)
(* its request still works comes from a SET that raised after its effect.  *)
LockInv ==
  /\ \A k \in Keys : entry[k].status # "NONE" => Key[entry[k].by] = k
  /\ \A q \in Requests : Locks(q) /\ pc[q] \in Working => entry[Key[q]].by = q
  /\ \A k \in Keys :
       entry[k].status = "DONE" /\ pc[entry[k].by] \in Working => "redis" \in FaultKinds

(* Who made an entry is a request, and nobody works under an empty one.    *)
LEMMA Holders ==
  ASSUME TypeOK, NEW k \in Keys
  PROVE  /\ entry[k].by # Nobody => entry[k].by \in Requests
         /\ entry[k] = NoEntry <=> entry[k].status = "NONE"
         /\ entry[k].status = "NONE" <=> entry[k].by = Nobody
  BY DEF TypeOK, Entries, NoEntry

(* A step that leaves the entries alone and lets nobody in under a key.    *)
LEMMA NobodyEnters ==
  ASSUME TypeOK, LockInv, entry' = entry,
         \A q \in Requests : Locks(q) /\ pc'[q] \in Working => pc[q] \in Working
  PROVE  LockInv'
<1>1. ASSUME NEW k \in Keys, entry[k].status = "DONE", pc'[entry[k].by] \in Working
      PROVE  pc[entry[k].by] \in Working
  <2>1. entry[k].by \in Requests /\ Key[entry[k].by] = k
    BY <1>1, Holders DEF LockInv
  <2> QED
    BY <1>1, <2>1 DEF Locks
<1> QED
  BY <1>1 DEF LockInv, Locks

(* A request that sets its entry meets no other one that works under it.   *)
LEMMA SetKeeps ==
  ASSUME TypeOK, LockInv, NEW q \in Requests, Locks(q), NEW s \in {"LOCK", "DONE"},
         SetEntry(q, s),
         entry[Key[q]] = NoEntry \/ pc[q] \in Working,
         \A p \in Requests \ {q} : pc'[p] = pc[p],
         s = "DONE" /\ pc'[q] \in Working => "redis" \in FaultKinds
  PROVE  LockInv'
<1> DEFINE k == Key[q]
<1>1. k \in Keys
  BY DEF Locks
<1>2. /\ entry'[k] = [status |-> s, by |-> q]
      /\ \A j \in Keys \ {k} : entry'[j] = entry[j]
  BY <1>1 DEF SetEntry, TypeOK
<1>3. entry[k].by = q \/ entry[k].by = Nobody
  BY <1>1, Holders DEF LockInv
<1>4. ASSUME NEW p \in Requests, Locks(p), pc'[p] \in Working
      PROVE  entry'[Key[p]].by = p
  <2>1. CASE p = q
    BY <1>2, <2>1
  <2>2. CASE p # q
    <3>1. entry[Key[p]].by = p /\ Key[p] \in Keys
      BY <1>4, <2>2 DEF LockInv, Locks
    <3>2. Key[p] # k
      BY <1>3, <2>2, <3>1, NobodyAssumption
    <3> QED
      BY <1>2, <3>1, <3>2
  <2> QED
    BY <2>1, <2>2
<1>5. ASSUME NEW j \in Keys, entry'[j].status # "NONE" PROVE Key[entry'[j].by] = j
  BY <1>2, <1>5 DEF LockInv
<1>6. ASSUME NEW j \in Keys, entry'[j].status = "DONE", pc'[entry'[j].by] \in Working
      PROVE  "redis" \in FaultKinds
  <2>1. CASE j = k
    BY <1>2, <1>6, <2>1
  <2>2. CASE j # k
    <3>1. entry[j].status = "DONE" /\ entry[j].by \in Requests /\ Key[entry[j].by] = j
      BY <1>2, <1>6, <2>2, Holders DEF LockInv
    <3>2. entry[j].by # q
      BY <2>2, <3>1
    <3> QED
      BY <1>2, <1>6, <2>2, <3>1, <3>2 DEF LockInv
  <2> QED
    BY <2>1, <2>2
<1> QED
  BY <1>4, <1>5, <1>6 DEF LockInv

(* An entry goes that no request works under.                              *)
LEMMA DropKeeps ==
  ASSUME TypeOK, LockInv, NEW k \in Keys, entry' = [entry EXCEPT ![k] = NoEntry],
         \A p \in Requests : pc'[p] \in Working => pc[p] \in Working,
         entry[k].by = Nobody \/ pc'[entry[k].by] \notin Working
  PROVE  LockInv'
<1>1. /\ entry'[k] = NoEntry
      /\ \A j \in Keys \ {k} : entry'[j] = entry[j]
  BY DEF TypeOK
<1>2. ASSUME NEW p \in Requests, Locks(p), pc'[p] \in Working
      PROVE  entry'[Key[p]].by = p
  <2>1. entry[Key[p]].by = p /\ Key[p] \in Keys
    BY <1>2 DEF LockInv, Locks
  <2>2. Key[p] # k
    BY <1>2, <2>1, NobodyAssumption
  <2> QED
    BY <1>1, <2>1, <2>2
<1>3. ASSUME NEW j \in Keys, entry'[j].status # "NONE" PROVE Key[entry'[j].by] = j
  BY <1>1, <1>3 DEF LockInv, NoEntry
<1>4. ASSUME NEW j \in Keys, entry'[j].status = "DONE", pc'[entry'[j].by] \in Working
      PROVE  "redis" \in FaultKinds
  <2>1. j # k /\ entry'[j] = entry[j]
    BY <1>1, <1>4 DEF NoEntry
  <2>2. entry[j].by \in Requests
    BY <1>4, <2>1, Holders
  <2> QED
    BY <1>4, <2>1, <2>2 DEF LockInv
<1> QED
  BY <1>2, <1>3, <1>4 DEF LockInv

LEMMA LockStep ==
  ASSUME TypeOK, LockInv, [Next]_vars,
         "slow" \notin FaultKinds, ~ ({"redis", "expire"} \subseteq FaultKinds)
  PROVE  LockInv'
<1> USE DEF Goto, Answer, Fail
<1>1. ASSUME NEW q \in Requests,
             \/ SkipLock(q) \/ Lookup(q) \/ Refuse(q) \/ Insert(q) \/ Commit(q) \/ Publish(q)
             \/ Crash(q) \/ DatabaseFails(q) \/ BrokerFails(q)
      PROVE  LockInv'
  <2>1. /\ entry' = entry
        /\ \A p \in Requests \ {q} : pc'[p] = pc[p]
        /\ Locks(q) /\ pc'[q] \in Working => pc[q] \in Working
    BY <1>1 DEF SkipLock, Lookup, Refuse, Insert, Commit, Publish, Crash, DatabaseFails,
                BrokerFails, TypeOK, Working
  <2> QED
    BY <2>1, NobodyEnters
<1>2. ASSUME NEW q \in Requests, Lock(q) PROVE LockInv'
  <2>1. CASE Answer(q, "busy") /\ UNCHANGED entry
    <3>1. \A p \in Requests : pc'[p] \in Working => pc[p] \in Working
      BY <2>1 DEF TypeOK, Working
    <3> QED
      BY <2>1, <3>1, NobodyEnters
  <2>2. CASE entry[Key[q]] = NoEntry /\ SetEntry(q, "LOCK") /\ Goto(q, "inside")
    <3>1. CASE Locks(q)
      BY <2>2, <3>1, SetKeeps DEF TypeOK
    <3>2. CASE ~ Locks(q)
      <4>1. entry' = entry
        BY <2>2, <3>2 DEF Locks, SetEntry, TypeOK
      <4> QED
        BY <2>2, <3>2, <4>1, NobodyEnters DEF TypeOK, Working, Locks
    <3> QED
      BY <3>1, <3>2
  <2> QED
    BY <1>2, <2>1, <2>2 DEF Lock
<1>3. ASSUME NEW q \in Requests, Save(q) PROVE LockInv'
  <2>1. /\ pc[q] \in Working /\ pc'[q] \notin Working
        /\ \A p \in Requests \ {q} : pc'[p] = pc[p]
    BY <1>3 DEF Save, TypeOK, Working
  <2>2. CASE Locks(q) /\ SetEntry(q, "DONE")
    BY <2>1, <2>2, SetKeeps
  <2>3. CASE UNCHANGED entry
    BY <2>1, <2>3, NobodyEnters
  <2> QED
    BY <1>3, <2>2, <2>3 DEF Save
<1>4. ASSUME NEW q \in Requests, Release(q) PROVE LockInv'
  <2>1. /\ pc[q] \in Working /\ pc'[q] \notin Working
        /\ \A p \in Requests \ {q} : pc'[p] = pc[p]
        /\ entry' = [k \in Keys |-> IF k = Key[q] THEN NoEntry ELSE entry[k]]
    BY <1>4 DEF Release, TypeOK, Working
  <2>2. CASE Key[q] \in Keys
    <3>1. entry' = [entry EXCEPT ![Key[q]] = NoEntry]
      BY <2>1, <2>2 DEF TypeOK
    <3>2. entry[Key[q]].by = q
      BY <2>1, <2>2 DEF LockInv, Locks
    <3> QED
      BY <2>1, <2>2, <3>1, <3>2, DropKeeps
  <2>3. CASE Key[q] \notin Keys
    <3>1. entry' = entry
      BY <2>1, <2>3 DEF TypeOK
    <3> QED
      BY <2>1, <3>1, NobodyEnters
  <2> QED
    BY <2>2, <2>3
<1>5. ASSUME NEW q \in Requests, RedisFails(q) PROVE LockInv'
  <2>1. /\ Locks(q) /\ "redis" \in FaultKinds
        /\ \A p \in Requests \ {q} : pc'[p] = pc[p]
        /\ pc'[q] \in Working => pc[q] \in Working
    BY <1>5 DEF RedisFails, Fault, TypeOK, Working
  <2>2. CASE UNCHANGED entry
    BY <2>1, <2>2, NobodyEnters
  <2>3. CASE entry[Key[q]] = NoEntry /\ SetEntry(q, "LOCK")
    BY <2>1, <2>3, SetKeeps
  <2>4. CASE pc[q] = "queued" /\ SetEntry(q, "DONE")
    BY <2>1, <2>4, SetKeeps DEF Working
  <2> QED
    BY <1>5, <2>2, <2>3, <2>4 DEF RedisFails
<1>6. ASSUME NEW k \in Keys, LockLapses(k) PROVE LockInv'
  BY <1>6, DropKeeps DEF LockLapses
<1>7. ASSUME NEW k \in Keys, LockLapsesEarly(k) PROVE LockInv'
  BY <1>7 DEF LockLapsesEarly, Fault
<1>8. ASSUME NEW k \in Keys, AnswerLapses(k) PROVE LockInv'
  <2>1. pc[entry[k].by] \notin Working
    BY <1>8 DEF AnswerLapses, Fault, LockInv
  <2> QED
    BY <1>8, <2>1, DropKeeps DEF AnswerLapses
<1>9. CASE UNCHANGED vars
  BY <1>9, NobodyEnters DEF vars
<1> QED
  BY <1>1, <1>2, <1>3, <1>4, <1>5, <1>6, <1>7, <1>8, <1>9 DEF Next, Step

LEMMA LockInvariant ==
  ASSUME "slow" \notin FaultKinds, ~ ({"redis", "expire"} \subseteq FaultKinds)
  PROVE  Spec => []LockInv
<1>1. Init => LockInv
  BY DEF Init, LockInv, NoEntry, Working
<1>2. TypeOK /\ LockInv /\ [Next]_vars => LockInv'
  BY LockStep
<1> QED
  BY <1>1, <1>2, TypeCorrect, PTL DEF Spec

(* As long as no handler outlives its lock, and unless a saved answer can  *)
(* both be reported as a failure and expire, no two requests of one key    *)
(* are between check and answer, also while processes die with their locks *)
(* and locks lapse behind them.                                            *)
THEOREM MutualExclusionCorrect ==
  ASSUME "slow" \notin FaultKinds, ~ ({"redis", "expire"} \subseteq FaultKinds)
  PROVE  Spec => []MutualExclusion
<1>1. LockInv => MutualExclusion
  BY DEF LockInv, MutualExclusion, Rivals, Locks
<1> QED
  BY <1>1, LockInvariant, PTL

(* If besides no Redis command of a request fails and no saved answer      *)
(* expires, a completed answer stays: nobody releases or overwrites it.    *)
THEOREM DoneStaysCorrect ==
  ASSUME {"slow", "redis", "expire"} \cap FaultKinds = {}
  PROVE  Spec => DoneStays
<1>1. TypeOK /\ LockInv /\ [Next]_vars =>
        [\A k \in Keys : entry[k].status = "DONE" => entry'[k] = entry[k]]_entry
  <2> SUFFICES ASSUME TypeOK, LockInv, Next, entry' # entry,
                      NEW k \in Keys, entry[k].status = "DONE"
               PROVE  entry'[k] = entry[k]
    BY DEF vars
  <2> DEFINE p == entry[k].by
  <2>1. p \in Requests /\ pc[p] \notin Working /\ Key[p] = k /\ entry[k] # NoEntry
    BY Holders DEF LockInv, NoEntry
  <2>2. ASSUME NEW q \in Requests, pc[q] \in Working, Locks(q) PROVE Key[q] # k
    BY <2>1, <2>2 DEF LockInv
  <2>3. ASSUME NEW q \in Requests, Lock(q) PROVE entry'[k] = entry[k]
    BY <2>1, <2>3 DEF Lock, SetEntry, TypeOK
  <2>4. ASSUME NEW q \in Requests, Save(q) PROVE entry'[k] = entry[k]
    BY <2>2, <2>4 DEF Save, SetEntry, TypeOK, Working
  <2>5. ASSUME NEW q \in Requests, Release(q) PROVE entry'[k] = entry[k]
    BY <2>2, <2>5 DEF Release, TypeOK, Working, Locks
  <2>6. ASSUME NEW j \in Keys, LockLapses(j) PROVE entry'[k] = entry[k]
    BY <2>6 DEF LockLapses, TypeOK
  <2>7. ~ \E q \in Requests : RedisFails(q)
    BY DEF RedisFails, Fault
  <2>8. ~ \E j \in Keys : LockLapsesEarly(j) \/ AnswerLapses(j)
    BY DEF LockLapsesEarly, AnswerLapses, Fault
  <2> QED
    BY <2>3, <2>4, <2>5, <2>6, <2>7, <2>8
       DEF Next, Step, SkipLock, Lookup, Refuse, Insert, Commit, Publish, Crash, DatabaseFails,
           BrokerFails
<1>2. "slow" \notin FaultKinds /\ ~ ({"redis", "expire"} \subseteq FaultKinds)
  OBVIOUS
<1> QED
  BY <1>1, <1>2, TypeCorrect, LockInvariant, PTL DEF Spec, DoneStays

=============================================================================
