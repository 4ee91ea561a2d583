-------------------------- MODULE SendNotification --------------------------
(***************************************************************************)
(* The web half of the notification service: concurrent executions of      *)
(* POST /notifications, the idempotency entries they keep in Redis and the *)
(* notifications they commit to PostgreSQL.                                *)
(*                                                                         *)
(* Redis runs one command at a time and the handler is suspended at every  *)
(* await, so GET, SET NX, the insert, the commit, the publication, the     *)
(* final SET and the DELETE of a request are steps of their own.  A        *)
(* notification is named by the request that created it.                   *)
(***************************************************************************)
EXTENDS Naturals, FiniteSets

CONSTANTS
  Requests,  \* executions of the handler, a client's retries included
  Keys,      \* non-empty values of the x-idempotency-key header
  NoKey,     \* the header is absent
  EmptyKey,  \* the header is present and empty
  Key,       \* the header of each request
  Payloads,
  Payload,   \* the body of each request
  FaultKinds,
  MaxFaults, \* bound: how many faults may happen
  Nobody     \* no request

AllFaults == {"crash", "slow", "expire", "db", "broker", "redis"}

ASSUME KeyAssumption ==
  /\ Key \in [Requests -> Keys \cup {NoKey, EmptyKey}]
  /\ NoKey \notin Keys /\ EmptyKey \notin Keys /\ NoKey # EmptyKey
ASSUME PayloadAssumption == Payload \in [Requests -> Payloads]
ASSUME NobodyAssumption == Nobody \notin Requests
ASSUME FaultAssumption == FaultKinds \subseteq AllFaults /\ MaxFaults \in Nat

VARIABLES
  entry,   \* Redis: the entry idempotency:<key>
  stored,  \* PostgreSQL: notifications committed with their deliveries
  queued,  \* how many of a notification's deliveries have been published
  pc,      \* where each request is
  reply,   \* what it answers
  body,    \* the notification a "created" answer shows
  faults   \* history: faults that have happened

vars == <<entry, stored, queued, pc, reply, body, faults>>

-----------------------------------------------------------------------------
PCs == {"new", "locking", "inside", "inserted", "committed", "queued",
        "releasing", "answered", "dead"}

Replies == {"none", "created", "conflict", "busy", "refused", "error"}

(* Between the idempotency check and the answer.                           *)
Working == {"inside", "inserted", "committed", "queued", "releasing"}

Entries == [status: {"NONE", "LOCK", "DONE"}, by: Requests \cup {Nobody}]

(* An entry stores a payload and, once DONE, a response body; both are     *)
(* those of the request `by`, whose SET it was.                            *)
NoEntry == [status |-> "NONE", by |-> Nobody]

(* `if idempotency_key:` is false for an empty header, but the column gets *)
(* the header as it is, and only NULL escapes its unique index.            *)
Locks(q) == Key[q] \in Keys
Named(q) == Key[q] # NoKey

Rivals(q) == {p \in Requests \ {q} : Named(q) /\ Key[p] = Key[q]}

Goto(q, label) == pc' = [pc EXCEPT ![q] = label]

Answer(q, r) == Goto(q, "answered") /\ reply' = [reply EXCEPT ![q] = r]

(* The exception handlers of the endpoint: the answer is known, the lock   *)
(* is still to be released.                                                *)
Fail(q, r) == Goto(q, "releasing") /\ reply' = [reply EXCEPT ![q] = r]

SetEntry(q, status) == entry' = [entry EXCEPT ![Key[q]] = [status |-> status, by |-> q]]

Fault(kind) ==
  /\ kind \in FaultKinds
  /\ faults < MaxFaults
  /\ faults' = faults + 1

Init ==
  /\ entry  = [k \in Keys |-> NoEntry]
  /\ stored = {}
  /\ queued = [q \in Requests |-> "none"]
  /\ pc     = [q \in Requests |-> "new"]
  /\ reply  = [q \in Requests |-> "none"]
  /\ body   = [q \in Requests |-> Nobody]
  /\ faults = 0

-----------------------------------------------------------------------------
(* check_or_lock.                                                          *)

SkipLock(q) ==
  /\ pc[q] = "new"
  /\ ~ Locks(q)
  /\ Goto(q, "inside")
  /\ UNCHANGED <<entry, stored, queued, reply, body, faults>>

\* Mutant of Lookup: the payloads are not compared.
LookupAnyPayload(q) ==
  /\ pc[q] = "new"
  /\ Locks(q)
  /\ LET e == entry[Key[q]] IN
       \/ e.status = "NONE" /\ Goto(q, "locking") /\ UNCHANGED <<reply, body>>
       \/ e.status = "LOCK" /\ Answer(q, "busy") /\ UNCHANGED body
       \/ e.status = "DONE" /\ Answer(q, "created") /\ body' = [body EXCEPT ![q] = e.by]
  /\ UNCHANGED <<entry, stored, queued, faults>>

Lookup(q) ==
  /\ pc[q] = "new"
  /\ Locks(q)
  /\ LET e == entry[Key[q]] IN
       \/ /\ e.status = "NONE"
          /\ Goto(q, "locking")
          /\ UNCHANGED <<reply, body>>
       \/ /\ e.status # "NONE"
          /\ Payload[e.by] # Payload[q]
          /\ Answer(q, "conflict")
          /\ UNCHANGED body
       \/ /\ e.status = "LOCK"
          /\ Payload[e.by] = Payload[q]
          /\ Answer(q, "busy")
          /\ UNCHANGED body
       \/ /\ e.status = "DONE"
          /\ Payload[e.by] = Payload[q]
          /\ Answer(q, "created")
          /\ body' = [body EXCEPT ![q] = e.by]
  /\ UNCHANGED <<entry, stored, queued, faults>>

\* Mutants of Lock: SET without NX; wait for the key instead of answering.
LockOverwrites(q) ==
  /\ pc[q] = "locking"
  /\ SetEntry(q, "LOCK")
  /\ Goto(q, "inside")
  /\ UNCHANGED <<stored, queued, reply, body, faults>>
LockWaits(q) ==
  /\ pc[q] = "locking"
  /\ entry[Key[q]] = NoEntry
  /\ SetEntry(q, "LOCK")
  /\ Goto(q, "inside")
  /\ UNCHANGED <<stored, queued, reply, body, faults>>

(* SET NX: the key may have appeared since the GET.                        *)
Lock(q) ==
  /\ pc[q] = "locking"
  /\ \/ /\ entry[Key[q]] = NoEntry
        /\ SetEntry(q, "LOCK")
        /\ Goto(q, "inside")
        /\ UNCHANGED reply
     \/ /\ entry[Key[q]] # NoEntry
        /\ Answer(q, "busy")
        /\ UNCHANGED entry
  /\ UNCHANGED <<stored, queued, body, faults>>

-----------------------------------------------------------------------------
(* The body of the endpoint.                                               *)

(* Rate limit, unknown template or missing variables.                      *)
Refuse(q) ==
  /\ pc[q] = "inside"
  /\ Fail(q, "refused")
  /\ UNCHANGED <<entry, stored, queued, body, faults>>

\* Mutant of Insert: the column has no unique index.
InsertUnchecked(q) ==
  /\ pc[q] = "inside"
  /\ Goto(q, "inserted")
  /\ UNCHANGED <<entry, stored, queued, reply, body, faults>>

(* flush() of the notification: PostgreSQL makes it wait for an open       *)
(* transaction that inserted the same idempotency_key, and raises          *)
(* IntegrityError once that one has committed.                             *)
Insert(q) ==
  /\ pc[q] = "inside"
  /\ \A p \in Rivals(q) : pc[p] # "inserted"
  /\ \/ /\ Rivals(q) \cap stored = {}
        /\ Goto(q, "inserted")
        /\ UNCHANGED reply
     \/ /\ Rivals(q) \cap stored # {}
        /\ Fail(q, "error")
  /\ UNCHANGED <<entry, stored, queued, body, faults>>

Commit(q) ==
  /\ pc[q] = "inserted"
  /\ stored' = stored \cup {q}
  /\ Goto(q, "committed")
  /\ UNCHANGED <<entry, queued, reply, body, faults>>

(* One apply_async per delivery, without an await between them.            *)
Publish(q) ==
  /\ pc[q] = "committed"
  /\ queued' = [queued EXCEPT ![q] = "all"]
  /\ Goto(q, "queued")
  /\ UNCHANGED <<entry, stored, reply, body, faults>>

\* Mutant of Save: before the publication.
SaveEarly(q) ==
  /\ pc[q] = "committed"
  /\ IF Locks(q) THEN SetEntry(q, "DONE") ELSE UNCHANGED entry
  /\ Answer(q, "created")
  /\ body' = [body EXCEPT ![q] = q]
  /\ UNCHANGED <<stored, queued, faults>>

(* The row is read back and save_response overwrites whatever the entry    *)
(* holds by now.                                                           *)
Save(q) ==
  /\ pc[q] = "queued"
  /\ IF Locks(q) THEN SetEntry(q, "DONE") ELSE UNCHANGED entry
  /\ Answer(q, "created")
  /\ body' = [body EXCEPT ![q] = q]
  /\ UNCHANGED <<stored, queued, faults>>

\* Mutant of Release: the entry is emptied, not deleted.
ReleaseEmpties(q) ==
  /\ pc[q] = "releasing"
  /\ entry' = [k \in Keys |-> IF k = Key[q] THEN [entry[k] EXCEPT !.status = "NONE"] ELSE entry[k]]
  /\ Goto(q, "answered")
  /\ UNCHANGED <<stored, queued, reply, body, faults>>

(* delete_key does not look at whose entry it is.                          *)
Release(q) ==
  /\ pc[q] = "releasing"
  /\ entry' = [k \in Keys |-> IF k = Key[q] THEN NoEntry ELSE entry[k]]
  /\ Goto(q, "answered")
  /\ UNCHANGED <<stored, queued, reply, body, faults>>

-----------------------------------------------------------------------------
(* Time and faults.                                                        *)

\* Mutant of LockLapses: the lock is set without a TTL.
LockNeverLapses(k) == FALSE /\ UNCHANGED vars

(* The 120 seconds of a lock pass: after its request has ended, or, with a *)
(* slow handler, while it is still running.                                *)
LockLapses(k) ==
  /\ entry[k].status = "LOCK"
  /\ pc[entry[k].by] \notin Working
  /\ entry' = [entry EXCEPT ![k] = NoEntry]
  /\ UNCHANGED <<stored, queued, pc, reply, body, faults>>

LockLapsesEarly(k) ==
  /\ entry[k].status = "LOCK"
  /\ pc[entry[k].by] \in Working
  /\ Fault("slow")
  /\ entry' = [entry EXCEPT ![k] = NoEntry]
  /\ UNCHANGED <<stored, queued, pc, reply, body>>

(* IDEMPOTENCY_TTL_SECONDS after the answer was saved.                     *)
AnswerLapses(k) ==
  /\ entry[k].status = "DONE"
  /\ Fault("expire")
  /\ entry' = [entry EXCEPT ![k] = NoEntry]
  /\ UNCHANGED <<stored, queued, pc, reply, body>>

(* The web process dies.  An open transaction is rolled back; publication  *)
(* may have begun.                                                         *)
Crash(q) ==
  /\ pc[q] \in Working \cup {"locking"}
  /\ Fault("crash")
  /\ Goto(q, "dead")
  /\ \/ UNCHANGED queued
     \/ pc[q] = "committed" /\ queued' = [queued EXCEPT ![q] = "some"]
  /\ UNCHANGED <<entry, stored, reply, body>>

(* A query or the commit fails; what was not committed is rolled back.     *)
DatabaseFails(q) ==
  /\ pc[q] \in {"inside", "inserted", "queued"}
  /\ Fault("db")
  /\ Fail(q, "error")
  /\ UNCHANGED <<entry, stored, queued, body>>

(* apply_async raises for one of the deliveries.                           *)
BrokerFails(q) ==
  /\ pc[q] = "committed"
  /\ Fault("broker")
  /\ Fail(q, "error")
  /\ queued' \in {queued, [queued EXCEPT ![q] = "some"]}
  /\ UNCHANGED <<entry, stored, body>>

(* A Redis command raises.  The SET may have taken effect all the same.    *)
(* Before the try block nothing is released; within it DELETE follows, and *)
(* when DELETE itself raises the entry stays.                              *)
RedisFails(q) ==
  /\ Fault("redis")
  /\ Locks(q)
  /\ \/ /\ pc[q] = "new"
        /\ Answer(q, "error")
        /\ UNCHANGED entry
     \/ /\ pc[q] = "locking"
        /\ Answer(q, "error")
        /\ UNCHANGED entry \/ (entry[Key[q]] = NoEntry /\ SetEntry(q, "LOCK"))
     \/ /\ pc[q] = "queued"
        /\ Fail(q, "error")
        /\ UNCHANGED entry \/ SetEntry(q, "DONE")
     \/ /\ pc[q] = "releasing"
        /\ Answer(q, "error")
        /\ UNCHANGED entry
  /\ UNCHANGED <<stored, queued, body>>

-----------------------------------------------------------------------------
Step(q) ==
  \/ SkipLock(q)
  \/ Lookup(q)
  \/ Lock(q)
  \/ Refuse(q)
  \/ Insert(q)
  \/ Commit(q)
  \/ Publish(q)
  \/ Save(q)
  \/ Release(q)

Next ==
  \/ \E q \in Requests :
       \/ Step(q)
       \/ Crash(q)
       \/ DatabaseFails(q)
       \/ BrokerFails(q)
       \/ RedisFails(q)
  \/ \E k \in Keys : LockLapses(k) \/ LockLapsesEarly(k) \/ AnswerLapses(k)

Spec == Init /\ [][Next]_vars

(* The event loop resumes every handler whose await is over, and Redis     *)
(* expires keys.  A client need not send a request.                        *)
Fairness ==
  /\ \A q \in Requests : WF_vars(pc[q] # "new" /\ Step(q))
  /\ \A k \in Keys : WF_vars(LockLapses(k))

FairSpec == Spec /\ Fairness

-----------------------------------------------------------------------------
(* Properties.                                                             *)

TypeOK ==
  /\ entry  \in [Keys -> Entries]
  /\ stored \subseteq Requests
  /\ queued \in [Requests -> {"none", "some", "all"}]
  /\ pc     \in [Requests -> PCs]
  /\ reply  \in [Requests -> Replies]
  /\ body   \in [Requests -> Requests \cup {Nobody}]
  /\ faults \in Nat
  /\ \A k \in Keys : entry[k].status = "NONE" <=> entry[k].by = Nobody

(* One idempotency key, one notification: whatever lock has lapsed or been *)
(* deleted under a running request.                                        *)
OnePerKey == \A q \in stored : Rivals(q) \cap stored = {}

(* A 201 answer shows a notification of the same key and payload that is   *)
(* committed and whose deliveries are all published, also when the answer  *)
(* is a replay and entries were overwritten or deleted in between.         *)
AnswerHonest ==
  \A q \in Requests : pc[q] = "answered" /\ reply[q] = "created" =>
    /\ body[q] \in stored
    /\ queued[body[q]] = "all"
    /\ Key[body[q]] = Key[q]
    /\ Payload[body[q]] = Payload[q]

(* All 201 answers to one key show the same notification.                  *)
SameAnswer ==
  \A q, p \in Requests :
    reply[q] = "created" /\ reply[p] = "created" /\ Locks(q) /\ Key[p] = Key[q]
      => body[p] = body[q]

(* A DONE entry is the answer of a request that got all the way through.   *)
DoneIsComplete ==
  \A k \in Keys : entry[k].status = "DONE" =>
    LET q == entry[k].by IN Key[q] = k /\ q \in stored /\ queued[q] = "all"

(* DESIGN.md:142: the Redis lock "prevents race conditions cleanly": no    *)
(* two requests with the same key are between check and answer.            *)
MutualExclusion ==
  \A q \in Requests : Locks(q) /\ pc[q] \in Working =>
    \A p \in Rivals(q) : pc[p] \notin Working

(* services/idempotency.py:83: deleting the key allows "retry if the       *)
(* operation failed before completion": a key without an entry and without *)
(* a running request can still be used, nothing being stored under it.     *)
FreeKeyIsUsable ==
  \A k \in Keys : entry[k] = NoEntry =>
    \A q \in Requests : Key[q] = k => q \notin stored \/ pc[q] \in Working

(* A completed answer stays until its 24 hours are over.                   *)
DoneStays ==
  [][\A k \in Keys : entry[k].status = "DONE" => entry'[k] = entry[k]]_entry

(* Every request that has begun is answered, unless its process dies.      *)
Answered ==
  \A q \in Requests : pc[q] = "locking" \/ pc[q] \in Working ~> pc[q] \in {"answered", "dead"}

(* No lock is held for ever, whatever happened to the request that took it. *)
LockEnds ==
  \A k \in Keys : entry[k].status = "LOCK" ~> entry[k].status # "LOCK"

=============================================================================
