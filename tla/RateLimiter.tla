---------------------------- MODULE RateLimiter ----------------------------
(***************************************************************************)
(* check_rate_limit for one user: concurrent requests and the sorted set   *)
(* rate_limit:<user> in Redis.  A request reads the clock, prunes and      *)
(* counts the set in one pipeline and, if the count is below the limit,    *)
(* adds itself in a second one.  Each pipeline is a MULTI/EXEC transaction *)
(* and so one step; the handler is suspended before each of them.          *)
(*                                                                         *)
(* Time is counted in ticks, Unit of them to a second.                     *)
(***************************************************************************)
EXTENDS Integers, FiniteSets, FiniteSetsExt

CONSTANTS
  Requests,  \* requests of the user
  Limit,     \* RATE_LIMIT_MAX_REQUESTS
  Window,    \* RATE_LIMIT_WINDOW_SECONDS, in ticks
  Unit,      \* ticks per second
  InFlight,  \* how many requests are inside check_rate_limit at a time
  Prompt,    \* whether a request gets through within one tick
  MaxTime    \* bound: the clock stops here

ASSUME NumbersAssumption ==
  /\ Limit \in Nat
  /\ Window \in Nat \ {0}
  /\ Unit \in Nat \ {0}
  /\ InFlight \in Nat \ {0}
  /\ Prompt \in BOOLEAN
  /\ MaxTime \in Nat
ASSUME RequestsAssumption == IsFiniteSet(Requests)

VARIABLES
  clock,
  zset,     \* members of the sorted set; the score of q is at[q]
  expires,  \* when Redis drops the whole set
  pc,
  at,       \* `now` of each request
  retry,    \* retry_after of a rejected request, in seconds
  admitted  \* requests that have passed the limiter

vars == <<clock, zset, expires, pc, at, retry, admitted>>

-----------------------------------------------------------------------------
PCs == {"new", "checking", "passed", "over"}

Inside == {q \in Requests : pc[q] \in {"checking", "passed"}}

Goto(q, label) == pc' = [pc EXCEPT ![q] = label]

(* A key past its TTL is absent for every command.                         *)
Live == IF clock < expires THEN zset ELSE {}

\* Mutant of Kept: the window is one tick short.
KeptShort(q) == {p \in Live : at[p] > at[q] - Window + 1}

(* ZREMRANGEBYSCORE -inf cutoff removes the cutoff itself too.             *)
Kept(q) == {p \in Live : at[p] > at[q] - Window}

\* Mutants of RetryAfter: operands swapped; always one second.
RetryAfterSwapped(q, kept) ==
  IF kept = {} THEN 1 ELSE (at[q] - (Min({at[p] : p \in kept}) + Window)) \div Unit
RetryAfterOne(q, kept) == 1

(* Whole seconds until the oldest member leaves the window, at least 1.    *)
RetryAfter(q, kept) ==
  IF kept = {} THEN 1
  ELSE Max({1, (Min({at[p] : p \in kept}) + Window - at[q]) \div Unit})

Init ==
  /\ clock    = 0
  /\ zset     = {}
  /\ expires  = 0
  /\ pc       = [q \in Requests |-> "new"]
  /\ at       = [q \in Requests |-> 0]
  /\ retry    = [q \in Requests |-> 0]
  /\ admitted = {}

Tick ==
  /\ clock < MaxTime
  /\ Prompt => Inside = {}
  /\ clock' = clock + 1
  /\ UNCHANGED <<zset, expires, pc, at, retry, admitted>>

(* The handler is entered and reads the clock.                             *)
Arrive(q) ==
  /\ pc[q] = "new"
  /\ Cardinality(Inside) < InFlight
  /\ at' = [at EXCEPT ![q] = clock]
  /\ Goto(q, "checking")
  /\ UNCHANGED <<clock, zset, expires, retry, admitted>>

Reject(q) ==
  /\ pc[q] = "checking"
  /\ Cardinality(Kept(q)) >= Limit
  /\ zset'  = Kept(q)
  /\ retry' = [retry EXCEPT ![q] = RetryAfter(q, Kept(q))]
  /\ Goto(q, "over")
  /\ UNCHANGED <<clock, expires, at, admitted>>

\* Mutant of Pass: one request too many.
PassAtLimit(q) ==
  /\ pc[q] = "checking"
  /\ Cardinality(Kept(q)) <= Limit
  /\ zset' = Kept(q)
  /\ Goto(q, "passed")
  /\ UNCHANGED <<clock, expires, at, retry, admitted>>

Pass(q) ==
  /\ pc[q] = "checking"
  /\ Cardinality(Kept(q)) < Limit
  /\ zset' = Kept(q)
  /\ Goto(q, "passed")
  /\ UNCHANGED <<clock, expires, at, retry, admitted>>

(* ZADD and EXPIRE.                                                        *)
Add(q) ==
  /\ pc[q] = "passed"
  /\ zset'     = Live \cup {q}
  /\ expires'  = clock + Window
  /\ admitted' = admitted \cup {q}
  /\ Goto(q, "over")
  /\ UNCHANGED <<clock, at, retry>>

(* A pipeline raises, with or without effect, and the request fails.       *)
Fail(q) ==
  /\ \/ /\ pc[q] = "checking"
        /\ zset' \in {zset, Kept(q)}
        /\ UNCHANGED expires
     \/ /\ pc[q] = "passed"
        /\ \/ UNCHANGED <<zset, expires>>
           \/ zset' = Live \cup {q} /\ expires' = clock + Window
  /\ Goto(q, "over")
  /\ UNCHANGED <<clock, at, retry, admitted>>

Next ==
  \/ Tick
  \/ \E q \in Requests : Arrive(q) \/ Reject(q) \/ Pass(q) \/ Add(q) \/ Fail(q)

Spec == Init /\ [][Next]_vars

-----------------------------------------------------------------------------
(* Properties.                                                             *)

TypeOK ==
  /\ clock \in 0..MaxTime
  /\ zset \subseteq Requests
  /\ expires \in 0..(MaxTime + Window)
  /\ pc \in [Requests -> PCs]
  /\ at \in [Requests -> 0..MaxTime]
  /\ retry \in [Requests -> Nat]
  /\ admitted \subseteq Requests

(* The set never outgrows the limit by more than the requests that check   *)
(* it at the same time, counting those that are about to add themselves.   *)
Passed == {q \in Requests : pc[q] = "passed"}

SetBounded == Cardinality(zset \cup Passed) <= Limit - 1 + InFlight

(* The admissions whose timestamps fall into one window exceed the limit   *)
(* by less than two rounds of overlapping requests: those that pass the    *)
(* check together, and those that are still waiting for their check when   *)
(* the set expires or a later request prunes it.                           *)
AdmittedFrom(t) == {q \in admitted : t <= at[q] /\ at[q] < t + Window}

WindowBounded ==
  \A t \in 0..MaxTime : Cardinality(AdmittedFrom(t)) <= Limit + 2 * InFlight - 1

(* DESIGN.md:138: the limit "is strictly enforced within any 60-minute     *)
(* interval".                                                              *)
StrictLimit == \A t \in 0..MaxTime : Cardinality(AdmittedFrom(t)) <= Limit

(* A rejection announces a waiting time.                                   *)
Rejection(q) == pc[q] = "checking" /\ pc'[q] = "over" /\ retry'[q] > 0

(* A client that waits a second more than a rejection says finds that one  *)
(* of the requests that kept it out has left the window: retry_after is    *)
(* cut to whole seconds, so the time itself may be short by less than one. *)
RetryWithinASecond ==
  [][\A q \in Requests : Rejection(q) =>
       \E p \in zset' : at[p] <= at[q] + (retry'[q] + 1) * Unit - Window]_vars

=============================================================================
