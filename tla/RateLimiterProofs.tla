------------------------- MODULE RateLimiterProofs -------------------------
(***************************************************************************)
(* The bounds on the sorted set and on the admissions from one window, for *)
(* every limit, window, clock and degree of concurrency, and what a        *)
(* rejection promises.                                                     *)
(*                                                                         *)
(* SetBounded is not inductive alone: Pass compares the size of the set    *)
(* with the limit but does not see the requests that have passed and not   *)
(* yet added themselves.  That these are few is the second conjunct.       *)
(***************************************************************************)
EXTENDS RateLimiter, FiniteSetTheorems, WellFoundedInduction, TLAPS

SetInv ==
  /\ zset \subseteq Requests
  /\ pc \in [Requests -> PCs]
  /\ Cardinality(Inside) <= InFlight
  /\ SetBounded

-----------------------------------------------------------------------------
LEMMA Finite ==
  ASSUME NEW S, S \subseteq Requests
  PROVE  IsFiniteSet(S) /\ Cardinality(S) \in Nat
  BY RequestsAssumption, FS_Subset, FS_CardinalityType

LEMMA Smaller ==
  ASSUME NEW T, T \subseteq Requests, NEW S, S \subseteq T
  PROVE  Cardinality(S) <= Cardinality(T)
  BY Finite, FS_Subset

(* Pruning and expiry only take members away.                              *)
LEMMA KeptSubset == \A q \in Requests : Kept(q) \subseteq zset
  BY DEF Kept, Live

LEMMA LiveSubset == Live \subseteq zset
  BY DEF Live

LEMMA InsideSubset == Passed \subseteq Inside /\ Inside \subseteq Requests
  BY DEF Passed, Inside

-----------------------------------------------------------------------------
(* Min and Max, as RetryAfter uses them.                                   *)
LEMMA LeastNatural ==
  ASSUME NEW S, S \subseteq Nat, S # {}
  PROVE  Min(S) \in S /\ \A x \in S : Min(S) <= x
<1>1. PICK m \in S : \A x \in S : ~ (<<x, m>> \in OpToRel(<, Nat))
  BY NatLessThanWellFounded, WFMin, Zenon
<1>2. \A x \in S : m <= x
  <2> SUFFICES ASSUME NEW x \in S PROVE m <= x
    OBVIOUS
  <2>1. x \in Nat /\ m \in Nat
    OBVIOUS
  <2>2. ~ (x < m)
    BY <1>1, <2>1 DEF OpToRel
  <2> QED
    BY <2>1, <2>2
<1> QED
  BY <1>2 DEF Min

LEMMA GreaterOfTwo ==
  ASSUME NEW m \in Int, NEW n \in Int
  PROVE  Max({m, n}) \in {m, n} /\ Max({m, n}) >= m /\ Max({m, n}) >= n
<1>1. \E x \in {m, n} : \A y \in {m, n} : x >= y
  <2>1. CASE m >= n
    BY <2>1
  <2>2. CASE n >= m
    BY <2>2
  <2> QED
    BY <2>1, <2>2
<1> QED
  BY <1>1 DEF Max

(* What is cut off when ticks are turned into whole seconds is less than   *)
(* a second.                                                               *)
LEMMA WholeSeconds ==
  ASSUME NEW x \in Nat
  PROVE  x \div Unit \in Nat /\ x < (x \div Unit + 1) * Unit
  BY NumbersAssumption, Z3

(* The number of seconds a rejection announces is positive, and one second *)
(* more takes the oldest member that was counted out of the window.        *)
LEMMA RetryAfterCovers ==
  ASSUME at \in [Requests -> Nat], zset \subseteq Requests, NEW q \in Requests
  PROVE  /\ RetryAfter(q, Kept(q)) \in Nat \ {0}
         /\ Kept(q) # {} =>
              \E p \in Kept(q) :
                at[p] <= at[q] + (RetryAfter(q, Kept(q)) + 1) * Unit - Window
<1>1. CASE Kept(q) = {}
  BY <1>1 DEF RetryAfter
<1>2. CASE Kept(q) # {}
  <2> DEFINE times == {at[p] : p \in Kept(q)}
             wait  == Min(times) + Window - at[q]
  <2>1. times \subseteq Nat /\ times # {}
    BY <1>2 DEF Kept, Live
  <2>2. Min(times) \in times
    BY <2>1, LeastNatural
  <2>3. PICK p \in Kept(q) : at[p] = Min(times)
    BY <2>2
  <2>4. at[p] \in Nat /\ at[q] \in Nat /\ at[p] > at[q] - Window
    BY <2>3 DEF Kept, Live
  <2>5. wait \in Nat /\ at[p] = at[q] + wait - Window
    BY <2>3, <2>4, NumbersAssumption
  <2>6. wait \div Unit \in Nat /\ wait < (wait \div Unit + 1) * Unit
    BY <2>5, WholeSeconds
  <2>7. /\ RetryAfter(q, Kept(q)) \in {1, wait \div Unit}
        /\ RetryAfter(q, Kept(q)) >= 1
        /\ RetryAfter(q, Kept(q)) >= wait \div Unit
    <3>1. RetryAfter(q, Kept(q)) = Max({1, wait \div Unit})
      BY <1>2 DEF RetryAfter
    <3>2. 1 \in Int /\ wait \div Unit \in Int
      BY <2>6
    <3> HIDE DEF wait, times
    <3>3. \A m, n \in Int :
            Max({m, n}) \in {m, n} /\ Max({m, n}) >= m /\ Max({m, n}) >= n
      BY GreaterOfTwo
    <3> QED
      BY <3>1, <3>2, <3>3, Zenon
  <2> HIDE DEF wait, times
  <2>8. RetryAfter(q, Kept(q)) \in Nat \ {0}
    BY <2>6, <2>7
  <2>9. (wait \div Unit + 1) * Unit <= (RetryAfter(q, Kept(q)) + 1) * Unit
    BY <2>6, <2>7, <2>8, NumbersAssumption
  <2>10. at[p] <= at[q] + (RetryAfter(q, Kept(q)) + 1) * Unit - Window
    BY <2>4, <2>5, <2>6, <2>8, <2>9, NumbersAssumption
  <2> QED
    BY <2>3, <2>8, <2>10
<1> QED
  BY <1>1, <1>2

-----------------------------------------------------------------------------
(* Every variable keeps its type; in particular what a rejection announces *)
(* is a natural number of seconds.                                         *)
THEOREM TypeCorrect == Spec => []TypeOK
<1>1. Init => TypeOK
  BY NumbersAssumption DEF Init, TypeOK, PCs
<1>2. TypeOK /\ [Next]_vars => TypeOK'
  <2> SUFFICES ASSUME TypeOK, [Next]_vars PROVE TypeOK'
    OBVIOUS
  <2>1. CASE Tick
    BY <2>1, NumbersAssumption DEF Tick, TypeOK
  <2>2. ASSUME NEW q \in Requests, Arrive(q) PROVE TypeOK'
    BY <2>2 DEF Arrive, Goto, TypeOK, PCs
  <2>3. ASSUME NEW q \in Requests, Reject(q) PROVE TypeOK'
    <3>1. at \in [Requests -> Nat] /\ zset \subseteq Requests
      BY NumbersAssumption DEF TypeOK
    <3>2. RetryAfter(q, Kept(q)) \in Nat
      BY <3>1, RetryAfterCovers
    <3> QED
      BY <2>3, <3>1, <3>2, KeptSubset DEF Reject, Goto, TypeOK, PCs
  <2>4. ASSUME NEW q \in Requests, Pass(q) PROVE TypeOK'
    BY <2>4, KeptSubset DEF Pass, Goto, TypeOK, PCs
  <2>5. ASSUME NEW q \in Requests, Add(q) PROVE TypeOK'
    BY <2>5, LiveSubset, NumbersAssumption DEF Add, Goto, TypeOK, PCs
  <2>6. ASSUME NEW q \in Requests, Fail(q) PROVE TypeOK'
    <3>1. zset' \subseteq Requests /\ expires' \in 0..(MaxTime + Window)
      BY <2>6, KeptSubset, LiveSubset, NumbersAssumption DEF Fail, TypeOK
    <3> QED
      BY <2>6, <3>1 DEF Fail, Goto, TypeOK, PCs
  <2>7. CASE UNCHANGED vars
    BY <2>7 DEF vars, TypeOK
  <2> QED
    BY <2>1, <2>2, <2>3, <2>4, <2>5, <2>6, <2>7 DEF Next
<1> QED
  BY <1>1, <1>2, PTL DEF Spec

(* Nothing is announced to a request whose check has not ended.            *)
NothingAnnounced == \A q \in Requests : pc[q] \in {"new", "checking"} => retry[q] = 0

(* A rejected client that waits a second longer than it was told finds     *)
(* that one of the requests counted against it has left the window.  With  *)
(* a limit of zero a request is rejected by an empty set, and nothing can  *)
(* leave it.                                                               *)
THEOREM RetryCorrect ==
  ASSUME Limit > 0
  PROVE  Spec => RetryWithinASecond
<1>1. Init => NothingAnnounced
  BY DEF Init, NothingAnnounced
<1>2. TypeOK /\ NothingAnnounced /\ [Next]_vars => NothingAnnounced'
  BY DEF TypeOK, NothingAnnounced, Next, vars, Tick, Arrive, Reject, Pass, Add, Fail, Goto
<1>3. TypeOK /\ NothingAnnounced /\ [Next]_vars =>
        [\A q \in Requests : Rejection(q) =>
           \E p \in zset' : at[p] <= at[q] + (retry'[q] + 1) * Unit - Window]_vars
  <2> SUFFICES ASSUME TypeOK, NothingAnnounced, [Next]_vars,
                      NEW q \in Requests, Rejection(q)
               PROVE  \E p \in zset' : at[p] <= at[q] + (retry'[q] + 1) * Unit - Window
    OBVIOUS
  <2>1. Reject(q)
    BY DEF TypeOK, NothingAnnounced, Next, vars, Rejection,
           Tick, Arrive, Reject, Pass, Add, Fail, Goto
  <2>2. zset' = Kept(q) /\ retry'[q] = RetryAfter(q, Kept(q)) /\ Kept(q) # {}
    <3>1. Kept(q) # {}
      <4>1. ~ (Cardinality({}) >= Limit)
        BY FS_EmptySet, NumbersAssumption
      <4> QED
        BY <2>1, <4>1 DEF Reject
    <3> QED
      BY <2>1, <3>1 DEF Reject, TypeOK
  <2>3. at \in [Requests -> Nat] /\ zset \subseteq Requests
    BY NumbersAssumption DEF TypeOK
  <2> QED
    BY <2>2, <2>3, RetryAfterCovers
<1> QED
  BY <1>1, <1>2, <1>3, TypeCorrect, PTL DEF Spec, RetryWithinASecond

-----------------------------------------------------------------------------
(* A step that takes no request inside and adds nothing to the set and to  *)
(* the requests about to enter it.                                         *)
LEMMA NothingEnters ==
  ASSUME SetInv,
         zset' \subseteq Requests, pc' \in [Requests -> PCs],
         Inside' \subseteq Inside,
         (zset \cup Passed)' \subseteq zset \cup Passed
  PROVE  SetInv'
<1>1. Cardinality(Inside') <= Cardinality(Inside)
  BY InsideSubset, Smaller
<1>2. Cardinality((zset \cup Passed)') <= Cardinality(zset \cup Passed)
  BY InsideSubset, Smaller DEF SetInv
<1>3. /\ Inside \subseteq Requests /\ zset \cup Passed \subseteq Requests
      /\ Inside' \subseteq Requests /\ (zset \cup Passed)' \subseteq Requests
  BY InsideSubset DEF SetInv
<1>4. /\ Cardinality(Inside) \in Nat /\ Cardinality(zset \cup Passed) \in Nat
      /\ Cardinality(Inside') \in Nat /\ Cardinality((zset \cup Passed)') \in Nat
  BY <1>3, Finite
<1>5. (Cardinality(Inside) <= InFlight)'
  BY <1>1, <1>4, NumbersAssumption DEF SetInv
<1>6. SetBounded'
  BY <1>2, <1>4, NumbersAssumption DEF SetInv, SetBounded
<1> QED
  BY <1>5, <1>6 DEF SetInv

LEMMA SetInvariant == Spec => []SetInv
<1>1. Init => SetInv
  <2> SUFFICES ASSUME Init PROVE SetInv
    OBVIOUS
  <2>1. Inside = {} /\ zset \cup Passed = {}
    BY DEF Init, Inside, Passed
  <2>2. Cardinality(Inside) = 0 /\ Cardinality(zset \cup Passed) = 0
    BY <2>1, FS_EmptySet
  <2> QED
    BY <2>2, NumbersAssumption DEF Init, SetInv, SetBounded, PCs
<1>2. SetInv /\ [Next]_vars => SetInv'
  <2> SUFFICES ASSUME SetInv, [Next]_vars PROVE SetInv'
    OBVIOUS
  <2>1. CASE Tick
    BY <2>1, NothingEnters DEF Tick, SetInv, Inside, Passed
  <2>2. ASSUME NEW q \in Requests, Arrive(q) PROVE SetInv'
    <3>1. pc' = [pc EXCEPT ![q] = "checking"] /\ zset' = zset
      BY <2>2 DEF Arrive, Goto
    <3>2. pc' \in [Requests -> PCs]
      BY <3>1 DEF SetInv, PCs
    <3>3. Inside' = Inside \cup {q} /\ Passed' \subseteq Passed
      BY <3>1 DEF SetInv, Inside, Passed
    <3>4. Cardinality(Inside') <= Cardinality(Inside) + 1
      BY <3>3, InsideSubset, Finite, FS_AddElement
    <3>5. Cardinality(Inside) \in Nat /\ Cardinality(Inside') \in Nat
      BY <3>3, InsideSubset, Finite
    <3>6. Cardinality(Inside') <= InFlight
      BY <2>2, <3>4, <3>5, NumbersAssumption DEF Arrive
    <3>7. (zset \cup Passed)' \subseteq zset \cup Passed
      BY <3>1, <3>3
    <3>8. zset \cup Passed \subseteq Requests
      BY InsideSubset DEF SetInv
    <3>9. Cardinality((zset \cup Passed)') <= Cardinality(zset \cup Passed)
      BY <3>7, <3>8, Smaller
    <3>10. Cardinality(zset \cup Passed) \in Nat /\ Cardinality((zset \cup Passed)') \in Nat
      BY <3>7, <3>8, Finite
    <3>11. SetBounded'
      BY <3>9, <3>10, NumbersAssumption DEF SetInv, SetBounded
    <3> QED
      BY <3>1, <3>2, <3>6, <3>11 DEF SetInv
  <2>3. ASSUME NEW q \in Requests, Reject(q) PROVE SetInv'
    <3>1. pc' = [pc EXCEPT ![q] = "over"] /\ zset' = Kept(q)
      BY <2>3 DEF Reject, Goto
    <3>2. zset' \subseteq zset
      BY <3>1, KeptSubset
    <3>3. pc' \in [Requests -> PCs] /\ Inside' \subseteq Inside /\ Passed' \subseteq Passed
      BY <3>1 DEF SetInv, PCs, Inside, Passed
    <3> QED
      BY <3>2, <3>3, NothingEnters DEF SetInv
  <2>4. ASSUME NEW q \in Requests, Pass(q) PROVE SetInv'
    <3>1. pc' = [pc EXCEPT ![q] = "passed"] /\ zset' = Kept(q) /\ pc[q] = "checking"
      BY <2>4 DEF Pass, Goto
    <3>2. zset' \subseteq Requests /\ pc' \in [Requests -> PCs]
      BY <3>1, KeptSubset DEF SetInv, PCs
    <3>3. Inside' = Inside
      BY <3>1 DEF SetInv, Inside
    <3>4. IsFiniteSet(zset') /\ IsFiniteSet(Passed') /\ Passed' \subseteq Inside'
      BY <3>2, Finite DEF Passed, Inside
    <3>5. Cardinality(Passed') <= InFlight
      <4>1. Cardinality(Passed') <= Cardinality(Inside)
        BY <3>3, <3>4, InsideSubset, Smaller
      <4>2. Cardinality(Passed') \in Nat /\ Cardinality(Inside) \in Nat
        BY <3>3, <3>4, InsideSubset, Finite, FS_CardinalityType
      <4> QED
        BY <4>1, <4>2, NumbersAssumption DEF SetInv
    <3>6. Cardinality(zset') < Limit
      BY <2>4, <3>1 DEF Pass
    <3>7. Cardinality(zset' \cup Passed') <= Cardinality(zset') + Cardinality(Passed')
      <4>1. Cardinality(zset' \cup Passed')
              = Cardinality(zset') + Cardinality(Passed') - Cardinality(zset' \cap Passed')
        BY <3>4, FS_Union
      <4>2. Cardinality(zset') \in Nat /\ Cardinality(Passed') \in Nat
        BY <3>4, FS_CardinalityType
      <4>3. Cardinality(zset' \cap Passed') \in Nat
        BY <3>2, Finite
      <4> QED
        BY <4>1, <4>2, <4>3
    <3>8. SetBounded'
      <4>1. Cardinality(zset') \in Nat /\ Cardinality(Passed') \in Nat
        BY <3>4, FS_CardinalityType
      <4>2. Cardinality(zset' \cup Passed') \in Nat
        BY <3>4, FS_Union, FS_CardinalityType
      <4> QED
        BY <3>5, <3>6, <3>7, <4>1, <4>2, NumbersAssumption DEF SetBounded
    <3> QED
      BY <3>2, <3>3, <3>8 DEF SetInv
  <2>5. ASSUME NEW q \in Requests, Add(q) PROVE SetInv'
    <3>1. /\ pc[q] = "passed" /\ pc' = [pc EXCEPT ![q] = "over"]
          /\ zset' = Live \cup {q}
      BY <2>5 DEF Add, Goto
    <3>2. pc' \in [Requests -> PCs] /\ Inside' \subseteq Inside /\ Passed' \subseteq Passed
      BY <3>1 DEF SetInv, PCs, Inside, Passed
    <3>3. zset' \subseteq zset \cup Passed
      BY <3>1, LiveSubset DEF Passed
    <3> QED
      BY <3>2, <3>3, InsideSubset, NothingEnters DEF SetInv
  <2>6. ASSUME NEW q \in Requests, Fail(q) PROVE SetInv'
    <3>1. pc' = [pc EXCEPT ![q] = "over"]
      BY <2>6 DEF Fail, Goto
    <3>2. pc' \in [Requests -> PCs] /\ Inside' \subseteq Inside /\ Passed' \subseteq Passed
      BY <3>1 DEF SetInv, PCs, Inside, Passed
    <3>3. zset' \subseteq zset \cup Passed
      BY <2>6, LiveSubset, KeptSubset DEF Fail, Passed
    <3> QED
      BY <3>2, <3>3, InsideSubset, NothingEnters DEF SetInv
  <2>7. CASE UNCHANGED vars
    BY <2>7, NothingEnters DEF vars, SetInv, Inside, Passed
  <2> QED
    BY <2>1, <2>2, <2>3, <2>4, <2>5, <2>6, <2>7 DEF Next
<1> QED
  BY <1>1, <1>2, PTL DEF Spec

(* The sorted set never outgrows the limit by more than the requests that  *)
(* check it at the same time.                                              *)
THEOREM SetBoundedCorrect == Spec => []SetBounded
<1>1. SetInv => SetBounded
  BY DEF SetInv
<1> QED
  BY <1>1, SetInvariant, PTL

-----------------------------------------------------------------------------
(* Requests that overlap.  While the clock is inside the window that       *)
(* begins at t, the requests admitted from it are all in the set, whose    *)
(* size is bounded.  When the clock leaves it the set may forget them, but *)
(* by then only the requests inside can still be admitted with a timestamp *)
(* from the window, and those are few: Counted(t) can no longer grow.      *)

Recent == {p \in admitted : at[p] > clock - Window}

Counted(t) == {q \in admitted \cup Inside : t <= at[q] /\ at[q] < t + Window}

WindowInv ==
  /\ admitted \subseteq Requests
  /\ \A q \in Inside : at[q] <= clock
  /\ \A p \in admitted : pc[p] = "over" /\ at[p] <= clock /\ at[p] + Window <= expires
  /\ Recent \subseteq zset
  /\ \A t \in Nat : clock >= t + Window =>
       Cardinality(Counted(t)) <= Limit + 2 * InFlight - 1

(* Neither expiry nor pruning takes away a recent member.                  *)
LEMMA RecentStays ==
  ASSUME TypeOK, WindowInv
  PROVE  Recent \subseteq Live /\ \A q \in Inside : Recent \subseteq Kept(q)
<1>1. \A p \in Recent : p \in zset /\ clock < expires /\ at[p] > clock - Window
  BY NumbersAssumption DEF TypeOK, WindowInv, Recent
<1>2. \A q \in Inside : at[q] \in Nat /\ at[q] <= clock /\ clock \in Nat
  BY DEF TypeOK, WindowInv, Inside
<1>3. \A p \in Recent : at[p] \in Nat
  BY DEF TypeOK, WindowInv, Recent
<1> QED
  BY <1>1, <1>2, <1>3, NumbersAssumption DEF Kept, Live

(* A step after which the same requests, or fewer, count for each window.  *)
LEMMA CountedShrinks ==
  ASSUME WindowInv, clock' = clock, NEW t \in Nat,
         Counted(t)' \subseteq Counted(t)
  PROVE  clock' >= t + Window => Cardinality(Counted(t)') <= Limit + 2 * InFlight - 1
<1>1. Counted(t) \subseteq Requests
  BY DEF WindowInv, Counted, Inside
<1>2. Cardinality(Counted(t)') <= Cardinality(Counted(t))
  BY <1>1, Smaller
<1>3. Cardinality(Counted(t)') \in Nat /\ Cardinality(Counted(t)) \in Nat
  BY <1>1, Finite
<1> QED
  BY <1>2, <1>3, NumbersAssumption DEF WindowInv

(* A step of a request inside: it stays inside, is admitted or goes away.  *)
LEMMA InsideSteps ==
  ASSUME TypeOK, WindowInv, NEW q \in Inside,
         clock' = clock, at' = at, Inside' \subseteq Inside,
         admitted' = admitted \/ (admitted' = admitted \cup {q} /\ expires' = clock + Window),
         q \in admitted' => pc'[q] = "over",
         \A p \in Requests \ {q} : pc'[p] = pc[p],
         expires' = expires \/ expires' = clock + Window,
         Recent \subseteq zset', admitted' # admitted => q \in zset'
  PROVE  WindowInv'
<1>1. q \in Requests /\ at[q] <= clock /\ at[q] \in Nat
  BY DEF TypeOK, WindowInv, Inside
<1>2. admitted' \subseteq Requests /\ \A p \in Inside' : at'[p] <= clock'
  BY <1>1 DEF WindowInv
<1>3. \A p \in admitted' : pc'[p] = "over" /\ at'[p] <= clock' /\ at'[p] + Window <= expires'
  <2> SUFFICES ASSUME NEW p \in admitted'
               PROVE  pc'[p] = "over" /\ at'[p] <= clock' /\ at'[p] + Window <= expires'
    OBVIOUS
  <2>1. p \in Requests /\ at[p] \in Nat /\ clock \in Nat
    BY <1>2 DEF TypeOK
  <2>2. pc'[p] = "over"
    BY <2>1 DEF WindowInv
  <2>3. CASE p \in admitted
    BY <2>1, <2>2, <2>3, NumbersAssumption DEF WindowInv
  <2>4. CASE p \notin admitted
    BY <1>1, <2>1, <2>2, <2>4, NumbersAssumption
  <2> QED
    BY <2>3, <2>4
<1>4. Recent' \subseteq zset'
  BY DEF Recent
<1>5. \A t \in Nat : Counted(t)' \subseteq Counted(t)
  BY DEF Counted
<1>6. \A t \in Nat : clock' >= t + Window =>
        Cardinality(Counted(t)') <= Limit + 2 * InFlight - 1
  BY <1>5, CountedShrinks
<1> QED
  BY <1>2, <1>3, <1>4, <1>6 DEF WindowInv

(* The clock leaves a window: what the set holds of it, what is about to   *)
(* enter the set and what is inside are all that still count.              *)
LEMMA WindowCloses ==
  ASSUME TypeOK, SetInv, WindowInv, NEW t \in Nat, clock < t + Window
  PROVE  Cardinality(Counted(t)) <= Limit + 2 * InFlight - 1
<1> DEFINE members == zset \cup Passed
<1>1. Counted(t) \subseteq members \cup Inside
  <2> SUFFICES ASSUME NEW p \in admitted, t <= at[p] PROVE p \in zset
    BY DEF Counted
  <2>1. at[p] \in Nat /\ clock \in Nat
    BY DEF TypeOK, WindowInv
  <2>2. p \in Recent
    BY <2>1, NumbersAssumption DEF Recent
  <2> QED
    BY <2>2 DEF WindowInv
<1>2. members \subseteq Requests /\ Inside \subseteq Requests
  BY InsideSubset DEF SetInv
<1>3. Cardinality(Counted(t)) <= Cardinality(members \cup Inside)
  BY <1>1, <1>2, Smaller
<1>4. Cardinality(members \cup Inside)
        = Cardinality(members) + Cardinality(Inside) - Cardinality(members \cap Inside)
  BY <1>2, Finite, FS_Union
<1>5. /\ Cardinality(members) \in Nat /\ Cardinality(Inside) \in Nat
      /\ Cardinality(members \cap Inside) \in Nat
      /\ Cardinality(Counted(t)) \in Nat
  <2>1. members \cap Inside \subseteq Requests /\ Counted(t) \subseteq Requests
    BY <1>1, <1>2
  <2> QED
    BY <1>2, <2>1, Finite
<1>6. Cardinality(members) <= Limit - 1 + InFlight /\ Cardinality(Inside) <= InFlight
  BY DEF SetInv, SetBounded
<1> QED
  BY <1>3, <1>4, <1>5, <1>6, NumbersAssumption

LEMMA WindowInvariant == Spec => []WindowInv
<1>1. Init => WindowInv
  <2> SUFFICES ASSUME Init PROVE WindowInv
    OBVIOUS
  <2>1. Inside = {} /\ Recent = {} /\ \A t \in Nat : Counted(t) = {}
    BY DEF Init, Inside, Recent, Counted
  <2> QED
    BY <2>1, FS_EmptySet, NumbersAssumption DEF Init, WindowInv
<1>2. TypeOK /\ SetInv /\ WindowInv /\ [Next]_vars => WindowInv'
  <2> SUFFICES ASSUME TypeOK, SetInv, WindowInv, [Next]_vars PROVE WindowInv'
    OBVIOUS
  <2>1. CASE Tick
    <3>1. clock' = clock + 1 /\ UNCHANGED <<zset, expires, pc, at, admitted>>
      BY <2>1 DEF Tick
    <3>2. Inside' = Inside /\ \A t \in Nat : Counted(t)' = Counted(t)
      BY <3>1 DEF Inside, Counted
    <3>3. clock \in Nat /\ at \in [Requests -> Nat] /\ admitted \subseteq Requests
      BY NumbersAssumption DEF TypeOK
    <3>4. Recent' \subseteq zset'
      BY <3>1, <3>3, NumbersAssumption DEF WindowInv, Recent
    <3>5. /\ \A q \in Inside' : at'[q] <= clock'
          /\ \A p \in admitted' : /\ pc'[p] = "over" /\ at'[p] <= clock'
                                  /\ at'[p] + Window <= expires'
      BY <3>1, <3>2, <3>3, InsideSubset DEF WindowInv
    <3>6. ASSUME NEW t \in Nat, clock' >= t + Window
          PROVE  Cardinality(Counted(t)') <= Limit + 2 * InFlight - 1
      <4>1. CASE clock >= t + Window
        BY <3>2, <4>1 DEF WindowInv
      <4>2. CASE clock < t + Window
        BY <3>2, <4>2, WindowCloses
      <4> QED
        BY <3>3, <4>1, <4>2, NumbersAssumption
    <3> QED
      BY <3>1, <3>3, <3>4, <3>5, <3>6 DEF WindowInv
  <2>2. ASSUME NEW q \in Requests, Arrive(q) PROVE WindowInv'
    <3>1. /\ pc[q] = "new" /\ pc' = [pc EXCEPT ![q] = "checking"]
          /\ at' = [at EXCEPT ![q] = clock]
          /\ UNCHANGED <<clock, zset, expires, admitted>>
      BY <2>2 DEF Arrive, Goto
    <3>2. q \notin admitted /\ Inside' = Inside \cup {q} /\ clock \in Nat
      BY <3>1 DEF TypeOK, WindowInv, Inside
    <3>3. \A p \in Requests \ {q} : pc'[p] = pc[p] /\ at'[p] = at[p]
      BY <3>1 DEF TypeOK
    <3>4. at'[q] = clock /\ pc'[q] = "checking"
      BY <3>1 DEF TypeOK
    <3>5. Recent' \subseteq zset'
      BY <3>1, <3>2, <3>3 DEF WindowInv, Recent
    <3>6. /\ \A p \in Inside' : at'[p] <= clock'
          /\ \A p \in admitted' : /\ pc'[p] = "over" /\ at'[p] <= clock'
                                  /\ at'[p] + Window <= expires'
      BY <3>1, <3>2, <3>3, <3>4, InsideSubset DEF WindowInv
    <3>7. ASSUME NEW t \in Nat, clock' >= t + Window
          PROVE  Cardinality(Counted(t)') <= Limit + 2 * InFlight - 1
      <4>1. ~ (at'[q] < t + Window)
        BY <3>1, <3>2, <3>4, <3>7, NumbersAssumption
      <4>2. Counted(t)' \subseteq Counted(t)
        BY <3>1, <3>2, <3>3, <4>1, InsideSubset DEF WindowInv, Counted
      <4> QED
        BY <3>1, <3>7, <4>2, CountedShrinks
    <3> QED
      BY <3>1, <3>5, <3>6, <3>7 DEF WindowInv
  <2>3. ASSUME NEW q \in Requests, Reject(q) PROVE WindowInv'
    <3>1. q \in Inside /\ zset' = Kept(q) /\ pc' = [pc EXCEPT ![q] = "over"]
          /\ UNCHANGED <<clock, expires, at, admitted>>
      BY <2>3 DEF Reject, Goto, Inside
    <3>2. Recent \subseteq zset'
      BY <3>1, RecentStays
    <3>3. Inside' \subseteq Inside /\ pc'[q] = "over" /\ \A p \in Requests \ {q} : pc'[p] = pc[p]
      BY <3>1 DEF TypeOK, Inside
    <3> QED
      BY <3>1, <3>2, <3>3, InsideSteps
  <2>4. ASSUME NEW q \in Requests, Pass(q) PROVE WindowInv'
    <3>1. q \in Inside /\ zset' = Kept(q) /\ pc' = [pc EXCEPT ![q] = "passed"]
          /\ UNCHANGED <<clock, expires, at, admitted>>
      BY <2>4 DEF Pass, Goto, Inside
    <3>2. Recent \subseteq zset' /\ q \notin admitted
      BY <2>4, <3>1, RecentStays DEF Pass, WindowInv
    <3>3. Inside' \subseteq Inside /\ \A p \in Requests \ {q} : pc'[p] = pc[p]
      BY <3>1 DEF TypeOK, Inside
    <3> QED
      BY <3>1, <3>2, <3>3, InsideSteps
  <2>5. ASSUME NEW q \in Requests, Add(q) PROVE WindowInv'
    <3>1. /\ q \in Inside /\ zset' = Live \cup {q} /\ pc' = [pc EXCEPT ![q] = "over"]
          /\ expires' = clock + Window /\ admitted' = admitted \cup {q}
          /\ UNCHANGED <<clock, at>>
      BY <2>5 DEF Add, Goto, Inside
    <3>2. Recent \subseteq zset' /\ q \in zset'
      BY <3>1, RecentStays
    <3>3. Inside' \subseteq Inside /\ pc'[q] = "over" /\ \A p \in Requests \ {q} : pc'[p] = pc[p]
      BY <3>1 DEF TypeOK, Inside
    <3> QED
      BY <3>1, <3>2, <3>3, InsideSteps
  <2>6. ASSUME NEW q \in Requests, Fail(q) PROVE WindowInv'
    <3>1. q \in Inside /\ pc' = [pc EXCEPT ![q] = "over"] /\ UNCHANGED <<clock, at, admitted>>
      BY <2>6 DEF Fail, Goto, Inside
    <3>2. zset' \in {zset, Kept(q), Live \cup {q}} /\ expires' \in {expires, clock + Window}
      BY <2>6 DEF Fail
    <3>3. Recent \subseteq zset'
      BY <3>1, <3>2, RecentStays DEF WindowInv
    <3>4. Inside' \subseteq Inside /\ pc'[q] = "over" /\ \A p \in Requests \ {q} : pc'[p] = pc[p]
      BY <3>1 DEF TypeOK, Inside
    <3> QED
      BY <3>1, <3>2, <3>3, <3>4, InsideSteps
  <2>7. CASE UNCHANGED vars
    BY <2>7 DEF vars, WindowInv, Inside, Recent, Counted
  <2> QED
    BY <2>1, <2>2, <2>3, <2>4, <2>5, <2>6, <2>7 DEF Next
<1> QED
  BY <1>1, <1>2, TypeCorrect, SetInvariant, PTL DEF Spec

(* However many requests overlap and whatever fails, the admissions from   *)
(* any one window exceed the limit by less than two rounds of overlapping  *)
(* requests.                                                               *)
THEOREM WindowBoundedCorrect == Spec => []WindowBounded
<1>1. TypeOK /\ SetInv /\ WindowInv => WindowBounded
  <2> SUFFICES ASSUME TypeOK, SetInv, WindowInv, NEW t \in 0..MaxTime
               PROVE  Cardinality(AdmittedFrom(t)) <= Limit + 2 * InFlight - 1
    BY DEF WindowBounded
  <2>1. t \in Nat /\ clock \in Nat
    BY NumbersAssumption DEF TypeOK
  <2>2. Cardinality(Counted(t)) <= Limit + 2 * InFlight - 1
    <3>1. CASE clock >= t + Window
      BY <2>1, <3>1 DEF WindowInv
    <3>2. CASE clock < t + Window
      BY <2>1, <3>2, WindowCloses
    <3> QED
      BY <2>1, <3>1, <3>2, NumbersAssumption
  <2>3. AdmittedFrom(t) \subseteq Counted(t) /\ Counted(t) \subseteq Requests
    BY DEF WindowInv, AdmittedFrom, Counted, Inside
  <2>4. Cardinality(AdmittedFrom(t)) <= Cardinality(Counted(t))
    BY <2>3, Smaller
  <2>5. Cardinality(AdmittedFrom(t)) \in Nat /\ Cardinality(Counted(t)) \in Nat
    BY <2>3, Finite
  <2> QED
    BY <2>2, <2>4, <2>5, NumbersAssumption
<1> QED
  BY <1>1, TypeCorrect, SetInvariant, WindowInvariant, PTL

=============================================================================
