------------------------------ MODULE HealthProofs ------------------------------
(***************************************************************************)
(* Proofs about CircuitBreaker, for any number of callers and any          *)
(* thresholds, and about Health, for any number of workers and requests.   *)
(* BreakerInv is the inductive invariant: the counters and the state of    *)
(* the breaker say the same thing, and the probes in flight plus the one   *)
(* beforeCall would admit now are one more than the strays.  Every step of *)
(* Health is a step of the breaker or leaves it alone, so that what is     *)
(* proved of the breaker holds behind the health check too.                *)
(* HealthInv counts, while the breaker is open, the times to live in which *)
(* a good result was served and the checks that may still store one: both  *)
(* together never exceed what there was when it opened.                    *)
(***************************************************************************)
EXTENDS Health, FiniteSetTheorems, TLAPS

-----------------------------------------------------------------------------
(* The breaker. *)

\* Admitting or ending a probe changes the number of probes by at most one.
LEMMA ProbeCount ==
  ASSUME probes \in SUBSET Callers, NEW c \in Callers
  PROVE  /\ Cardinality(probes) \in Nat
         /\ Cardinality(probes \union {c}) \in Nat
         /\ Cardinality(probes \union {c}) <= Cardinality(probes) + 1
         /\ Cardinality(probes \ {c}) \in Nat
         /\ c \in probes => Cardinality(probes \ {c}) = Cardinality(probes) - 1
         /\ c \notin probes => Cardinality(probes \ {c}) = Cardinality(probes)
<1>1. IsFiniteSet(probes)
  BY BreakerAssumption, FS_Subset
<1>2. Cardinality(probes) \in Nat
  BY <1>1, FS_CardinalityType
<1>3. /\ IsFiniteSet(probes \union {c})
      /\ Cardinality(probes \union {c}) <= Cardinality(probes) + 1
  <2>1. /\ IsFiniteSet(probes \union {c})
        /\ Cardinality(probes \union {c}) =
             IF c \in probes THEN Cardinality(probes) ELSE Cardinality(probes) + 1
    BY <1>1, FS_AddElement, Zenon
  <2> QED
    BY <1>2, <2>1
<1>4. /\ IsFiniteSet(probes \ {c})
      /\ c \in probes => Cardinality(probes \ {c}) = Cardinality(probes) - 1
      /\ c \notin probes => Cardinality(probes \ {c}) = Cardinality(probes)
  BY <1>1, <1>2, FS_RemoveElement
<1>5. Cardinality(probes \union {c}) \in Nat /\ Cardinality(probes \ {c}) \in Nat
  BY <1>3, <1>4, FS_CardinalityType
<1> QED
  BY <1>2, <1>3, <1>4, <1>5

\* The breaker starts in the invariant.
LEMMA InitInv == Init => BreakerInv
<1> SUFFICES ASSUME Init PROVE BreakerInv
  OBVIOUS
<1>1. TypeOK
  <2>1. halfInFlight \in BOOLEAN /\ elapsed \in BOOLEAN
    BY DEF Init
  <2>2. failures \in 0 .. FailureThreshold /\ successes \in 0 .. SuccessThreshold
    BY BreakerAssumption DEF Init
  <2>3. /\ state \in {"closed", "open", "halfOpen"}
        /\ call \in [Callers -> {"idle", "calling", "refused"}]
        /\ probes \in SUBSET Callers
        /\ strays \in Nat
    BY DEF Init
  <2> QED
    BY <2>1, <2>2, <2>3 DEF TypeOK
<1>2. CountersMatchState /\ ProbeBudget
  BY BreakerAssumption DEF Init, CountersMatchState, ProbeBudget
<1>3. ProbesInFlight
  <2>1. ~halfInFlight /\ probes = {}
    BY DEF Init
  <2> QED
    BY <2>1 DEF ProbesInFlight
<1> QED
  BY <1>1, <1>2, <1>3 DEF BreakerInv

\* beforeCall preserves the invariant.
LEMMA BeforeCallInv ==
  ASSUME BreakerInv, NEW c \in Callers, BeforeCall(c)
  PROVE  BreakerInv'
<1> USE DEF BreakerInv, breakerVars, historyVars, MayCall
<1>1. CASE AdmitClosed(c)
  BY <1>1, BreakerAssumption
     DEF AdmitClosed, TypeOK, CountersMatchState, ProbesInFlight, ProbeBudget, Admissible
<1>2. CASE AdmitAfterTimeout(c)
  <2>1. TypeOK' /\ CountersMatchState' /\ ProbesInFlight'
    BY <1>2, BreakerAssumption
       DEF AdmitAfterTimeout, TypeOK, CountersMatchState, ProbesInFlight
  <2>2. Cardinality(probes') = 1 /\ halfInFlight' /\ strays' = 0
    BY <1>2, FS_Singleton DEF AdmitAfterTimeout
  <2> QED
    BY <2>1, <2>2 DEF ProbeBudget, Admissible
<1>3. CASE AdmitProbe(c)
  <2>1. TypeOK' /\ CountersMatchState' /\ ProbesInFlight'
    BY <1>3, BreakerAssumption
       DEF AdmitProbe, TypeOK, CountersMatchState, ProbesInFlight
  <2>2. Cardinality(probes) + 1 <= 1 + strays /\ strays \in Nat
    BY <1>3 DEF AdmitProbe, ProbeBudget, Admissible, TypeOK
  <2>3. /\ Cardinality(probes) \in Nat /\ Cardinality(probes') \in Nat
        /\ Cardinality(probes') <= Cardinality(probes) + 1
        /\ halfInFlight' /\ strays' = strays
    BY <1>3, ProbeCount DEF AdmitProbe, TypeOK
  <2> QED
    BY <2>1, <2>2, <2>3 DEF ProbeBudget, Admissible
<1>4. CASE Refuse(c)
  BY <1>4, BreakerAssumption
     DEF Refuse, TypeOK, CountersMatchState, ProbesInFlight, ProbeBudget, Admissible
<1> QED
  BY <1>1, <1>2, <1>3, <1>4 DEF BeforeCall

\* A call that returns while the breaker stays half-open leaves the budget of
\* probes as it is: it ends a probe or it is a stray.
LEMMA CountReturnBudget ==
  ASSUME TypeOK, ProbeBudget, state = "halfOpen", NEW c \in Callers,
         CountReturn(c), ~halfInFlight'
  PROVE  ProbeBudget' /\ strays' \in Nat /\ probes' \in SUBSET Callers
<1>1. Cardinality(probes) <= 1 + strays /\ strays \in Nat
  <2>1. Cardinality(probes) \in Nat /\ Admissible \in {0, 1} /\ strays \in Nat
    BY ProbeCount DEF TypeOK, Admissible
  <2>2. Cardinality(probes) + Admissible <= 1 + strays
    BY DEF ProbeBudget
  <2> QED
    BY <2>1, <2>2
<1>2. CASE c \in probes
  <2>1. /\ Cardinality(probes) \in Nat
        /\ Cardinality(probes') = Cardinality(probes) - 1
        /\ strays' = strays
    BY <1>2, ProbeCount DEF CountReturn, TypeOK
  <2> QED
    BY <1>1, <2>1 DEF ProbeBudget, Admissible, CountReturn, TypeOK
<1>3. CASE c \notin probes
  <2>1. /\ Cardinality(probes) \in Nat
        /\ Cardinality(probes') = Cardinality(probes)
        /\ strays' = strays + 1
    BY <1>3, ProbeCount DEF CountReturn, TypeOK
  <2> QED
    BY <1>1, <2>1 DEF ProbeBudget, Admissible, CountReturn, TypeOK
<1> QED
  BY <1>2, <1>3

\* Once a call has returned no probe is marked in flight.
LEMMA AfterCallFlags ==
  ASSUME TypeOK, ProbesInFlight, NEW c \in Callers, NEW outcome \in Outcomes,
         AfterCall(c, outcome)
  PROVE  ~halfInFlight' /\ halfInFlight' \in BOOLEAN /\ elapsed' \in BOOLEAN
<1> USE DEF breakerVars, historyVars
<1>1. CASE ReturnOkClosed
  BY <1>1 DEF ReturnOkClosed, TypeOK, ProbesInFlight
<1>2. CASE ReturnOkHalfOpen(c)
  BY <1>2 DEF ReturnOkHalfOpen, TypeOK
<1>3. CASE ReturnFailureClosed
  BY <1>3 DEF ReturnFailureClosed, Trip, TypeOK, ProbesInFlight
<1>4. CASE ReturnFailureHalfOpen
  BY <1>4 DEF ReturnFailureHalfOpen, Trip
<1>5. CASE ReturnOtherHalfOpen(c)
  BY <1>5 DEF ReturnOtherHalfOpen, TypeOK
<1>6. CASE ReturnIgnored(outcome)
  BY <1>6 DEF ReturnIgnored, TypeOK, ProbesInFlight
<1> QED
  BY <1>1, <1>2, <1>3, <1>4, <1>5, <1>6 DEF AfterCall

\* afterCall keeps the counters within their types and true to the state.
LEMMA AfterCallCounters ==
  ASSUME BreakerInv, NEW c \in Callers, NEW outcome \in Outcomes,
         AfterCall(c, outcome)
  PROVE  /\ state' \in {"closed", "open", "halfOpen"}
         /\ failures' \in 0 .. FailureThreshold
         /\ successes' \in 0 .. SuccessThreshold
         /\ CountersMatchState'
<1> USE BreakerAssumption
    DEF BreakerInv, breakerVars, TypeOK, CountersMatchState
<1>1. CASE ReturnOkClosed
  BY <1>1 DEF ReturnOkClosed
<1>2. CASE ReturnOkHalfOpen(c)
  BY <1>2 DEF ReturnOkHalfOpen
<1>3. CASE ReturnFailureClosed
  <2>1. failures + 1 >= FailureThreshold => failures + 1 = FailureThreshold
    BY <1>3 DEF ReturnFailureClosed
  <2> QED
    BY <1>3, <2>1 DEF ReturnFailureClosed, Trip
<1>4. CASE ReturnFailureHalfOpen
  BY <1>4 DEF ReturnFailureHalfOpen, Trip
<1>5. CASE ReturnOtherHalfOpen(c)
  BY <1>5 DEF ReturnOtherHalfOpen
<1>6. CASE ReturnIgnored(outcome)
  BY <1>6 DEF ReturnIgnored
<1> QED
  BY <1>1, <1>2, <1>3, <1>4, <1>5, <1>6 DEF AfterCall

\* afterCall keeps the account of the probes.
LEMMA AfterCallProbes ==
  ASSUME BreakerInv, NEW c \in Callers, NEW outcome \in Outcomes,
         AfterCall(c, outcome)
  PROVE  /\ ProbeBudget' /\ strays' \in Nat /\ probes' \in SUBSET Callers
         /\ \A d \in probes' : d \in probes /\ d # c
         /\ state' # "halfOpen" => probes' = {}
<1> USE DEF historyVars
<1>0. TypeOK /\ ProbesInFlight /\ ProbeBudget /\ ~halfInFlight' /\ call[c] = "calling"
  BY AfterCallFlags DEF BreakerInv, AfterCall
<1>a. CASE state = "halfOpen" /\ state' = "halfOpen" /\ CountReturn(c)
  <2>1. ProbeBudget' /\ strays' \in Nat /\ probes' \in SUBSET Callers
    BY <1>0, <1>a, CountReturnBudget
  <2> QED
    BY <1>a, <2>1 DEF CountReturn
<1>b. CASE state' # "halfOpen" /\ NoPeriod
  BY <1>b DEF NoPeriod, ProbeBudget
<1>c. CASE state # "halfOpen" /\ state' = state /\ UNCHANGED historyVars
  BY <1>0, <1>c DEF TypeOK, ProbesInFlight, ProbeBudget
<1>1. CASE ReturnOkClosed
  BY <1>1, <1>c DEF ReturnOkClosed
<1>2. CASE ReturnOkHalfOpen(c)
  BY <1>2, <1>a, <1>b DEF ReturnOkHalfOpen
<1>3. CASE ReturnFailureClosed
  BY <1>3, <1>b, <1>c DEF ReturnFailureClosed, Trip
<1>4. CASE ReturnFailureHalfOpen
  BY <1>4, <1>b DEF ReturnFailureHalfOpen, Trip
<1>5. CASE ReturnOtherHalfOpen(c)
  BY <1>5, <1>a DEF ReturnOtherHalfOpen
<1>6. CASE ReturnIgnored(outcome)
  BY <1>6, <1>c DEF ReturnIgnored, breakerVars
<1> QED
  BY <1>1, <1>2, <1>3, <1>4, <1>5, <1>6 DEF AfterCall

\* afterCall preserves the invariant.
LEMMA AfterCallInv ==
  ASSUME BreakerInv, NEW c \in Callers, NEW outcome \in Outcomes,
         AfterCall(c, outcome)
  PROVE  BreakerInv'
<1>1. call' = [call EXCEPT ![c] = "idle"]
  BY DEF AfterCall
<1>2. ~halfInFlight' /\ halfInFlight' \in BOOLEAN /\ elapsed' \in BOOLEAN
  BY AfterCallFlags DEF BreakerInv
<1>3. /\ call' \in [Callers -> {"idle", "calling", "refused"}]
      /\ \A d \in probes' : call'[d] = "calling"
  BY <1>1, AfterCallProbes DEF BreakerInv, TypeOK, ProbesInFlight
<1>4. TypeOK'
  BY <1>2, <1>3, AfterCallCounters, AfterCallProbes DEF TypeOK
<1>5. ProbesInFlight'
  BY <1>2, <1>3, AfterCallProbes DEF ProbesInFlight
<1> QED
  BY <1>4, <1>5, AfterCallCounters, AfterCallProbes DEF BreakerInv

\* Every step preserves the invariant.
LEMMA NextInv == BreakerInv /\ [Next]_vars => BreakerInv'
<1> SUFFICES ASSUME BreakerInv, [Next]_vars PROVE BreakerInv'
  OBVIOUS
<1>1. CASE Elapse
  BY <1>1 DEF Elapse, historyVars, BreakerInv, TypeOK, CountersMatchState,
              ProbesInFlight, ProbeBudget, Admissible
<1>2. CASE UNCHANGED vars
  BY <1>2 DEF vars, breakerVars, historyVars, BreakerInv, TypeOK,
              CountersMatchState, ProbesInFlight, ProbeBudget, Admissible
<1> QED
  BY <1>1, <1>2, BeforeCallInv, AfterCallInv DEF Next

LEMMA Invariance == Spec => []BreakerInv
  BY InitInv, NextInv, PTL DEF Spec

\* The counters stay within their thresholds and a probe is a caller.
THEOREM BreakerTypeCorrect == Spec => []TypeOK
<1>1. BreakerInv => TypeOK
  BY DEF BreakerInv
<1> QED
  BY <1>1, Invariance, PTL

\* The mark of a probe in flight always belongs to a call that will clear it:
\* beforeCall cannot refuse calls on account of a call that is over.
THEOREM ProbeAlwaysAccounted == Spec => []ProbeAccounted
<1>1. BreakerInv => ProbeAccounted
  BY DEF BreakerInv, ProbesInFlight, ProbeAccounted
<1> QED
  BY <1>1, Invariance, PTL

\* Whatever the order in which calls return, the counters agree with the state.
THEOREM CountersAlwaysMatch == Spec => []CountersMatchState
<1>1. BreakerInv => CountersMatchState
  BY DEF BreakerInv
<1> QED
  BY <1>1, Invariance, PTL

\* In half-open, more than one probe is in flight only on account of the calls
\* admitted before that have returned since: each admits at most one more.
THEOREM ProbesAlwaysBounded == Spec => []ProbesBounded
<1>1. BreakerInv => ProbesBounded
  <2> SUFFICES ASSUME BreakerInv PROVE ProbesBounded
    OBVIOUS
  <2>1. IsFiniteSet(probes) /\ strays \in Nat
    BY BreakerAssumption, FS_Subset DEF BreakerInv, TypeOK
  <2>2. CASE state = "halfOpen"
    BY <2>1, <2>2, FS_CardinalityType
       DEF BreakerInv, ProbeBudget, Admissible, ProbesBounded
  <2>3. CASE state # "halfOpen"
    BY <2>1, <2>3, FS_EmptySet DEF BreakerInv, ProbesInFlight, ProbesBounded
  <2> QED
    BY <2>2, <2>3
<1> QED
  BY <1>1, Invariance, PTL

-----------------------------------------------------------------------------
(* The health check in front of it. *)

\* The calls that posts and workers make are calls of the breaker.
LEMMA StepsOfTheBreaker == [HealthNext]_allVars => [Next]_vars
<1> SUFFICES ASSUME [HealthNext]_allVars PROVE [Next]_vars
  OBVIOUS
<1>1. ASSUME NEW c \in Callers, BeforeCall(c) PROVE Next
  BY <1>1 DEF Next
<1>2. ASSUME NEW c \in Callers, NEW outcome \in Outcomes, AfterCall(c, outcome)
      PROVE  Next
  BY <1>2 DEF Next
<1>3. CASE Elapse
  BY <1>3 DEF Next
<1>4. CASE Expire
  BY <1>4 DEF Expire
<1>5. ASSUME NEW h \in Posts, AnswerFromCache(h) \/ StartCheck(h) \/ Check(h)
      PROVE  [Next]_vars
  <2>1. h \in Callers
    BY HealthAssumption
  <2>2. CASE AskGateway(h)
    BY <1>1, <2>1, <2>2 DEF AskGateway
  <2>3. CASE GatewayAnswers(h)
    BY <1>2, <2>1, <2>3 DEF GatewayAnswers, Outcomes
  <2>4. CASE \E outcome \in Outcomes : GatewayMissed(h, outcome)
    BY <1>2, <2>1, <2>4 DEF GatewayMissed
  <2>5. CASE AnswerFromCache(h) \/ StartCheck(h) \/ StoreResult(h) \/ TurnAway(h) \/ LetIn(h)
    BY <2>5 DEF AnswerFromCache, StartCheck, StoreResult, TurnAway, LetIn
  <2> QED
    BY <1>5, <2>2, <2>3, <2>4, <2>5 DEF Check
<1>6. ASSUME NEW w \in Workers, Worker(w) PROVE [Next]_vars
  BY <1>1, <1>2, <1>6, HealthAssumption DEF Worker, WorkerCalls, WorkerReturns
<1>7. CASE UNCHANGED allVars
  BY <1>7 DEF allVars
<1> QED
  BY <1>3, <1>4, <1>5, <1>6, <1>7 DEF HealthNext

\* The breaker behind the health check behaves as CircuitBreaker says, with the
\* workers and the posts as its callers.
THEOREM HealthImplementsBreaker == HealthSpec => Spec
<1>1. HealthInit => Init
  BY DEF HealthInit
<1> QED
  BY <1>1, StepsOfTheBreaker, PTL DEF HealthSpec, Spec

\* Posts that ask the gateway alongside the workers cannot leave the mark of a
\* probe behind, nor get the counters out of step with the state, nor let more
\* probes through than there were strays.
THEOREM BreakerSafeBehindHealth ==
  HealthSpec => [](TypeOK /\ ProbeAccounted /\ CountersMatchState /\ ProbesBounded)
  BY HealthImplementsBreaker, BreakerTypeCorrect, ProbeAlwaysAccounted,
     CountersAlwaysMatch, ProbesAlwaysBounded, PTL

-----------------------------------------------------------------------------
(* How long payments are let in once the breaker has opened. *)

\* Sets of posts are finite, and counting them is what it seems.
LEMMA PostsCount ==
  ASSUME NEW S \in SUBSET Posts
  PROVE  /\ Cardinality(S) \in Nat
         /\ \A T \in SUBSET S : Cardinality(T) \in Nat /\ Cardinality(T) <= Cardinality(S)
         /\ \A h \in S : Cardinality(S \ {h}) = Cardinality(S) - 1
<1>1. IsFiniteSet(S)
  BY BreakerAssumption, HealthAssumption, FS_Subset
<1>2. Cardinality(S) \in Nat
  BY <1>1, FS_CardinalityType
<1>3. ASSUME NEW T \in SUBSET S
      PROVE  Cardinality(T) \in Nat /\ Cardinality(T) <= Cardinality(S)
  BY <1>1, FS_Subset, FS_CardinalityType
<1>4. ASSUME NEW h \in S PROVE Cardinality(S \ {h}) = Cardinality(S) - 1
  BY <1>1, FS_RemoveElement
<1> QED
  BY <1>2, <1>3, <1>4

\* A call that is made in the open breaker and leaves it open was refused; any other
\* call made is admitted.
LEMMA CallsMade ==
  ASSUME TypeOK, NEW c \in Callers, BeforeCall(c)
  PROVE  /\ call[c] # "calling"
         /\ \/ call' = [call EXCEPT ![c] = "calling"] /\ state' # "open"
            \/ call' = [call EXCEPT ![c] = "refused"] /\ state' = state
  BY DEF BeforeCall, AdmitClosed, AdmitAfterTimeout, AdmitProbe, Refuse, MayCall, breakerVars

\* A step of a call keeps the account of the open breaker, for it adds no check to those
\* under way while the breaker is open.
LEMMA OpeningCounted ==
  ASSUME HealthInv, CountOpening, UNCHANGED <<fresh, lastOK>>,
         state = "open" /\ state' = "open" => Pending' \subseteq Pending
  PROVE  PeriodBudget' /\ underWay' \in Nat /\ periods' \in Nat
<1>1. /\ Pending \in SUBSET Posts /\ Pending' \in SUBSET Posts
      /\ Cardinality(Pending) \in Nat /\ Cardinality(Pending') \in Nat
  <2>1. Pending \in SUBSET Posts /\ Pending' \in SUBSET Posts
    BY DEF Pending
  <2> QED
    BY <2>1, PostsCount
<1>2. underWay \in Nat /\ periods \in Nat
  BY DEF HealthInv, HealthTypeOK, CheckTypeOK
<1>3. CASE state' # "open"
  BY <1>3 DEF CountOpening, PeriodBudget
<1>4. CASE state' = "open" /\ state = "open"
  <2>1. Cardinality(Pending') <= Cardinality(Pending)
    BY <1>1, <1>4, PostsCount
  <2>2. periods' = periods /\ underWay' = underWay
    BY <1>4 DEF CountOpening
  <2>3. periods + Cardinality(Pending) <= 1 + underWay /\ (fresh /\ lastOK => periods > 0)
    BY <1>4 DEF HealthInv, PeriodBudget
  <2> QED
    BY <1>1, <1>2, <1>4, <2>1, <2>2, <2>3 DEF PeriodBudget
<1>5. CASE state' = "open" /\ state # "open"
  <2>1. underWay' = Cardinality(Pending') /\ periods' = IF fresh /\ lastOK THEN 1 ELSE 0
    BY <1>5 DEF CountOpening
  <2> QED
    BY <1>1, <1>5, <2>1 DEF PeriodBudget
<1> QED
  BY <1>3, <1>4, <1>5

\* A step that leaves the breaker alone, adds no check to those under way and stores
\* nothing keeps the account too.
LEMMA OpeningKept ==
  ASSUME HealthInv, UNCHANGED <<state, openVars>>, Pending' \subseteq Pending,
         fresh' /\ lastOK' => fresh /\ lastOK
  PROVE  PeriodBudget'
<1>1. Cardinality(Pending) \in Nat /\ Cardinality(Pending') \in Nat
      /\ Cardinality(Pending') <= Cardinality(Pending)
  <2>1. Pending \in SUBSET Posts
    BY DEF Pending
  <2> QED
    BY <2>1, PostsCount
<1>2. underWay \in Nat /\ periods \in Nat
  BY DEF HealthInv, HealthTypeOK, CheckTypeOK
<1> QED
  BY <1>1, <1>2 DEF HealthInv, PeriodBudget, openVars

\* A result that is stored is no longer under way: a good one opens a time to live for
\* the check it came from.
LEMMA StoringCounted ==
  ASSUME HealthInv, NEW h \in Posts, StoreResult(h)
  PROVE  PeriodBudget' /\ AsksInCheck' /\ periods' \in Nat
<1>1. /\ underWay \in Nat /\ periods \in Nat /\ underWay' = underWay
      /\ state' = state /\ call' = call
      /\ check \in [Posts -> {"idle", "asking", "good", "bad", "up", "down"}]
      /\ check[h] \in {"good", "bad"} /\ call[h] # "calling"
      /\ check' = [check EXCEPT ![h] = Verdict(check[h] = "good")]
  BY DEF HealthInv, HealthTypeOK, CheckTypeOK, AsksInCheck, StoreResult, Goto, vars, breakerVars
<1>2. check'[h] \in {"up", "down"} /\ \A g \in Posts \ {h} : check'[g] = check[g]
  BY <1>1 DEF Verdict
<1>3. AsksInCheck'
  BY <1>1, <1>2 DEF HealthInv, AsksInCheck
<1>4. Pending \in SUBSET Posts /\ Pending' = Pending \ {h}
  BY <1>1, <1>2 DEF Pending
<1>5. Cardinality(Pending) \in Nat /\ Cardinality(Pending') \in Nat
      /\ Cardinality(Pending') <= Cardinality(Pending)
  BY <1>4, PostsCount
<1>6. CASE check[h] = "good"
  <2>1. Cardinality(Pending') = Cardinality(Pending) - 1
    <3>1. h \in Pending
      BY <1>6 DEF Pending
    <3> QED
      BY <1>4, <3>1, PostsCount
  <2>2. periods' = IF state = "open" THEN periods + 1 ELSE periods
    BY <1>6 DEF StoreResult, CountPeriod
  <2> QED
    BY <1>1, <1>3, <1>5, <2>1, <2>2 DEF HealthInv, PeriodBudget
<1>7. CASE check[h] # "good"
  <2>1. periods' = periods /\ ~lastOK'
    BY <1>7 DEF StoreResult, CountPeriod
  <2> QED
    BY <1>1, <1>3, <1>5, <2>1 DEF HealthInv, PeriodBudget
<1> QED
  BY <1>6, <1>7

\* A check goes on without calling the gateway.
LEMMA CheckMoves ==
  ASSUME HealthInv, NEW h \in Posts, call' = call, call[h] # "calling",
         NEW at \in {"idle", "asking", "bad", "up", "down"}, Goto(h, at)
  PROVE  AsksInCheck' /\ Pending' \subseteq Pending
<1>1. /\ check \in [Posts -> {"idle", "asking", "good", "bad", "up", "down"}]
      /\ check' = [check EXCEPT ![h] = at]
  BY DEF HealthInv, HealthTypeOK, CheckTypeOK, Goto
<1> QED
  BY <1>1 DEF HealthInv, AsksInCheck, Pending

\* Every step keeps the progress of each check, the cached result and the workers'
\* budget within their types.
LEMMA StepCheckType == HealthTypeOK /\ [HealthNext]_allVars => CheckTypeOK'
<1> SUFFICES ASSUME CheckTypeOK, [HealthNext]_allVars PROVE CheckTypeOK'
  BY DEF HealthTypeOK
<1> USE HealthAssumption DEF CheckTypeOK
<1>1. CASE UNCHANGED healthVars
  BY <1>1 DEF healthVars
<1>2. CASE Expire
  BY <1>2 DEF Expire
<1>3. ASSUME NEW h \in Posts,
             NEW at \in {"idle", "asking", "good", "bad", "up", "down"}, Goto(h, at)
      PROVE  check' \in [Posts -> {"idle", "asking", "good", "bad", "up", "down"}]
  BY <1>3 DEF Goto
<1>4. \A ok \in BOOLEAN : Verdict(ok) \in {"up", "down"}
  BY DEF Verdict
<1>5. ASSUME NEW h \in Posts, AnswerFromCache(h) \/ StartCheck(h) \/ Check(h)
      PROVE  CheckTypeOK'
  <2>1. CASE AnswerFromCache(h)
    BY <1>3, <1>4, <2>1 DEF AnswerFromCache
  <2>2. CASE StartCheck(h) \/ TurnAway(h)
    BY <1>3, <2>2 DEF StartCheck, TurnAway
  <2>3. CASE AskGateway(h)
    <3>1. check' \in [Posts -> {"idle", "asking", "good", "bad", "up", "down"}]
      BY <1>3, <2>3 DEF AskGateway
    <3> QED
      BY <2>3, <3>1 DEF AskGateway
  <2>4. CASE GatewayAnswers(h)
    BY <1>3, <2>4 DEF GatewayAnswers
  <2>5. CASE \E outcome \in Outcomes : GatewayMissed(h, outcome)
    BY <1>3, <2>5 DEF GatewayMissed
  <2>6. CASE StoreResult(h)
    <3>0. \A x, y : (x = y) \in BOOLEAN
      OBVIOUS
    <3>1. lastOK' \in BOOLEAN /\ fresh' \in BOOLEAN
      BY <2>6, <3>0 DEF StoreResult
    <3>2. check' \in [Posts -> {"idle", "asking", "good", "bad", "up", "down"}]
      BY <1>3, <1>4, <2>6 DEF StoreResult
    <3> QED
      BY <2>6, <3>1, <3>2 DEF StoreResult
  <2>7. CASE LetIn(h)
    BY <1>3, <2>7 DEF LetIn
  <2> QED
    BY <1>5, <2>1, <2>2, <2>3, <2>4, <2>5, <2>6, <2>7 DEF Check
<1>6. ASSUME NEW w \in Workers, Worker(w) PROVE CheckTypeOK'
  BY <1>1, <1>6 DEF Worker, WorkerCalls, WorkerReturns
<1> QED
  BY <1>1, <1>2, <1>5, <1>6 DEF HealthNext, allVars

\* The steps of a check keep the account, and a POST calls the gateway only in one.
LEMMA CheckCounted ==
  ASSUME HealthInv, NEW h \in Posts, AnswerFromCache(h) \/ StartCheck(h) \/ Check(h)
  PROVE  AsksInCheck' /\ PeriodBudget' /\ underWay' \in Nat /\ periods' \in Nat
<1> USE HealthAssumption
<1>0. /\ h \in Callers /\ underWay \in Nat /\ periods \in Nat
      /\ check \in [Posts -> {"idle", "asking", "good", "bad", "up", "down"}]
      /\ call \in [Callers -> {"idle", "calling", "refused"}]
      /\ call[h] = "calling" => check[h] = "asking"
  BY DEF HealthInv, HealthTypeOK, CheckTypeOK, TypeOK, AsksInCheck
<1>1. CASE AnswerFromCache(h) \/ StartCheck(h) \/ TurnAway(h) \/ LetIn(h)
  <2>1. /\ UNCHANGED <<state, openVars>> /\ call' = call /\ call[h] # "calling"
        /\ UNCHANGED <<fresh, lastOK>>
    BY <1>0, <1>1 DEF AnswerFromCache, StartCheck, TurnAway, LetIn, vars, breakerVars
  <2>2. PICK at \in {"idle", "asking", "bad", "up", "down"} : Goto(h, at)
    <3>1. Verdict(lastOK) \in {"up", "down"}
      BY DEF Verdict
    <3> QED
      BY <1>1, <3>1 DEF AnswerFromCache, StartCheck, TurnAway, LetIn
  <2>3. AsksInCheck' /\ Pending' \subseteq Pending
    BY <2>1, <2>2, CheckMoves
  <2> QED
    BY <1>0, <2>1, <2>3, OpeningKept DEF openVars
<1>2. CASE AskGateway(h)
  <2>1. /\ check[h] = "asking" /\ CountOpening /\ UNCHANGED <<fresh, lastOK>>
        /\ call'[h] = "refused" => check' = [check EXCEPT ![h] = "bad"]
        /\ call'[h] # "refused" => check' = check
    BY <1>2 DEF AskGateway, Goto
  <2>2. \/ call' = [call EXCEPT ![h] = "calling"] /\ state' # "open"
        \/ call' = [call EXCEPT ![h] = "refused"] /\ state' = state
    BY <1>0, <1>2, CallsMade DEF AskGateway, HealthInv
  <2>3. AsksInCheck'
    BY <1>0, <2>1, <2>2 DEF HealthInv, AsksInCheck
  <2>4. state' = "open" => Pending' \subseteq Pending
    BY <1>0, <2>1, <2>2 DEF Pending
  <2> QED
    BY <2>1, <2>3, <2>4, OpeningCounted
<1>3. CASE GatewayAnswers(h) \/ \E outcome \in Outcomes : GatewayMissed(h, outcome)
  <2>1. /\ call[h] = "calling" /\ call' = [call EXCEPT ![h] = "idle"]
        /\ CountOpening /\ UNCHANGED <<fresh, lastOK>>
        /\ \/ check' = [check EXCEPT ![h] = "good"]
           \/ check' = [check EXCEPT ![h] = "bad"]
    BY <1>3 DEF GatewayAnswers, GatewayMissed, AfterCall, Goto
  <2>2. AsksInCheck' /\ Pending' \subseteq Pending
    BY <1>0, <2>1 DEF HealthInv, AsksInCheck, Pending
  <2> QED
    BY <2>1, <2>2, OpeningCounted
<1>4. CASE StoreResult(h)
  BY <1>0, <1>4, StoringCounted DEF StoreResult
<1> QED
  BY <1>1, <1>2, <1>3, <1>4 DEF Check

\* A worker's calls are nobody's check.
LEMMA WorkerCounted ==
  ASSUME HealthInv, NEW w \in Workers, Worker(w)
  PROVE  AsksInCheck' /\ PeriodBudget' /\ underWay' \in Nat /\ periods' \in Nat
<1>1. w \in Callers /\ call \in [Callers -> {"idle", "calling", "refused"}]
      /\ \A h \in Posts : h \in Callers /\ h # w
  BY HealthAssumption DEF HealthInv, TypeOK
<1>2. CountOpening /\ UNCHANGED <<check, fresh, lastOK>>
  BY DEF Worker, WorkerCalls, WorkerReturns
<1>3. \E what \in {"idle", "calling", "refused"} : call' = [call EXCEPT ![w] = what]
  BY <1>1, CallsMade DEF Worker, WorkerCalls, WorkerReturns, AfterCall, HealthInv
<1>4. \A h \in Posts : call'[h] = call[h]
  BY <1>1, <1>3
<1>5. AsksInCheck' /\ Pending' \subseteq Pending
  BY <1>2, <1>4 DEF HealthInv, AsksInCheck, Pending
<1> QED
  BY <1>2, <1>5, OpeningCounted

\* Every step preserves the invariant.
LEMMA StepHealthInv == HealthInv /\ TypeOK' /\ [HealthNext]_allVars => HealthInv'
<1> SUFFICES ASSUME HealthInv, TypeOK', [HealthNext]_allVars PROVE HealthInv'
  OBVIOUS
<1>0. /\ check' \in [Posts -> {"idle", "asking", "good", "bad", "up", "down"}]
      /\ fresh' \in BOOLEAN /\ lastOK' \in BOOLEAN
      /\ budget' \in 0 .. MaxBudget /\ mishaps' \in 0 .. MaxMishaps
  BY StepCheckType DEF HealthInv, CheckTypeOK
<1>1. ASSUME AsksInCheck', PeriodBudget', underWay' \in Nat, periods' \in Nat PROVE HealthInv'
  BY <1>0, <1>1 DEF HealthInv, HealthTypeOK, CheckTypeOK
<1>2. CASE UNCHANGED <<state, call, check, openVars>> /\ (fresh' /\ lastOK' => fresh /\ lastOK)
  <2>1. AsksInCheck' /\ Pending' \subseteq Pending
    BY <1>2 DEF HealthInv, AsksInCheck, Pending
  <2>2. PeriodBudget'
    BY <1>2, <2>1, OpeningKept
  <2>3. underWay' \in Nat /\ periods' \in Nat
    BY <1>2 DEF HealthInv, HealthTypeOK, CheckTypeOK, openVars
  <2> QED
    BY <1>1, <2>1, <2>2, <2>3
<1>3. CASE Elapse /\ UNCHANGED healthVars
  BY <1>2, <1>3 DEF Elapse, healthVars
<1>4. CASE Expire
  BY <1>2, <1>4 DEF Expire, vars, breakerVars
<1>5. CASE \E h \in Posts : AnswerFromCache(h) \/ StartCheck(h) \/ Check(h)
  BY <1>1, <1>5, CheckCounted
<1>6. CASE \E w \in Workers : Worker(w)
  BY <1>1, <1>6, WorkerCounted
<1>7. CASE UNCHANGED allVars
  BY <1>2, <1>7 DEF allVars, vars, breakerVars, healthVars
<1> QED
  BY <1>3, <1>4, <1>5, <1>6, <1>7 DEF HealthNext

\* However checks overlap and whoever stores last, an open breaker lets payments in for
\* what is left of one time to live and one more for each check that was under way when
\* it opened.
THEOREM DoorShutsInTime == HealthSpec => []OpenBreakerShutsDoor
<1>1. HealthInit => HealthInv
  <2> SUFFICES ASSUME HealthInit PROVE HealthInv
    OBVIOUS
  <2>1. fresh \in BOOLEAN /\ lastOK \in BOOLEAN
    BY DEF HealthInit
  <2>2. /\ check \in [Posts -> {"idle", "asking", "good", "bad", "up", "down"}]
        /\ budget \in 0 .. MaxBudget
        /\ mishaps \in 0 .. MaxMishaps
        /\ underWay \in Nat /\ periods \in Nat
    BY HealthAssumption DEF HealthInit
  <2>3. TypeOK
    BY InitInv DEF HealthInit, BreakerInv
  <2>4. AsksInCheck /\ PeriodBudget
    BY HealthAssumption DEF HealthInit, Init, AsksInCheck, PeriodBudget
  <2> QED
    BY <2>1, <2>2, <2>3, <2>4 DEF HealthInv, HealthTypeOK, CheckTypeOK
<1>2. HealthInv => OpenBreakerShutsDoor
  <2> SUFFICES ASSUME HealthInv PROVE OpenBreakerShutsDoor
    OBVIOUS
  <2>1. Cardinality(Pending) \in Nat
    <3>1. Pending \in SUBSET Posts
      BY DEF Pending
    <3> QED
      BY <3>1, PostsCount
  <2>2. underWay \in Nat /\ periods \in Nat
    BY DEF HealthInv, HealthTypeOK, CheckTypeOK
  <2> QED
    BY <2>1, <2>2 DEF HealthInv, PeriodBudget, OpenBreakerShutsDoor
<1> QED
  BY <1>1, <1>2, StepHealthInv, HealthImplementsBreaker, BreakerTypeCorrect, PTL DEF HealthSpec

=================================================================================
