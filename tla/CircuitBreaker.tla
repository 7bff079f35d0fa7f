---------------------------- MODULE CircuitBreaker ----------------------------
(***************************************************************************)
(* kit/external_payment_gateway: CircuitBreakerGateway, shared by the      *)
(* workers of the bus (Charge of a payment) and by the health check of     *)
(* POST /payments (Charge of amount 1).                                    *)
(*                                                                         *)
(* beforeCall and afterCall hold the mutex, and each is one step here; the *)
(* call of the gateway between them does not, so that any number of calls  *)
(* are in flight, and one that was admitted in a state of the breaker may  *)
(* return in another.  The clock is only compared with openedAt plus       *)
(* OpenTimeout: elapsed says how that comparison comes out.                *)
(***************************************************************************)
EXTENDS Integers, FiniteSets

CONSTANTS
  Callers,           \* goroutines that call Charge
  FailureThreshold,  \* failures that open the breaker
  SuccessThreshold   \* successes in half-open that close it

\* NewCircuitBreakerGateway replaces what is not positive by a default.
ASSUME BreakerAssumption ==
  /\ IsFiniteSet(Callers)
  /\ FailureThreshold \in Nat \ {0}
  /\ SuccessThreshold \in Nat \ {0}

VARIABLES
  state,         \* closed, open or halfOpen
  failures,
  successes,
  halfInFlight,
  elapsed,       \* whether OpenTimeout has passed since openedAt
  call,          \* what each caller is doing
  \* History, for the properties:
  probes,        \* calls in flight that this half-open period has admitted
  strays         \* returns, in this half-open period, of calls admitted before

breakerVars == <<state, failures, successes, halfInFlight, elapsed>>
historyVars == <<probes, strays>>
vars == <<breakerVars, call, historyVars>>

\* What a call comes to for afterCall: no error; an error for which IsFailure
\* holds (timeout, 5xx, deadline exceeded); any other (4xx, context cancelled).
Outcomes == {"ok", "failure", "other"}

Init ==
  /\ state = "closed"
  /\ failures = 0
  /\ successes = 0
  /\ halfInFlight = FALSE
  /\ elapsed = FALSE
  /\ call = [c \in Callers |-> "idle"]
  /\ probes = {}
  /\ strays = 0

-----------------------------------------------------------------------------
(* beforeCall. *)

\* A caller whose last call was refused may try again.
MayCall(c) == call[c] \in {"idle", "refused"}

AdmitClosed(c) ==
  /\ MayCall(c)
  /\ state = "closed"
  /\ call' = [call EXCEPT ![c] = "calling"]
  /\ UNCHANGED <<breakerVars, historyVars>>

\* The timeout is over: half-open, and c is the probe.
AdmitAfterTimeout(c) ==
  /\ MayCall(c)
  /\ state = "open"
  /\ elapsed
  /\ state' = "halfOpen"
  /\ successes' = 0
  /\ halfInFlight' = TRUE
  /\ call' = [call EXCEPT ![c] = "calling"]
  /\ probes' = {c}
  /\ strays' = 0
  /\ UNCHANGED <<failures, elapsed>>

\* Mutant: the probe in flight is not looked at.
AdmitAnyProbe(c) ==
  /\ MayCall(c)
  /\ state = "halfOpen"
  /\ halfInFlight' = TRUE
  /\ call' = [call EXCEPT ![c] = "calling"]
  /\ probes' = probes \union {c}
  /\ UNCHANGED <<state, failures, successes, elapsed, strays>>

\* The last probe has returned without closing or opening the breaker.
AdmitProbe(c) ==
  /\ MayCall(c)
  /\ state = "halfOpen"
  /\ ~halfInFlight
  /\ halfInFlight' = TRUE
  /\ call' = [call EXCEPT ![c] = "calling"]
  /\ probes' = probes \union {c}
  /\ UNCHANGED <<state, failures, successes, elapsed, strays>>

\* beforeCall would return ErrCircuitOpen.
Refusing ==
  \/ state = "open" /\ ~elapsed
  \/ state = "halfOpen" /\ halfInFlight

Refuse(c) ==
  /\ MayCall(c)
  /\ Refusing
  /\ call' = [call EXCEPT ![c] = "refused"]
  /\ UNCHANGED <<breakerVars, historyVars>>

BeforeCall(c) ==
  \/ AdmitClosed(c)
  \/ AdmitAfterTimeout(c)
  \/ AdmitProbe(c)
  \/ Refuse(c)

-----------------------------------------------------------------------------
(* afterCall. *)

\* A period in half-open begins or ends: calls in flight belong to none.
NoPeriod == probes' = {} /\ strays' = 0

\* The call of c returns while the breaker is half-open and stays so.
CountReturn(c) ==
  /\ probes' = probes \ {c}
  /\ strays' = IF c \in probes THEN strays ELSE strays + 1

ReturnOkClosed ==
  /\ state = "closed"
  /\ failures' = 0
  /\ UNCHANGED <<state, successes, halfInFlight, elapsed, historyVars>>

\* Mutant: failures are kept when the breaker closes.
ReturnOkHalfOpenKeepsFailures(c) ==
  /\ state = "halfOpen"
  /\ halfInFlight' = FALSE
  /\ IF successes + 1 >= SuccessThreshold
     THEN /\ state' = "closed"
          /\ successes' = 0
          /\ UNCHANGED failures
          /\ NoPeriod
     ELSE /\ successes' = successes + 1
          /\ UNCHANGED <<state, failures>>
          /\ CountReturn(c)
  /\ UNCHANGED elapsed

ReturnOkHalfOpen(c) ==
  /\ state = "halfOpen"
  /\ halfInFlight' = FALSE
  /\ IF successes + 1 >= SuccessThreshold
     THEN /\ state' = "closed"
          /\ failures' = 0
          /\ successes' = 0
          /\ NoPeriod
     ELSE /\ successes' = successes + 1
          /\ UNCHANGED <<state, failures>>
          /\ CountReturn(c)
  /\ UNCHANGED elapsed

\* g.openedAt = time.Now()
Trip ==
  /\ state' = "open"
  /\ elapsed' = FALSE
  /\ successes' = 0
  /\ halfInFlight' = FALSE
  /\ NoPeriod

\* Mutant: the threshold has to be passed.
ReturnFailureClosedLate ==
  /\ state = "closed"
  /\ failures' = failures + 1
  /\ IF failures + 1 > FailureThreshold
     THEN Trip
     ELSE UNCHANGED <<state, successes, halfInFlight, elapsed, historyVars>>

ReturnFailureClosed ==
  /\ state = "closed"
  /\ failures' = failures + 1
  /\ IF failures + 1 >= FailureThreshold
     THEN Trip
     ELSE UNCHANGED <<state, successes, halfInFlight, elapsed, historyVars>>

ReturnFailureHalfOpen ==
  /\ state = "halfOpen"
  /\ failures' = FailureThreshold
  /\ Trip

\* Mutant: an error that is no failure leaves the probe in flight.
ReturnOtherHalfOpenInFlight(c) ==
  /\ state = "halfOpen"
  /\ CountReturn(c)
  /\ UNCHANGED breakerVars

\* Only line 105 is reached.
ReturnOtherHalfOpen(c) ==
  /\ state = "halfOpen"
  /\ halfInFlight' = FALSE
  /\ CountReturn(c)
  /\ UNCHANGED <<state, failures, successes, elapsed>>

\* A result that comes while the breaker is open, or an error that is no failure
\* and comes while it is closed.
ReturnIgnored(outcome) ==
  /\ \/ state = "open"
     \/ state = "closed" /\ outcome = "other"
  /\ UNCHANGED <<breakerVars, historyVars>>

AfterCall(c, outcome) ==
  /\ call[c] = "calling"
  /\ call' = [call EXCEPT ![c] = "idle"]
  /\ \/ outcome = "ok" /\ (ReturnOkClosed \/ ReturnOkHalfOpen(c))
     \/ outcome = "failure" /\ (ReturnFailureClosed \/ ReturnFailureHalfOpen)
     \/ outcome = "other" /\ ReturnOtherHalfOpen(c)
     \/ ReturnIgnored(outcome)

\* The clock passes openedAt plus OpenTimeout.
Elapse ==
  /\ state = "open"
  /\ ~elapsed
  /\ elapsed' = TRUE
  /\ UNCHANGED <<state, failures, successes, halfInFlight, call, historyVars>>

Next ==
  \/ Elapse
  \/ \E c \in Callers : BeforeCall(c) \/ \E outcome \in Outcomes : AfterCall(c, outcome)

Spec == Init /\ [][Next]_vars

\* Time passes, and every call of the gateway returns, at the latest when the
\* deadline its caller set (200ms, 100ms) is over.  Callers need not call.
Fairness ==
  /\ WF_vars(Elapse)
  /\ \A c \in Callers : WF_vars(\E outcome \in Outcomes : AfterCall(c, outcome))

FairSpec == Spec /\ Fairness

-----------------------------------------------------------------------------
(* Properties. *)

\* The type of the state.
TypeOK ==
  /\ state \in {"closed", "open", "halfOpen"}
  /\ failures \in 0 .. FailureThreshold
  /\ successes \in 0 .. SuccessThreshold
  /\ halfInFlight \in BOOLEAN
  /\ elapsed \in BOOLEAN
  /\ call \in [Callers -> {"idle", "calling", "refused"}]
  /\ probes \in SUBSET Callers
  /\ strays \in Nat

\* The mark that a probe is in flight, which makes beforeCall refuse everybody,
\* is never left behind: a probe is in flight whose afterCall will clear it.
ProbeAccounted ==
  halfInFlight => state = "halfOpen" /\ \E c \in probes : call[c] = "calling"

\* The counters say what the state says: a closed breaker is short of the
\* failures that open it and a half-open one of the successes that close it,
\* also when calls return that were admitted in another state.
CountersMatchState ==
  /\ state = "closed" => failures < FailureThreshold /\ successes = 0
  /\ state # "closed" => failures = FailureThreshold
  /\ state = "halfOpen" => successes < SuccessThreshold

\* A half-open breaker lets one probe through at a time, except that every call
\* admitted before and returning now lets one more through: afterCall takes it
\* for the probe.
ProbesBounded == Cardinality(probes) <= 1 + strays

\* A breaker that refuses calls stops doing so, even if nobody calls it.
RefusesOnlyForAWhile == Refusing ~> ~Refusing

-----------------------------------------------------------------------------
(* The inductive invariant of HealthProofs. *)

\* Probes are calls in flight of a half-open breaker.
ProbesInFlight ==
  /\ \A c \in probes : call[c] = "calling"
  /\ state # "halfOpen" => probes = {} /\ ~halfInFlight
  /\ halfInFlight => probes # {}

\* beforeCall lets one probe through when none is marked in flight.
Admissible == IF halfInFlight THEN 0 ELSE 1

ProbeBudget ==
  state = "halfOpen" => Cardinality(probes) + Admissible <= 1 + strays

BreakerInv == TypeOK /\ CountersMatchState /\ ProbesInFlight /\ ProbeBudget

=============================================================================
