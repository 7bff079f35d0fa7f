--------------------------------- MODULE Health ---------------------------------
(***************************************************************************)
(* internal/health.Service in front of POST /payments, with the circuit    *)
(* breaker it shares with the workers of the bus.                          *)
(*                                                                         *)
(* A POST is let in when the last check was good.  A check asks the        *)
(* database, which never refuses, and charges the amount 1 through the     *)
(* breaker; its result is kept for the time to live.  Check unlocks while  *)
(* it asks, so that checks overlap and each stores what it found.          *)
(*                                                                         *)
(* The breaker closes only when calls return, the workers have calls to    *)
(* make only for payments that were let in, and no payment is let in while *)
(* the check finds the breaker open: budget is what the workers have left. *)
(***************************************************************************)
EXTENDS CircuitBreaker

CONSTANTS
  Workers,     \* goroutines of the bus that charge payments
  Posts,       \* goroutines of POST /payments requests
  MaxBudget,   \* bound: charges the workers may have before them
  MaxMishaps   \* bound: checks whose client hangs up or whose 100ms pass

ASSUME HealthAssumption ==
  /\ Callers = Workers \union Posts
  /\ Workers \intersect Posts = {}
  /\ MaxBudget \in Nat
  /\ MaxMishaps \in Nat

VARIABLES
  check,    \* how far each POST got
  fresh,    \* now is before nextCheckAt
  lastOK,   \* lastResult.OK
  budget,   \* charges left to the workers
  mishaps,
  \* History, for the properties, since the breaker has opened:
  underWay, \* checks that were under way then
  periods   \* times to live in which a good result is served

openVars == <<underWay, periods>>
healthVars == <<check, fresh, lastOK, budget, mishaps, openVars>>
allVars == <<vars, healthVars>>

HealthInit ==
  /\ Init
  /\ check = [h \in Posts |-> "idle"]
  /\ fresh = FALSE
  /\ lastOK = FALSE
  /\ budget = 0
  /\ mishaps = 0
  /\ underWay = 0
  /\ periods = 0

Goto(h, at) == check' = [check EXCEPT ![h] = at]

\* The checks that the breaker has let through and that may still store a good
\* result.
Pending == {h \in Posts : check[h] = "good" \/ call[h] = "calling"}

\* The history begins when a call opens the breaker and ends when it is open no
\* longer.
CountOpening ==
  /\ underWay' = IF state' # "open" THEN 0
                 ELSE IF state = "open" THEN underWay ELSE Cardinality(Pending')
  /\ periods' = IF state' # "open" THEN 0
                ELSE IF state = "open" THEN periods
                ELSE IF fresh /\ lastOK THEN 1 ELSE 0

-----------------------------------------------------------------------------
(* Service.Check. *)

Verdict(ok) == IF ok THEN "up" ELSE "down"

\* The last result is still fresh.
AnswerFromCache(h) ==
  /\ check[h] = "idle"
  /\ fresh
  /\ Goto(h, Verdict(lastOK))
  /\ UNCHANGED <<vars, fresh, lastOK, budget, mishaps, openVars>>

\* It is not: unlock and ask.
StartCheck(h) ==
  /\ check[h] = "idle"
  /\ ~fresh
  /\ Goto(h, "asking")
  /\ UNCHANGED <<vars, fresh, lastOK, budget, mishaps, openVars>>

\* Mutant: the check looks whether the breaker is closed and calls only then.
AskGatewayIfClosed(h) ==
  /\ check[h] = "asking"
  /\ call[h] # "calling"
  /\ IF state = "closed" THEN BeforeCall(h) /\ UNCHANGED check ELSE Goto(h, "bad") /\ UNCHANGED vars
  /\ UNCHANGED <<fresh, lastOK, budget, mishaps>>
  /\ CountOpening

\* The check of the gateway calls Charge: the breaker refuses, and the check has
\* failed, or it lets the call through.
AskGateway(h) ==
  /\ check[h] = "asking"
  /\ BeforeCall(h)
  /\ IF call'[h] = "refused" THEN Goto(h, "bad") ELSE UNCHANGED check
  /\ UNCHANGED <<fresh, lastOK, budget, mishaps>>
  /\ CountOpening

\* The gateway accepts a charge of 1.
GatewayAnswers(h) ==
  /\ AfterCall(h, "ok")
  /\ Goto(h, "good")
  /\ UNCHANGED <<fresh, lastOK, budget, mishaps>>
  /\ CountOpening

\* The client hung up, which is no failure for the breaker, or the deadline of
\* 100ms was over before the gateway answered, which is one.
GatewayMissed(h, outcome) ==
  /\ mishaps < MaxMishaps
  /\ mishaps' = mishaps + 1
  /\ outcome \in {"other", "failure"}
  /\ AfterCall(h, outcome)
  /\ Goto(h, "bad")
  /\ UNCHANGED <<fresh, lastOK, budget>>
  /\ CountOpening

\* A good result is stored, and served for its time to live.
CountPeriod == periods' = IF state = "open" /\ lastOK' THEN periods + 1 ELSE periods

\* Mutant: a good result outlives a bad one.
StoreResultKeepsOK(h) ==
  /\ check[h] \in {"good", "bad"}
  /\ lastOK' = (lastOK \/ check[h] = "good")
  /\ fresh' = TRUE
  /\ Goto(h, Verdict(lastOK'))
  /\ CountPeriod
  /\ UNCHANGED <<vars, budget, mishaps, underWay>>

\* Lock again and store the result, whatever other checks stored meanwhile.
StoreResult(h) ==
  /\ check[h] \in {"good", "bad"}
  /\ lastOK' = (check[h] = "good")
  /\ fresh' = TRUE
  /\ Goto(h, Verdict(check[h] = "good"))
  /\ CountPeriod
  /\ UNCHANGED <<vars, budget, mishaps, underWay>>

\* The clock passes nextCheckAt.
Expire ==
  /\ fresh
  /\ fresh' = FALSE
  /\ UNCHANGED <<vars, check, lastOK, budget, mishaps, openVars>>

-----------------------------------------------------------------------------
(* The answer to the client, and the workers. *)

\* 503.
TurnAway(h) ==
  /\ check[h] = "down"
  /\ Goto(h, "idle")
  /\ UNCHANGED <<vars, fresh, lastOK, budget, mishaps, openVars>>

\* 202: the workers will charge the payment, once or with retries.
LetIn(h) ==
  /\ check[h] = "up"
  /\ Goto(h, "idle")
  /\ \E n \in 1 .. MaxBudget : budget' = (IF budget + n > MaxBudget THEN MaxBudget ELSE budget + n)
  /\ UNCHANGED <<vars, fresh, lastOK, mishaps, openVars>>

\* HandleChargeRequested calls Charge, which the breaker may refuse.
WorkerCalls(w) ==
  /\ budget > 0
  /\ BeforeCall(w)
  /\ budget' = budget - 1
  /\ UNCHANGED <<check, fresh, lastOK, mishaps>>
  /\ CountOpening

WorkerReturns(w) ==
  /\ \E outcome \in Outcomes : AfterCall(w, outcome)
  /\ UNCHANGED <<check, fresh, lastOK, budget, mishaps>>
  /\ CountOpening

Check(h) ==
  \/ AskGateway(h)
  \/ GatewayAnswers(h)
  \/ \E outcome \in Outcomes : GatewayMissed(h, outcome)
  \/ StoreResult(h)
  \/ TurnAway(h)
  \/ LetIn(h)

Worker(w) == WorkerCalls(w) \/ WorkerReturns(w)

HealthNext ==
  \/ Elapse /\ UNCHANGED healthVars
  \/ Expire
  \/ \E h \in Posts : AnswerFromCache(h) \/ StartCheck(h) \/ Check(h)
  \/ \E w \in Workers : Worker(w)

HealthSpec == HealthInit /\ [][HealthNext]_allVars

\* Time passes, goroutines run, and calls of the gateway return in time.
\* Clients need not post.
HealthFairness ==
  /\ WF_allVars(Elapse /\ UNCHANGED healthVars)
  /\ WF_allVars(Expire)
  /\ \A h \in Posts : WF_allVars(Check(h))
  /\ \A w \in Workers : WF_allVars(WorkerReturns(w))

HealthFairSpec == HealthSpec /\ HealthFairness

-----------------------------------------------------------------------------
(* Properties. *)

\* An open breaker shuts the front door in time.  Once it has opened, payments are
\* let in for what is left of the time to live of a good result, and for one time to
\* live more for each check that was under way when it opened: such a check may store
\* a good result as late as it likes, over the bad ones of others, and is served from
\* the cache like any other; but no check that asks the open breaker adds one.
OpenBreakerShutsDoor ==
  /\ periods <= 1 + underWay
  /\ state = "open" /\ fresh /\ lastOK => periods > 0

\* The front door never closes for good.  The breaker waits for a call, the
\* workers wait for a payment, and the payment waits for the breaker: but the
\* check of the gateway is a call too, the result it leaves expires, and as long
\* as clients keep posting, payments are let in again and again, whichever probes,
\* overlapping checks, mishaps and failing charges come between.
KeepsLettingIn ==
  ([]<>\E h \in Posts : check[h] # "idle") => []<>\E h \in Posts : check[h] = "up"

-----------------------------------------------------------------------------
(* The inductive invariant of HealthProofs. *)

\* The type of the state.
CheckTypeOK ==
  /\ check \in [Posts -> {"idle", "asking", "good", "bad", "up", "down"}]
  /\ fresh \in BOOLEAN
  /\ lastOK \in BOOLEAN
  /\ budget \in 0 .. MaxBudget
  /\ mishaps \in 0 .. MaxMishaps

HealthTypeOK == CheckTypeOK /\ underWay \in Nat /\ periods \in Nat

\* A POST calls the gateway in its check only.
AsksInCheck == \A h \in Posts : call[h] = "calling" => check[h] = "asking"

\* The checks still under way count as well.
PeriodBudget ==
  /\ state = "open" => periods + Cardinality(Pending) <= 1 + underWay
  /\ state # "open" => periods = 0 /\ underWay = 0
  /\ state = "open" /\ fresh /\ lastOK => periods > 0

HealthInv == TypeOK /\ HealthTypeOK /\ AsksInCheck /\ PeriodBudget

=============================================================================
