# The payment system in TLA+

This directory specifies, model-checks and partly proves the program in this
repository: a web process that takes payments and wallet credits over HTTP and
works on them with handlers on an in-process event bus.

## 1. The system

### Components

| component | source | state | operations |
| --- | --- | --- | --- |
| HTTP handlers | `cmd/web/handlers` | none of their own; each request has a context that `net/http` cancels | `POST /payments`, `GET /payments/`, `POST /wallet/credit`, `GET /wallet/` |
| event bus | `kit/broker/bus.go` | a channel per shard, a `done` channel, the handlers of each event name | `Subscribe`, `Publish`, `Close`, the workers |
| workflow handlers | `cmd/consumers/handlers` (`payment`, `wallet`, `payment_flow`, `payment_result`, `recovery`) | locals only | one handler per event, each publishing the event that triggers the next |
| payment service | `internal/payment` | the payments table (`db.MockClient`, memory only) | `Initialize`, `MarkPending`, `MarkRejected`, `MarkSucceeded`, `MarkFailed`, `Get` |
| wallet service | `internal/wallet` | the wallets table (`db.MockClient`, memory and `wallets.json`) | `Credit`, `Debit`, `Refund`, `Balance` |
| circuit breaker | `kit/external_payment_gateway` | state, two counters, `openedAt`, `halfInFlight` | `Charge` = `beforeCall`, the call, `afterCall` |
| gateway | `FakeGateway` | none | `Charge`: the amount decides the result |
| read model | `internal/readmodels` | payment views, wallet views | `Apply` (live), `Replay` (at start-up), `Get...` |
| event store | `kit/db/store.go` | streams and a log in memory, `db.jsonl` | `Append`, `All`, `Load`, replay at start-up |
| health | `internal/health` | the last result and when to check again | `Check` |
| observers | audit, metrics, notification | a log, a file, counters | one handler each |

### How they interact

`POST /payments` checks health, saves the payment and publishes
`payment.created` (observers only) and `payment.initialized`. From there on:

    payment.initialized     -> wallet.debit_requested
    wallet.debit_requested  -> wallet.debited | wallet.debit_rejected | recovery.requested
    wallet.debited          -> [pending]   payment.charge_requested
    wallet.debit_rejected   -> [rejected]
    payment.charge_requested-> payment.charge_succeeded | payment.charge_failed | recovery.requested
    payment.charge_succeeded-> [succeeded]
    payment.charge_failed   -> [failed]    wallet.refund_requested
    wallet.refund_requested -> (wallet credited)
    recovery.requested      -> after a minute, the event that failed, with attempts + 1

All events of a payment have the payment id as partition key, so one shard and
one worker handle them. Payments on different shards run at the same time and
share the wallets table, the payments table and the circuit breaker.
`POST /wallet/credit` changes a wallet from the goroutine of its request.

### What is hard, and what makes it correct

* **Contexts.** A delivery keeps the context of the HTTP request it descends
  from, which is cancelled once the request is answered. What a handler does
  under that context (charging, sleeping) depends on who is faster.
* **Retries.** Three levels: the loop in `payment_event`, one recovery, and the
  bus, which repeats a handler that returns an error, without limit in
  `broker.New`. *The money of a payment must match its status, no payment may be
  forgotten half-way, the gateway may be called so often and no more.*
* **Partial failure.** `MockClient` changes memory, then writes the file, and
  reports the failed write as an error. *The damage must be bounded, and a
  restart must forget nothing that was reported as done.*
* **Reads and writes apart.** `Credit` and `Refund` read and then set; `Mark...`
  reads a row and saves it back. *No interleaving may overdraw a wallet; a lost
  update must be the only way to a wrong balance.*
* **Two copies of a status.** The payments table is written by the handlers, the
  view by the projector from what they publish, and `Append` writes memory and
  file under two locks. A restart loses the table and rebuilds the views. *What a
  client reads of a payment must go forward, also over a restart; a movement of a
  wallet must be counted once.*
* **The front door.** `POST /payments` is refused while the health check fails, and
  the check calls the gateway through the breaker that the workers use: the breaker
  waits for calls, the workers for payments, and payments for the breaker. *The
  circle must never close for good.*
* **The breaker.** Calls admitted in one state return in another. *The mark of
  the probe must never be left behind, the counters must fit the state.*
* **The bus.** Bounded shards, handlers that publish from inside a worker,
  `Close` while senders are blocked. *A shard settles its deliveries in order,
  everything enqueued is settled, `Close` returns.*

## 2. Modules

| module | what it is |
| --- | --- |
| `WalletStore` | the wallets table and its file: the operations of `MockClient` under its mutex |
| `PaymentLifecycle` | abstract: what a payment and its money may do, also when `wallets.json` cannot be written |
| `PaymentWorkflow` | the workflow: requests, shards, workers, all handlers, the payments table; extends `WalletStore`, implements `PaymentLifecycle` |
| `PaymentWorkflowProofs`, `PaymentWorkflowMoneyProofs`, `PaymentWorkflowDutyProofs` | its type correctness; money, status and the refinement; what may still be done for a payment |
| `Wallet`, `WalletProofs` | the wallet service called by many goroutines, with crashes; extends `WalletStore` |
| `CircuitBreaker` | the breaker and its callers |
| `Health`, `HealthProofs` | the health check in front of `POST /payments` and the workers, as callers of the breaker; extends `CircuitBreaker` and implements it; the proofs of both |
| `EventLines` | abstract: each shard as a line of deliveries of which the first is tried |
| `Bus`, `BusProofs` | the bus: any graph of events and handlers; implements `EventLines` |
| `EventStore` | the store of events and its file: the two halves of `Append`, failed writes, the next process |
| `PaymentReads` | abstract: what `GET /payments/` promises |
| `ReadModel` | publishers, store, shards and projector: the views and what is read from them; extends `EventStore`, implements `PaymentReads` |
| `ReadModelInvariant`, `ReadModelProofs`, `ReadModelMovementProofs` | its inductive invariants, of which TLC checks `ReadInv` and `MovesInv` too; the proofs about statuses and reads; the proofs about movements, and about what a failed write loses |
| `MC...` | instances for TLC: values of the constants, symmetry |

### PaymentWorkflow and the code

* `http[r]` is how far the goroutine of request `r` got in `Payment.Create`;
  `cancelled[r]` is its context. `CreateReturn` cancels it, as `net/http` does,
  and so may `ClientDisconnect` before.
* `queue[s]` holds the deliveries of shard `s`; its head is the one the worker is
  busy with. `wpc`, `loaded`, `balance`, `attempt` are the locals of the handler
  in progress. A handler is split where the code calls the database again or
  the gateway again: a `Mark...` is `MarkGet` and then the save; `Refund` is
  `RefundRead` and `RefundWrite`; each turn of the charge loop is one step,
  which is where the context may be found cancelled.
* `Return`, `PublishAndReturn` and `ReturnError` are what the bus makes of the
  handler's result: drop the delivery, or keep it and start the handler again.
* `debits`, `refunds`, `charges`, `calls` only count, for the properties.
* A debit or a refund whose write of `wallets.json` fails is done in memory, reported
  as an error and done again. In `PaymentLifecycle` that is a step of its own
  (`MisHold`, `MisRelease`), which leaves the money where it was and a mishap behind.
* The abstractions: events are records of one type; a failed call is a class of
  error (`Reasons`); time is a choice (a deadline may expire before the gateway
  answers, a delay ends before or after the context is cancelled); the breaker
  may refuse any call, which `CircuitBreaker` refines; shards are unbounded,
  which `Bus` refines. Observers are left out: they change nothing that the
  workflow reads.

### Wallet and the code

`ReadBalance` is the first query of `Credit` or `Refund` (whose bodies are the
same but for the metric), `SetIncreased` the second, `Debit` the conditional
update. `Restart` starts the process from the file. `ledger` is what the balance
should be, `stale` and `lost` say which readings were overtaken and for whom an
update was lost, `wrapped` whose balance has passed `MaxInt`, `unsaved` whose
update the file lacks although its caller was told of an error.

### CircuitBreaker and the code

`beforeCall` and `afterCall` are one step each, under the mutex; calls in flight
are in `call`. `elapsed` stands for the comparison of the clock with `openedAt`
and `OpenTimeout`. `probes` and `strays` tell, for the current half-open
period, the calls it admitted and the returns of calls admitted before it.

### Health and the code

A POST runs `Service.Check`: `AnswerFromCache` while the last result is fresh, else
`StartCheck`, which unlocks, then the call of the gateway with amount 1
(`AskGateway`, `GatewayAnswers`, `GatewayMissed`) and `StoreResult` under the lock
again. Checks of several POSTs overlap, and each stores its own result. The check of
the database is left out, for it looks up a wallet nobody has and never fails.
`LetIn` gives the workers charges to make (`budget`), `TurnAway` is the 503. `underWay`
and `periods` only count, from the step in which the breaker opens: the checks that it
had let through by then, and the times to live in which a good result is served.
`Workers` and `Posts` are the `Callers` of `CircuitBreaker`, whose actions `Health`
uses as they are.

### Bus and the code

`Publish` is one step per delivery: `Enqueue` when the channel has room, or
`RefuseClosed`; neither is enabled while the shard is full and the bus open, and
that is the blocked sender. `Receive`, `HandlerReturns`, `HandlerFails`,
`BackoffOver`, `BackoffClosed`, `Exit` are the worker, for an error as for a
panic. `Reactions` gives, for an event and each of its handlers, what the handler
publishes; `log` and `settled` record what was enqueued and how far the worker is.
A handler that fails is started again from its beginning (`BackoffOver` gives it the
whole of its `agenda` again), so what it had published by then is published twice, and
one that is given up leaves the rest unpublished. `FollowUpsKeepCount` says how far
that goes: for a delivery `d` whose event only the handler of `c` publishes (`LeadsTo`),
`d` is enqueued as often as `c`, but for one more or one less per failure.

`EventLines` is what is left of the bus for somebody who does not ask where a delivery
waits: it joins a line, only the first of a line is tried, and it leaves when it
succeeds, when it fails for the last time, or, once the bus is closed, instead of
waiting to be tried again. Under `ImplementsLines` the line of a shard is the delivery
in the worker's hand and then the channel (`Waiting`), so that `Receive`, `BackoffOver`
and `Exit` change nothing. `PaymentWorkflow` has the bus in this form,
without a limit on tries.

### EventStore, ReadModel and the code

`AppendToMemory` and the steps after it are the two halves of `Append`: the line is
written (`AppendToFile`), lost or torn (`WriteFails`), or the file is closed
(`FileIsClosed`), and `Append` returns nil each time. `ReopenStore` is `NewWithFile`
of the next process, which does not start from a file with a torn line.

In `ReadModel` every publisher goes through the same steps: it saves its row and
begins the append (`CreateSave`, `CreditSave`, `MarkSave`), ends it (`FinishAppend`),
and publishes, `Create` one delivery at a time for `payment.initialized`. `queue`
holds the deliveries to the workflow and to the projector. `HandleMoney` is a handler
that changes money and records nothing; it may have any outcome of its handler, for
which one comes is `PaymentWorkflow`'s subject. `ProjectStatus` and `ProjectMovement`
are `Projector.Apply`. `Restart` is a crash anywhere, the store opened again and
`Replay` into empty views; the payments table, which is in memory only, is empty
afterwards. `Shutdown` is the store closed by `main` while the bus still works.
`view` is the status in a payment view, and `moved` says how often each movement is
in the balance of its wallet view; the amounts are left out. So is a payment id used
twice, which `PaymentWorkflow` has.

`PaymentReads` says what a client may rely on: read again, a payment is where it was
or further, with two exceptions. Until its `POST` is answered it may be forgotten.
And once, when the projector is told of `payment.initialized`, it may be set back to
initialized: `Create` enqueues that event for the workflow before it does for the
projector, so a fast worker can enqueue `payment.pending`, and all that follows,
before it. `applyPaymentInitialized` overwrites what is there, and when the payment
has ended by then its view stays initialized. `doc_bus_order` has the same cause.

## 3. What is checked

`tlc -config <run>.cfg <module>` for each run.

| run | module | distinct states | properties |
| --- | --- | --- | --- |
| `workflow_safety` | `MCPaymentWorkflow` | 335 487 | `WorkflowInv`, `MoneyMatchesStatus`, `NothingForgotten`, `RetryBudget`, `ImplementsLifecycle` |
| `workflow_faults` | `MCPaymentWorkflow` | 525 529 | `TypeOK`, `ChargedOncePerSubmission`, `DamageBounded`, `DrivenOn` |
| `workflow_liveness` | `MCPaymentWorkflow` | 69 108 | `SettledUnlessStuck` |
| `wallet` | `MCWallet` | 1 378 296 | `TypeOK`, `LedgerExact`, `NoOverdraft`, `ForgetsOnlyErrors` |
| `breaker` | `MCHealth` | 119 915 | `TypeOK`, `OpenBreakerShutsDoor`, `ProbeAccounted`, `CountersMatchState`, `ProbesBounded`, `RefusesOnlyForAWhile`, `KeepsLettingIn` |
| `bus_safety` | `MCBus` | 364 082 | `TypeOK`, `SettledInOrder`, `FollowUpsKeepCount`, `FollowUpInv`, `ImplementsLines`, `SettledUnlessGridlock`, `CloseReturns` |
| `read_model` | `MCReadModel` | 116 838 | `TypeOK`, `ReadInv`, `FileFollowsMemory`, `MovesInv`, `MovementsOnce`, `ViewsAgree`, `FailuresLoseTheirOwn`, `ImplementsReads`, `ViewsCatchUp` |

* `workflow_safety`: whatever is retried, recovered, cancelled or refused, and with up
  to two failed writes of `wallets.json`, a payment's money is where its status says
  but for the mishaps that those writes leave, and every payment that was accepted is
  settled or on its way. `workflow_faults`: when ids are used again as well, what
  still holds: charges and damage are bounded, and although `Initialize` sets a running
  payment back and a `Mark...` method saves a copy of the row that another chain has
  overtaken, a row that is not settled is always at a status at which a request or a
  delivery goes on with it (`DrivenOn`). `workflow_liveness`: only a recovery request keeps a payment from
  being settled.
* `wallet`: a balance is wrong only by an update from a stale reading, negative only
  by overflow, and a restart forgets only what was reported as an error.
* `breaker`: the counters and the mark of the probe survive calls that return in
  another state than they were admitted in. The front door never closes for good
  (`KeepsLettingIn`), and behind an open breaker it shuts in time: a check that was
  under way may still store a good result late, over bad ones of others, and each of
  these lets payments in for one time to live, but no check that asks the open
  breaker does (`OpenBreakerShutsDoor`).
* `bus_safety`: order; that what handlers publish is enqueued once for each delivery of
  its cause, but for what failures repeat or give up (`FollowUpsKeepCount`); that no
  delivery leaves its line out of turn, is tried too often or is dropped, also when the
  bus is closed under way (`ImplementsLines`); and that
  nothing but `Close` and workers that wait for each other's full shards (`Gridlock`)
  keeps a delivery from being settled.
* `read_model`: memory and file of the store have the same records in the same order
  where nothing failed (`FileFollowsMemory`); no movement is counted twice, and an
  accepted credit is counted (`MovementsOnce`); the view agrees with the table when
  nothing is on its way (`ViewsAgree`), and comes to (`ViewsCatchUp`); what is read
  goes forward, before and after a crash (`ImplementsReads`). `FileFollowsMemory`
  leaves out payments for which a write has failed; `FailuresLoseTheirOwn` is about
  them: a failed write loses its own record and no other. `ReadInv` and `MovesInv`
  are the invariants of the proofs.

### Bounds, and why they are enough

* **Two requests.** The workers of two payments meet only in the wallets table,
  the payments table and a shard; two requests give every pair of steps a chance
  to interleave: on two shards (`workflow_safety`), on one shard, where one
  payment can hold the other up (`workflow_liveness`), and with one id
  (`workflow_faults`). The amounts 13, 11 and 7 make the gateway accept, answer
  4xx and answer 5xx; a timeout and a refusal are possible for any amount. A
  balance of 23 (`workflow_safety`) covers one payment and not both, and, after a
  debit that was reported as an error, not its repetition; 100 covers every
  repetition, and `MaxInt = 100` is not reached, for overflow is `Wallet`'s subject.
* **Failed writes** (`MaxIOFailures`): 1 or 2, two where the property counts them
  (`workflow_safety`, `workflow_faults`): two let a debit and its repetition, or a refund and its
  repetition, fail.
* **Wallet.** A lost update needs two goroutines, and the one that overtakes may
  make several calls; `MaxInt = 2` with amount 1 reaches both zero and overflow
  in two calls. A second user matters because one user's successful write saves
  the other's balance. One failed write and one restart give a file that is
  behind memory and a process that starts from it.
* **Breaker and health.** Three callers, one worker and two POSTs: the probe, a call
  admitted before, and one that is refused; and two checks that overlap. Thresholds
  of two make "not yet" and "enough" differ. `MaxMishaps = 2` lets checks go wrong
  often enough to open the breaker; `MaxBudget = 2` lets a worker fail as often.
* **Bus.** Two events of one name, published at the same time, with two handlers,
  one of which publishes a follow-up, as `payment.initialized` has; a third
  event on a shard of its own. Capacity 2 is less than the six deliveries of a
  shard, so that publishers block, and so does a worker that publishes to its own
  shard. `MaxFailures = 2` with `MaxAttempts = 2` lets a handler use up its attempts;
  `broker.New` has no limit on them (`MaxAttempts = 0`, as in the `doc_` runs).
* **Read model.** One payment and one credit on one shard: the goroutines of `Create`,
  of `Credit` and of the worker interleave in one store and one queue, and each
  payment has a queue, a row, a view and a sequence of records apart from all others
  (which the proof shows for any number). Two failed writes, whole or torn, so that
  what one lost differs from what two lost; one restart, for a second one starts from
  what the first one left. Two credits of one user, whose `Append`s may reach the file in
  the other order than memory, are more than TLC does here in minutes: they are covered
  by `FileInStep` and `MovementsCountOnce`, which hold for any number of credits.
* Deadlock is not checked in the runs of the workflow, the bus and the read model:
  when every request is answered and every delivery settled, or a worker has blocked
  for good (`doc_bus_delivery`), nothing is left to do. That nothing stops before
  that is what their liveness properties show. `Wallet` and `Health` never stop.
* Symmetry is used for the clients of `Wallet`, a run without liveness.

### Fairness

Weak fairness of each worker and of each goroutine in `Create` past its save:
the Go scheduler runs whatever can run, and gateway calls end at their deadline.
Nothing forces a client to send or to disconnect, a handler to fail or the bus to
be closed. Breaker and health: the clock advances, the cached result expires, a POST
whose check has begun goes on, and a call in flight returns within its deadline;
nobody has to call. `KeepsLettingIn` has what it needs of the clients as its premise:
as long as they keep posting, payments are let in again and again. Bus:
`HandlerFails` is not fair, so that a handler that need not fail returns in the end.
Read model: goroutines run; requests, failures, `Shutdown` and `Restart` need not
happen, and neither does `Recover`, for a recovery request may wait for ever
(`doc_recovery`): `ViewsCatchUp` excepts a shard that one holds up for good.

### What the runs show of the documentation

Five runs check a sentence of the repository's README and find it violated by
what the code does. Each is in `PROJECT.json` with its quotation.

* `doc_recovery`: the delay before a recovery runs under the request's context,
  which ends when `POST /payments` is answered, and the real delay is a minute.
  So a recovery request is repeated by the bus for ever and republishes nothing,
  and everything behind it on its shard waits. As long as writes
  of `wallets.json` fail finitely often, this is the one way in which a payment can
  remain unsettled (`SettledUnlessStuck`).
* `doc_failed`: a charge under a cancelled context fails the payment, though the
  gateway said nothing and would have accepted its amount.
* `doc_bus_order`: an event is enqueued per handler, so two publishers of one key
  can reach two handlers in opposite orders. (`SettledInOrder` is what holds: a
  shard settles its deliveries in the order of enqueueing.)
* `doc_bus_delivery`: a worker can block on its own full shard. The run uses a
  capacity of 2. With the 256 of `broker.New` it takes as many deliveries
  behind a handler that publishes, for example behind a recovery request.
  (`SettledUnlessGridlock` is what holds.)
* `doc_replay`: a debit that the wallet view counts is gone after a restart, though
  every event was written, for nothing appends `wallet.debited` or
  `wallet.refunded` to the store.

The README's section 3.3.1 names duplicate debits and refunds as what a
production system has to exclude. `DamageBounded` says what they amount to here,
where a failed write of `wallets.json` has the debit or the refund done again on
a balance that was already changed: one extra move per failed write.

## 4. What is proved

TLAPS proves the following for every value of the constants that satisfies the
modules' `ASSUME`s. Each proof is the usual one of an inductive invariant.

| theorem | statement | inductive invariant |
| --- | --- | --- |
| `TypeCorrect` | `Spec => []TypeOK` (workflow) | `TypeInv` |
| `MoneySafe` | `UniqueIDs` implies `Spec => []MoneyMatchesStatus` | `WorkflowInv` |
| `WorkflowImplementsLifecycle` | `UniqueIDs` implies `Spec => ImplementsLifecycle` | `WorkflowInv` |
| `AlwaysInPosition`, `NoPaymentForgotten` | `UniqueIDs` implies `Spec => []WorkflowInv`, `Spec => []NothingForgotten` | `WorkflowInv` |
| `RetriesBounded` | `UniqueIDs` implies `Spec => []RetryBudget` | `WorkflowInv`, `CallsCounted` |
| `ChargesBounded`, `DamageAlwaysBounded` | for finitely many requests, `Spec => []ChargedOncePerSubmission`, `Spec => []DamageBounded` | `DutyInv` |
| `NeverStranded` | `Spec => []DrivenOn` | `TypeInv`, `DrivenOn` |
| `WalletTypeCorrect`, `WalletLedgerExact`, `WalletNeverOverdrawn`, `RestartForgetsOnlyErrors` | the wallet's invariants | `WalletInv` |
| `BreakerTypeCorrect`, `ProbeAlwaysAccounted`, `CountersAlwaysMatch`, `ProbesAlwaysBounded` | the breaker's invariants | `BreakerInv` |
| `HealthImplementsBreaker`, `BreakerSafeBehindHealth` | `HealthSpec => Spec` of the breaker, so its invariants hold behind the health check | none is needed |
| `DoorShutsInTime` | `HealthSpec => []OpenBreakerShutsDoor` | `HealthInv` |
| `InStep`, `ReadTypeCorrect`, `FileInStep`, `ViewsComeToAgree` | if there is a request, `Spec => []ReadInv` and from it `[]TypeOK`, `[]FileFollowsMemory`, `[]ViewsAgree` | `ReadInv` |
| `ReadsGoForward` | if there is a request, `Spec => ImplementsReads` | `ReadInv` |
| `MovesInStep`, `MovementsCountOnce` | if there is a request, `Spec => []MovesInv` and from it `[]MovementsOnce` | `ReadInv`, `MovesInv` |
| `LossesCounted` | if there is a request, `Spec => []FailuresLoseTheirOwn` | `ReadInv`, `LossInv` |
| `BusTypeCorrect`, `BusSettlesInOrder` | `Spec => []TypeOK`, `Spec => []SettledInOrder` (bus) | `BusInv` |
| `BusServesLines` | `Spec => ImplementsLines` | `BusInv`, `TriesLeft` |
| `FollowUpsAccounted`, `FollowUpsCounted` | `Spec => []FollowUpInv`, `Spec => []FollowUpsKeepCount` | `BusInv`, `FollowUpInv` |

* **TypeInv.** A handler copies a user and an amount out of the table into an
  event, and `NoPayment` has no user: so the type needs that every message's
  payment, and every row a `Mark...` has read, was saved by a request
  (`MessagesReal`, `RowsReal`); and attempts stay within five because a recovery
  request never carries more.
* **WorkflowInv.** `UniqueIDs` is that no client uses a payment id twice; failed
  writes of `wallets.json` are allowed. Then a payment has at most one message
  (`OneMessage`), it waits on the shard of its payment (`MessagesHome`), and its name
  and the place of its handler determine the status and what was done to the money
  (`MessagesInPosition`, by the table `Expected`); before its message exists nothing
  has happened (`RequestsInPosition`). What was done is known up to the mishaps:
  `Ledger` has as many debits and refunds beyond the money as writes failed at most,
  and `DebitsTried`, from the attempts of a message, that no debit is done a third
  time, for its recovery is not recovered again. `MoneyMatchesStatus` itself says what
  is left once there is no message. The proof sorts the steps by what they do to a
  message: hand it over to the next event, keep it, drop it. Each step moves one
  payment from a position to the next, or adds a mishap to it, and that is the
  refinement: `AdvanceIsLifecycle` maps every such move to a step of
  `PaymentLifecycle`.
* **CallsCounted** says, for the delivery of a payment, how often the gateway was
  called by then: each turn of the charge loop counts one, and the recovery goes on
  where the loop stopped, except that the recovery of a debit has called it not once.
  That a payment has one delivery comes from `WorkflowInv`.
* **DutyInv** does without unique ids. Each request has at most one delivery, and its
  name says what the handlers from there on may still do with the money (`Duties`:
  debit, refund, charge). What was done for a payment, and what its deliveries may
  still do, is covered by its submissions and the failed writes (`Covered`): a step
  turns a duty into a deed, and a failed write, after which the deed is repeated,
  pays for it with `ioFailures`. Counting needs finitely many requests.
* **DrivenOn** is inductive as it stands, with `TypeInv`. A delivery drives its payment
  if the row has the status at which its handler expects it. A handler that publishes
  does so to a delivery that expects the same status (`HandlersPassOn`), one that saves
  the row expects from then on what it has saved (`SavingDrives`), one that returns
  without publishing has settled the payment, and nothing else changes a row but
  `Initialize`, whose request then has its event still to publish (`RequestsDrive`).
  Which of two chains has written last does not matter, for the last one is at that
  status itself.
* **WalletInv** adds `ReadingsFresh` (a reading is the wallet's balance unless it
  is stale), which is why only a stale `SetIncreased` loses an update, and
  `NothingNegative` for readings and for the file, which a restart brings back.
* **BreakerInv** adds `ProbesInFlight` and the budget `ProbeBudget`: a probe that
  `beforeCall` could still admit counts as well.
* **HealthInv**: while the breaker is open, the good results served so far and the checks
  that may still store one (`Pending`) are at most the checks that were under way when
  it opened, and the result of that moment (`PeriodBudget`). An open breaker lets no
  check through (`AsksInCheck` ties a POST's call to its check), and a breaker that
  turns half-open ends the count.
* **BusInv** is `TypeOK /\ SettledInOrder`, which is inductive as it stands.
* **TriesLeft**: what a worker has in hand may be tried again, and what it has in backoff
  has failed. So the code's `attempt >= MaxAttempts` is the abstract "this was the last
  try", and what `Close` abandons was tried. The proof has a lemma per action that gives
  the line and the tries of the shard after it (`WorkerLeaves`, `OthersStay`).
* **FollowUpInv.** `FollowUpsKeepCount` compares a cause that was settled with a
  follow-up that was enqueued, and says nothing of the time between. The invariant keeps
  an account of it for each cause `c` and follow-up `d`. Nobody but the handler of `c`
  has `d` ahead of it, and that once (`AheadOnce`). What is enqueued of `d`, and what
  its handler or its next attempt may still enqueue (`ToCome`), was paid for by the
  deliveries of `c` that were taken and by failures; and what is settled of `c`, and the
  one in hand that has published `d` already (`Behind`), is covered by what is enqueued
  of `d` and by failures. A failure leaves behind what it repeats, or drops what it had
  ahead, and raises `failures` by one. `InChannel` says that the shard's worker has
  taken the part of the log that is no longer in the channel; unlike `SettledInOrder` it
  holds after `Close` as well, when a delivery in backoff is given up unsettled.
* **ReadInv** holds, for each payment, table, view, records and deliveries together.
  The deliveries about a payment are in an order (`Ordered`): one for the workflow at
  most, and the view's `payment.pending` before the event that ends the payment. So
  the view is behind the table by what is still queued (`ViewBehind`), and
  `ViewsAgree` is what is left when nothing is. The records in memory lead where the
  table is, and the file is one record behind while one goroutine is between the
  halves of `Append` (`RecordsInOrder`): of the two goroutines that write for a payment
  one starts when the other has ended (`CreateFirst`, `WorkersMark`). So after a crash
  the file is ahead of the view, never behind what was read, and that is the
  refinement. Credits of one user do overlap in `Append`, which is why `CreditInOrder`
  counts their records only. The premise that there is a request is needed because the
  event that nobody has in hand is one of them (`Nothing`).

* **MovesInv** is for movements what `ReadInv` is for statuses. A movement waits for the
  projector at most once, and not when its view has it (`MovementOnce`). Why it is not
  sent twice is a matter of its sender: a credit is sent once, after its record was
  written (`CreditFollowed`); a debit is known from the time the wallet reports it until
  a crash, and a refund only once the workflow is done with a failed payment, and
  neither has a record, so that `Replay` cannot apply it again (`PaymentMovements`).
* **LossInv** adds to `FailuresLoseTheirOwn` that the record which a goroutine between the
  halves of `Append` has in hand is the last one in memory; that there is one such
  goroutine at most, of the two that write for a payment, follows from `ReadInv`. For a payment a step
  then leaves the records alone, begins an `Append`, ends one, written or lost, or
  restarts from the file; a lemma for each (`Begun`, `Ended`) counts what memory and
  file have gained.
* `Replay` is in `ReadModel` in closed form: the last record that sets a status. That
  this is what records applied one by one leave is a lemma (`InOrderIsReplayed`), an
  induction over the file without an induction theorem: the least position at which
  the two differ cannot exist.

Only model-checked: what needs fairness and `ENABLED` (`SettledUnlessStuck`,
`RefusesOnlyForAWhile`, `KeepsLettingIn`, `SettledUnlessGridlock`, `CloseReturns`,
`ViewsCatchUp`). Every safety property of the passing runs has a theorem.

## 5. Not modelled

* A crash of the process in the middle of a workflow, in `PaymentWorkflow`: the payments
  table and the shards are in memory and are gone, while `wallets.json` keeps the debit.
  Nothing in the code takes such a payment up again. What a restart leaves of wallets
  is in `Wallet`, of events and views in `ReadModel`.
* Audit, metrics and notification: observers, which nothing of the workflow reads.
  The counters of succeeded and failed payments, debits and refunds are raised by the
  services and once more by `metrics_event.go`: every event counts twice. That is seen
  by reading the two lines; nothing interleaves.
* The amounts of a wallet view. It starts at zero with its first event, not at the
  balance of `wallets.json`, and `GET /wallet/` answers from the table until there is
  a view: so the answer changes from the table's balance to the sum of the movements
  since. `ReadModel` counts movements, and says which of them a view has.
* What the bus does with a delivery enqueued while `Close` runs: the worker may be
  gone, and then it is lost. Nothing promises otherwise.
* A bounded shard in `PaymentWorkflow` and `ReadModel`: `Bus` has it. Composing them
  would add `Gridlock` to what excuses a payment that is not settled.
* `cmd/consumers/main.go`, a process whose bus nobody publishes to; the repositories
  neither program uses; `payment.submitted` and `payment.dlq`, which nobody
  publishes; `recovery.Service`, a log line; logging, configuration, JSON decoding
  beyond "refused"; the length of delays.

## 6. Plan

1. Done: the workflow with its wallet and the abstract lifecycle; the wallet service;
   the breaker, behind the health check; the bus; the event store and the read model
   with what clients may rely on; the theorems above.
2. Done since: movements and `Replay` as theorems; the workflow's theorems with failed
   writes, so that unique ids are all they assume; the account of follow-ups on the bus,
   and the bus as an implementation of `EventLines`; what failed writes
   of the store lose, an open breaker and the front door, payment ids used again.
3. Open: `PaymentWorkflow` over `EventLines` instead of queues of its own, and the
   capacity that excludes `Gridlock` for its events.
