--------------------------- MODULE PaymentWorkflow ---------------------------
(***************************************************************************)
(* The payment workflow of cmd/web: POST /payments saves a payment and     *)
(* publishes payment.initialized; the handlers subscribed to the bus then  *)
(* debit the wallet, call the gateway, retry, recover, and record the      *)
(* result, each publishing the event that triggers the next one.           *)
(*                                                                         *)
(* The bus hashes an event's PartitionKey, which is the payment id for     *)
(* every event of the workflow, to a shard; a shard has one queue and one  *)
(* worker goroutine.  The delivery a worker is busy with is the head of    *)
(* its queue here: it is dropped when its handler returns nil and stays    *)
(* (the bus retries it, without limit) when the handler returns an error.  *)
(* A handler runs on the shard of its event and publishes events with the  *)
(* same key, hence onto its own queue.                                     *)
(*                                                                         *)
(* Every delivery carries the context of the HTTP request it descends      *)
(* from: Publish is given r.Context(), and handlers pass it on.  net/http  *)
(* cancels that context when the handler of the request returns.           *)
(*                                                                         *)
(* Left out: the subscribers that only observe (audit, metrics,            *)
(* notification, read model), the limit of a shard's buffer, and the state *)
(* of the circuit breaker, whose refusal is an outcome any call may have.  *)
(***************************************************************************)
EXTENDS Sequences, FiniteSets, WalletStore

CONSTANTS
  PaymentIDs,   \* payment ids that clients use
  Shards,       \* the bus's shards, one worker each
  ShardOf,      \* shardForKey: the shard a payment id is hashed to
  Requests,     \* the POST /payments requests
  ReqPayment,   \* the payment id in the body of a request
  ReqUser,      \* the user id in the body of a request
  ReqAmount,    \* the amount in the body of a request
  NoUser        \* the user of no payment

ASSUME WorkflowAssumption ==
  /\ ShardOf \in [PaymentIDs -> Shards]
  /\ ReqPayment \in [Requests -> PaymentIDs]
  /\ ReqUser \in [Requests -> Users]
  /\ ReqAmount \in [Requests -> Balances]
  /\ NoUser \notin Users

VARIABLES
  http,        \* how far the goroutine of a request got in Payment.Create
  cancelled,   \* whether the context of a request is cancelled
  payments,    \* the payments table
  queue,       \* deliveries of each shard; the head is being handled
  wpc,         \* where the worker of a shard is inside the handler
  loaded,      \* the copy of the payment a Mark... method works on
  balance,     \* the balance Refund has read
  attempt,     \* HandleChargeRequested's local attempt, 0 before the loop
  erred,       \* the head delivery has already returned an error
  \* History, for the properties: per payment, how often
  debits,      \* the wallet was debited
  refunds,     \* the wallet was credited back
  charges,     \* the gateway accepted a charge
  calls        \* Charge was called

workerVars == <<wpc, loaded, balance, attempt, erred>>
historyVars == <<debits, refunds, charges, calls>>
vars == <<http, cancelled, payments, queue, workerVars, historyVars, walletVars>>

-----------------------------------------------------------------------------
(* The data of the workflow. *)

Statuses == {"none", "initialized", "pending", "rejected", "succeeded", "failed"}

\* Error classes: the reason a payment, or an event, carries.
Reasons == {"none", "insufficient", "db_internal", "timeout", "server", "client",
            "open", "canceled"}

EventNames == {"payment.initialized", "wallet.debit_requested",
               "wallet.debited", "wallet.debit_rejected",
               "payment.charge_requested", "payment.charge_succeeded",
               "payment.charge_failed", "wallet.refund_requested",
               "recovery.requested"}

Actions == {"none", "payment.charge", "wallet.debit"}

\* HandleChargeRequested stops retrying at this attempt.
MaxAttempts == 5

Payment == [user : Users \union {NoUser}, amount : Balances,
            status : Statuses, reason : Reasons]

\* The table has no row for the id: Get returns ErrNotFound.
NoPayment == [user |-> NoUser, amount |-> 0, status |-> "none", reason |-> "none"]

\* The events of the workflow, with one record type for all: a field that the
\* Go type of an event lacks is 0, "none" or inherited, and no handler of that event
\* reads it.  req is not a field of the event but the context of its delivery.
Message == [ev : EventNames, pid : PaymentIDs, req : Requests, user : Users,
            amount : 1 .. MaxInt, attempt : 0 .. MaxAttempts + 1,
            reason : Reasons, action : Actions]

\* The event ev of the same payment, user and request context as m.
Follow(m, ev) == [m EXCEPT !.ev = ev, !.attempt = 0, !.reason = "none", !.action = "none"]

\* An event that a handler fills from the payments table rather than from
\* the event it handles.
FromTable(m, ev, n) ==
  [Follow(m, ev) EXCEPT !.user = payments[m.pid].user,
                        !.amount = payments[m.pid].amount, !.attempt = n]

-----------------------------------------------------------------------------
(* POST /payments. *)

\* Decode or health.Check failed, or the service found the request invalid:
\* 400 or 503, and nothing is saved or published.
CreateRefused(r) ==
  /\ http[r] = "start"
  /\ http' = [http EXCEPT ![r] = "refused"]
  /\ UNCHANGED <<cancelled, payments, queue, workerVars, historyVars, walletVars>>

\* Service.Initialize: validate and upsert.  The upsert replaces whatever the
\* table held under that id.
CreateInitialize(r) ==
  /\ http[r] = "start"
  /\ ReqAmount[r] > 0
  /\ http' = [http EXCEPT ![r] = "saved"]
  /\ payments' = [payments EXCEPT ![ReqPayment[r]] =
                    [user |-> ReqUser[r], amount |-> ReqAmount[r],
                     status |-> "initialized", reason |-> "none"]]
  /\ UNCHANGED <<cancelled, queue, workerVars, historyVars, walletVars>>

\* Mutant: an id that was published before is taken for a duplicate, after the row
\* was saved.
CreatePublishOnce(r) ==
  /\ http[r] = "saved"
  /\ http' = [http EXCEPT ![r] = "published"]
  /\ queue' =
       IF \E other \in Requests :
            ReqPayment[other] = ReqPayment[r] /\ http[other] \in {"published", "replied"}
       THEN queue
       ELSE [queue EXCEPT ![ShardOf[ReqPayment[r]]] =
               Append(@, [ev |-> "payment.initialized", pid |-> ReqPayment[r],
                          req |-> r, user |-> ReqUser[r],
                          amount |-> ReqAmount[r], attempt |-> 0,
                          reason |-> "none", action |-> "none"])]
  /\ UNCHANGED <<cancelled, payments, workerVars, historyVars, walletVars>>

\* Publish payment.created, which only observers subscribe to, and then
\* payment.initialized.
CreatePublish(r) ==
  /\ http[r] = "saved"
  /\ http' = [http EXCEPT ![r] = "published"]
  /\ queue' = [queue EXCEPT ![ShardOf[ReqPayment[r]]] =
                 Append(@, [ev |-> "payment.initialized", pid |-> ReqPayment[r],
                            req |-> r, user |-> ReqUser[r],
                            amount |-> ReqAmount[r], attempt |-> 0,
                            reason |-> "none", action |-> "none"])]
  /\ UNCHANGED <<cancelled, payments, workerVars, historyVars, walletVars>>

\* Create returns after 202, and net/http cancels the request's context.
CreateReturn(r) ==
  /\ http[r] = "published"
  /\ http' = [http EXCEPT ![r] = "replied"]
  /\ cancelled' = [cancelled EXCEPT ![r] = TRUE]
  /\ UNCHANGED <<payments, queue, workerVars, historyVars, walletVars>>

\* The client closes the connection while Create runs: net/http cancels the
\* context, and Create, which never looks at it, goes on.
ClientDisconnect(r) ==
  /\ http[r] \in {"start", "saved", "published"}
  /\ ~cancelled[r]
  /\ cancelled' = [cancelled EXCEPT ![r] = TRUE]
  /\ UNCHANGED <<http, payments, queue, workerVars, historyVars, walletVars>>

-----------------------------------------------------------------------------
(* The worker of a shard. *)

\* The worker of s is at place at in the handler of an event called ev.
At(s, at, ev) ==
  /\ queue[s] # <<>>
  /\ wpc[s] = at
  /\ Head(queue[s]).ev = ev

\* The handler goes on to place at.
Goto(s, at) == wpc' = [wpc EXCEPT ![s] = at]

\* The handler returned nil: processDelivery ends, the next delivery starts
\* with fresh locals.
Finish(s) ==
  /\ wpc' = [wpc EXCEPT ![s] = "run"]
  /\ loaded' = [loaded EXCEPT ![s] = NoPayment]
  /\ balance' = [balance EXCEPT ![s] = 0]
  /\ attempt' = [attempt EXCEPT ![s] = 0]
  /\ erred' = [erred EXCEPT ![s] = FALSE]

Return(s) ==
  /\ queue' = [queue EXCEPT ![s] = Tail(@)]
  /\ Finish(s)

\* The handler published m as its last act and returned nil.
PublishAndReturn(s, m) ==
  /\ queue' = [queue EXCEPT ![s] = Append(Tail(@), m)]
  /\ Finish(s)

\* The handler returned an error: processDelivery waits for the backoff and
\* calls it again from its start with the same event.
ReturnError(s) ==
  /\ wpc' = [wpc EXCEPT ![s] = "run"]
  /\ balance' = [balance EXCEPT ![s] = 0]
  /\ erred' = [erred EXCEPT ![s] = TRUE]
  /\ UNCHANGED <<queue, loaded, attempt>>

HandlePaymentInitialized(s) ==
  LET m == Head(queue[s]) IN
  /\ At(s, "run", "payment.initialized")
  /\ PublishAndReturn(s, [Follow(m, "wallet.debit_requested") EXCEPT !.attempt = 1])
  /\ UNCHANGED <<http, cancelled, payments, historyVars, walletVars>>

\* Mutant: the error of Debit is not looked at.
DebitRefusedIgnored(s) ==
  LET m == Head(queue[s]) IN
  /\ At(s, "run", "wallet.debit_requested")
  /\ ~SufficientFunds(m.user, m.amount)
  /\ PublishAndReturn(s, Follow(m, "wallet.debited"))
  /\ UNCHANGED <<http, cancelled, payments, historyVars, walletVars>>

\* HandleWalletDebitRequested, Debit refused: insufficient funds.
DebitRefused(s) ==
  LET m == Head(queue[s]) IN
  /\ At(s, "run", "wallet.debit_requested")
  /\ ~SufficientFunds(m.user, m.amount)
  /\ PublishAndReturn(s, [Follow(m, "wallet.debit_rejected") EXCEPT !.reason = "insufficient"])
  /\ UNCHANGED <<http, cancelled, payments, historyVars, walletVars>>

\* What HandleWalletDebitRequested publishes when Debit fails with ErrInternal:
\* a recovery request on the first attempt, a rejection afterwards.
DebitFailureEvent(m) ==
  IF m.attempt = 1
  THEN [Follow(m, "recovery.requested")
          EXCEPT !.reason = "db_internal", !.action = "wallet.debit", !.attempt = 1]
  ELSE [Follow(m, "wallet.debit_rejected") EXCEPT !.reason = "db_internal"]

\* HandleWalletDebitRequested, funds suffice.  When the file cannot be
\* written (~ok) the balance is already lower and Debit still fails.
DebitApplied(s, ok) ==
  LET m == Head(queue[s]) IN
  /\ At(s, "run", "wallet.debit_requested")
  /\ DebitBalance(m.user, m.amount, ok)
  /\ PublishAndReturn(s, IF ok THEN Follow(m, "wallet.debited") ELSE DebitFailureEvent(m))
  /\ debits' = [debits EXCEPT ![m.pid] = @ + 1]
  /\ UNCHANGED <<http, cancelled, payments, refunds, charges, calls>>

HandleWalletDebitRequested(s) ==
  \/ DebitRefused(s)
  \/ \E ok \in BOOLEAN : DebitApplied(s, ok)

-----------------------------------------------------------------------------
(* The Mark... methods of payment.Service: Get, change the copy, Save.     *)
(* Another request's Initialize can fall between the two.                  *)

MarkEvents == {"wallet.debited", "wallet.debit_rejected",
               "payment.charge_succeeded", "payment.charge_failed"}

\* repository.Get at the start of a Mark... method.
MarkGet(s) ==
  /\ \E ev \in MarkEvents : At(s, "run", ev)
  /\ loaded' = [loaded EXCEPT ![s] = payments[Head(queue[s]).pid]]
  /\ Goto(s, "mark")
  /\ UNCHANGED <<http, cancelled, payments, queue, balance, attempt, erred,
                 historyVars, walletVars>>

\* repository.Save of the copy with a new status (and reason).
Save(s, status, reason) ==
  payments' = [payments EXCEPT ![Head(queue[s]).pid] =
                 [loaded[s] EXCEPT !.status = status, !.reason = reason]]

\* Mutant: the status is not saved.
MarkPendingUnsaved(s) ==
  /\ At(s, "mark", "wallet.debited")
  /\ Goto(s, "next")
  /\ UNCHANGED <<http, cancelled, payments, queue, loaded, balance, attempt, erred,
                 historyVars, walletVars>>

\* PaymentFlowEvent.HandleWalletDebited, first half.
MarkPending(s) ==
  /\ At(s, "mark", "wallet.debited")
  /\ Save(s, "pending", loaded[s].reason)
  /\ Goto(s, "next")
  /\ UNCHANGED <<http, cancelled, queue, loaded, balance, attempt, erred,
                 historyVars, walletVars>>

\* Mutant: nothing is published.
RequestChargeSilent(s) ==
  /\ At(s, "next", "wallet.debited")
  /\ Return(s)
  /\ UNCHANGED <<http, cancelled, payments, historyVars, walletVars>>

\* PaymentFlowEvent.HandleWalletDebited, second half: Get again and publish.
RequestCharge(s) ==
  LET m == Head(queue[s]) IN
  /\ At(s, "next", "wallet.debited")
  /\ PublishAndReturn(s, FromTable(m, "payment.charge_requested", 1))
  /\ UNCHANGED <<http, cancelled, payments, historyVars, walletVars>>

\* PaymentFlowEvent.HandleWalletDebitRejected.
MarkRejected(s) ==
  /\ At(s, "mark", "wallet.debit_rejected")
  /\ Save(s, "rejected", Head(queue[s]).reason)
  /\ Return(s)
  /\ UNCHANGED <<http, cancelled, historyVars, walletVars>>

\* PaymentResultEvent.HandleChargeSucceeded.
MarkSucceeded(s) ==
  /\ At(s, "mark", "payment.charge_succeeded")
  /\ Save(s, "succeeded", loaded[s].reason)
  /\ Return(s)
  /\ UNCHANGED <<http, cancelled, historyVars, walletVars>>

\* PaymentResultEvent.HandleChargeFailed, first half.
MarkFailed(s) ==
  /\ At(s, "mark", "payment.charge_failed")
  /\ Save(s, "failed", Head(queue[s]).reason)
  /\ Goto(s, "next")
  /\ UNCHANGED <<http, cancelled, queue, loaded, balance, attempt, erred,
                 historyVars, walletVars>>

\* Mutant: the refund is forgotten.
RequestRefundSilent(s) ==
  /\ At(s, "next", "payment.charge_failed")
  /\ Return(s)
  /\ UNCHANGED <<http, cancelled, payments, historyVars, walletVars>>

\* PaymentResultEvent.HandleChargeFailed, second half: Get again and publish.
RequestRefund(s) ==
  LET m == Head(queue[s]) IN
  /\ At(s, "next", "payment.charge_failed")
  /\ PublishAndReturn(s, FromTable(m, "wallet.refund_requested", 0))
  /\ UNCHANGED <<http, cancelled, payments, historyVars, walletVars>>

-----------------------------------------------------------------------------
(* PaymentEvent.HandleChargeRequested: one step per turn of its loop. *)

\* FakeGateway.Charge when nothing interrupts it.
Verdict(amount) ==
  CASE amount % 5 = 0                                       -> "timeout"
    [] amount % 5 # 0 /\ amount % 11 = 0                     -> "client"
    [] amount % 5 # 0 /\ amount % 11 # 0 /\ amount % 7 = 0   -> "server"
    [] amount % 5 # 0 /\ amount % 11 # 0 /\ amount % 7 # 0   -> "ok"

\* What a call through the circuit breaker may return.  The breaker can refuse
\* any call before it looks at the context.  A cancelled context ends the call
\* at once; on a live one the 200ms deadline can expire before the verdict.
Outcomes(m) ==
  {"open"} \union (IF cancelled[m.req] THEN {"canceled"} ELSE {Verdict(m.amount), "timeout"})

Retryable(outcome) == outcome \in {"timeout", "server", "open"}

\* The attempt number of this turn of the loop.
Attempt(s) == IF attempt[s] = 0 THEN Head(queue[s]).attempt ELSE attempt[s]

\* Every turn is one call of the gateway that returns outcome.
Charge(s, outcome) ==
  /\ At(s, "run", "payment.charge_requested")
  /\ outcome \in Outcomes(Head(queue[s]))
  /\ calls' = [calls EXCEPT ![Head(queue[s]).pid] = @ + 1]
  /\ UNCHANGED <<http, cancelled, payments, debits, refunds, walletVars>>

\* Mutant: the handler publishes but does not return nil, and runs again.
ChargeSucceedsAgain(s) ==
  LET m == Head(queue[s]) IN
  /\ Charge(s, "ok")
  /\ charges' = [charges EXCEPT ![m.pid] = @ + 1]
  /\ queue' = [queue EXCEPT ![s] = Append(@, Follow(m, "payment.charge_succeeded"))]
  /\ UNCHANGED workerVars

ChargeSucceeds(s) ==
  LET m == Head(queue[s]) IN
  /\ Charge(s, "ok")
  /\ charges' = [charges EXCEPT ![m.pid] = @ + 1]
  /\ PublishAndReturn(s, Follow(m, "payment.charge_succeeded"))

\* Mutant: one turn too many.
ChargeRetriesOnceMore(s, outcome) ==
  /\ Charge(s, outcome)
  /\ Retryable(outcome)
  /\ Attempt(s) <= MaxAttempts
  /\ attempt' = [attempt EXCEPT ![s] = Attempt(s) + 1]
  /\ UNCHANGED <<queue, wpc, loaded, balance, erred, charges>>

\* Sleep for the linear backoff and go round the loop.
ChargeRetries(s, outcome) ==
  /\ Charge(s, outcome)
  /\ Retryable(outcome)
  /\ Attempt(s) < MaxAttempts
  /\ attempt' = [attempt EXCEPT ![s] = Attempt(s) + 1]
  /\ UNCHANGED <<queue, wpc, loaded, balance, erred, charges>>

\* Mutant: every recovered charge may be recovered again.
ChargeExhaustedRepeatedly(s, outcome) ==
  LET m == Head(queue[s]) IN
  /\ Charge(s, outcome)
  /\ Retryable(outcome)
  /\ Attempt(s) >= MaxAttempts
  /\ PublishAndReturn(s, [Follow(m, "recovery.requested")
                            EXCEPT !.reason = outcome, !.action = "payment.charge",
                                   !.attempt = Attempt(s)])
  /\ UNCHANGED charges

ChargeExhausted(s, outcome) ==
  LET m == Head(queue[s]) IN
  /\ Charge(s, outcome)
  /\ Retryable(outcome)
  /\ Attempt(s) = MaxAttempts
  /\ PublishAndReturn(s, [Follow(m, "recovery.requested")
                            EXCEPT !.reason = outcome, !.action = "payment.charge",
                                   !.attempt = Attempt(s)])
  /\ UNCHANGED charges

\* A client error, a retryable error after recovery, or any other error.
ChargeFails(s, outcome) ==
  LET m == Head(queue[s]) IN
  /\ Charge(s, outcome)
  /\ outcome # "ok"
  /\ ~Retryable(outcome) \/ Attempt(s) > MaxAttempts
  /\ PublishAndReturn(s, [Follow(m, "payment.charge_failed") EXCEPT !.reason = outcome])
  /\ UNCHANGED charges

HandleChargeRequested(s) ==
  \/ ChargeSucceeds(s)
  \/ \E outcome \in Reasons :
       \/ ChargeRetries(s, outcome)
       \/ ChargeExhausted(s, outcome)
       \/ ChargeFails(s, outcome)

-----------------------------------------------------------------------------
(* WalletEvent.HandleWalletRefundRequested: Refund reads the balance and   *)
(* then sets it, in two calls of the database.                             *)

RefundRead(s) ==
  /\ At(s, "run", "wallet.refund_requested")
  /\ balance' = [balance EXCEPT ![s] = GetBalance(Head(queue[s]).user)]
  /\ Goto(s, "refund")
  /\ UNCHANGED <<http, cancelled, payments, queue, loaded, attempt, erred,
                 historyVars, walletVars>>

\* Mutant: the handler fails although the refund went through.
RefundWriteFails(s, ok) ==
  LET m == Head(queue[s]) IN
  /\ At(s, "refund", "wallet.refund_requested")
  /\ SetBalance(m.user, AddInt64(balance[s], m.amount), ok)
  /\ refunds' = [refunds EXCEPT ![m.pid] = @ + 1]
  /\ ReturnError(s)
  /\ UNCHANGED <<http, cancelled, payments, debits, charges, calls>>

\* When the file cannot be written (~ok) the balance is already higher and
\* the handler returns the error, so the bus runs the refund again.
RefundWrite(s, ok) ==
  LET m == Head(queue[s]) IN
  /\ At(s, "refund", "wallet.refund_requested")
  /\ SetBalance(m.user, AddInt64(balance[s], m.amount), ok)
  /\ refunds' = [refunds EXCEPT ![m.pid] = @ + 1]
  /\ IF ok THEN Return(s) ELSE ReturnError(s)
  /\ UNCHANGED <<http, cancelled, payments, debits, charges, calls>>

HandleWalletRefundRequested(s) ==
  \/ RefundRead(s)
  \/ \E ok \in BOOLEAN : RefundWrite(s, ok)

-----------------------------------------------------------------------------
(* RecoveryEvent.HandleRecoveryRequested. *)

\* What the handler publishes once the delay is over.
RecoveredEvent(m) ==
  FromTable(m, IF m.action = "payment.charge" THEN "payment.charge_requested"
                                              ELSE "wallet.debit_requested",
            m.attempt + 1)

\* The delay elapsed while the context was alive.
RecoveryResumes(s) ==
  LET m == Head(queue[s]) IN
  /\ At(s, "run", "recovery.requested")
  /\ ~cancelled[m.req]
  /\ PublishAndReturn(s, RecoveredEvent(m))
  /\ UNCHANGED <<http, cancelled, payments, historyVars, walletVars>>

\* sleep returns ctx.Err(), and so does the handler.
RecoveryInterrupted(s) ==
  /\ At(s, "run", "recovery.requested")
  /\ cancelled[Head(queue[s]).req]
  /\ ReturnError(s)
  /\ UNCHANGED <<http, cancelled, payments, historyVars, walletVars>>

HandleRecoveryRequested(s) == RecoveryResumes(s) \/ RecoveryInterrupted(s)

-----------------------------------------------------------------------------

HandleWalletDebited(s) == MarkPending(s) \/ RequestCharge(s)
HandleChargeFailed(s) == MarkFailed(s) \/ RequestRefund(s)

Worker(s) ==
  \/ HandlePaymentInitialized(s)
  \/ HandleWalletDebitRequested(s)
  \/ MarkGet(s)
  \/ HandleWalletDebited(s)
  \/ MarkRejected(s)
  \/ HandleChargeRequested(s)
  \/ MarkSucceeded(s)
  \/ HandleChargeFailed(s)
  \/ HandleWalletRefundRequested(s)
  \/ HandleRecoveryRequested(s)

Create(r) ==
  \/ CreateRefused(r) \/ CreateInitialize(r)
  \/ CreatePublish(r) \/ CreateReturn(r)

Init ==
  /\ WalletInit
  /\ http = [r \in Requests |-> "start"]
  /\ cancelled = [r \in Requests |-> FALSE]
  /\ payments = [p \in PaymentIDs |-> NoPayment]
  /\ queue = [s \in Shards |-> <<>>]
  /\ wpc = [s \in Shards |-> "run"]
  /\ loaded = [s \in Shards |-> NoPayment]
  /\ balance = [s \in Shards |-> 0]
  /\ attempt = [s \in Shards |-> 0]
  /\ erred = [s \in Shards |-> FALSE]
  /\ debits = [p \in PaymentIDs |-> 0]
  /\ refunds = [p \in PaymentIDs |-> 0]
  /\ charges = [p \in PaymentIDs |-> 0]
  /\ calls = [p \in PaymentIDs |-> 0]

Next ==
  \/ \E r \in Requests : Create(r) \/ ClientDisconnect(r)
  \/ \E s \in Shards : Worker(s)

Spec == Init /\ [][Next]_vars

\* Go runs every goroutine that can run: a worker with a delivery, and the
\* goroutine of a request that is inside Create.  Clients need not send, and
\* need not disconnect.
Fairness ==
  /\ \A s \in Shards : WF_vars(Worker(s))
  /\ \A r \in Requests : WF_vars(CreatePublish(r) \/ CreateReturn(r))

FairSpec == Spec /\ Fairness

-----------------------------------------------------------------------------
(* Properties. *)

\* The type of the state.
TypeOK ==
  /\ WalletTypeOK
  /\ http \in [Requests -> {"start", "saved", "published", "replied", "refused"}]
  /\ cancelled \in [Requests -> BOOLEAN]
  /\ payments \in [PaymentIDs -> Payment]
  /\ queue \in [Shards -> Seq(Message)]
  /\ wpc \in [Shards -> {"run", "mark", "next", "refund"}]
  /\ loaded \in [Shards -> Payment]
  /\ balance \in [Shards -> Balances]
  /\ attempt \in [Shards -> 0 .. MaxAttempts]
  /\ erred \in [Shards -> BOOLEAN]
  /\ debits \in [PaymentIDs -> Nat]
  /\ refunds \in [PaymentIDs -> Nat]
  /\ charges \in [PaymentIDs -> Nat]
  /\ calls \in [PaymentIDs -> Nat]

\* Clients never use a payment id twice.  Nothing in the code enforces it.
UniqueIDs ==
  \A r1, r2 \in Requests : ReqPayment[r1] = ReqPayment[r2] => r1 = r2

\* Some delivery of the workflow concerns payment p.
InFlight(p) ==
  \E s \in Shards : \E i \in 1 .. Len(queue[s]) : queue[s][i].pid = p

\* What may have happened to the money of a payment of this status: nothing, or
\* nothing that was reported as done; it was debited ("held"), debited and charged
\* ("captured"), debited and refunded ("released").
MoneyOf(status) ==
  CASE status \in {"none", "rejected"} -> {"none"}
    [] status = "initialized"         -> {"none", "held"}
    [] status = "pending"             -> {"held", "captured"}
    [] status = "succeeded"           -> {"captured"}
    [] status = "failed"              -> {"held", "released"}

\* The debits and refunds of p beyond those that money stands for.
Mishaps(p, money) ==
  debits[p] + refunds[p] - (CASE money = "none"                 -> 0
                              [] money \in {"held", "captured"} -> 1
                              [] money = "released"             -> 2
                              [] OTHER                          -> 0)

\* What was done to the money of p is what money says, but for debits and refunds
\* that were reported as an error because wallets.json could not be written.
Ledger(p, money) ==
  /\ Mishaps(p, money) \in 0 .. ioFailures
  /\ debits[p] <= 2
  /\ debits[p] > 0 => payments[p].status # "none"
  /\ refunds[p] > 0 => payments[p].status = "failed"
  /\ money # "none" => debits[p] > 0
  /\ money = "released" => refunds[p] > 0
  /\ charges[p] = IF money = "captured" THEN 1 ELSE 0

\* The status of a payment and what was done to the money agree, whatever the
\* workers of other payments, the retries and the cancelled contexts do: no
\* rejected payment keeps a debit, every succeeded one was debited and charged
\* exactly once and never refunded, no failed one was charged, and none was
\* debited, charged or refunded once more but for a write of wallets.json that
\* failed, and never debited a third time.  (wallet_event.go, payment_event.go,
\* payment_flow_event.go and payment_result_event.go together; it needs unique
\* payment ids.)
MoneyMatchesStatus ==
  \A p \in PaymentIDs : \E money \in MoneyOf(payments[p].status) : Ledger(p, money)

\* Nothing remains to be done for p: its status is final, and the money of a
\* failed payment is back in the wallet.
Settled(p) ==
  \/ payments[p].status \in {"rejected", "succeeded"}
  \/ payments[p].status = "failed" /\ refunds[p] > 0

\* No payment is forgotten half-way: once Create has published its event, a
\* payment that is not settled has an event on the bus that will drive it on,
\* whichever handlers failed, retried or gave up.
NothingForgotten ==
  \A r \in Requests :
    http[r] \in {"published", "replied"} =>
      Settled(ReqPayment[r]) \/ InFlight(ReqPayment[r])

\* HandleChargeRequested and HandleRecoveryRequested never call the gateway
\* more than five times and, after one recovery, once more for a payment.
RetryBudget ==
  \A p \in PaymentIDs : calls[p] <= MaxAttempts + 1

\* The requests for payment p that Create has accepted.
Submissions(p) ==
  {r \in Requests : ReqPayment[r] = p /\ http[r] \in {"published", "replied"}}

\* Even when a client reuses a payment id and writes of wallets.json fail, the
\* gateway accepts at most one charge per accepted POST /payments.
ChargedOncePerSubmission ==
  \A p \in PaymentIDs : charges[p] <= Cardinality(Submissions(p))

\* Each failed write of wallets.json costs at most one extra debit or one extra
\* refund: beyond one of each for every accepted POST /payments, a wallet moves
\* no more often for a payment than writes have failed, also when its id is
\* reused; and nothing is given back that was not taken.
DamageBounded ==
  \A p \in PaymentIDs :
    LET n == Cardinality(Submissions(p)) IN
    /\ debits[p] + refunds[p] <= 2 * n + ioFailures
    /\ debits[p] <= n + ioFailures
    /\ debits[p] = 0 => refunds[p] = 0

\* Some delivery of event ev concerns payment p.
Carried(p, ev) ==
  \E s \in Shards : \E i \in 1 .. Len(queue[s]) : queue[s][i].pid = p /\ queue[s][i].ev = ev

\* The wallet has reported the debit of p, and not yet a refund.
Held(p) ==
  \/ payments[p].status = "initialized" /\ Carried(p, "wallet.debited")
  \/ payments[p].status = "pending"
  \/ payments[p].status = "failed" /\ InFlight(p)

\* The money of p in the terms of PaymentLifecycle.
Money(p) ==
  CASE charges[p] = 0 /\ Held(p)                                         -> "held"
    [] charges[p] = 0 /\ ~Held(p)                                        ->
         IF payments[p].status = "failed" THEN "released" ELSE "none"
    [] charges[p] = 1 /\ payments[p].status \in {"pending", "succeeded"} -> "captured"
    [] OTHER                                                            -> "corrupt"

Lifecycle == INSTANCE PaymentLifecycle
  WITH status   <- [p \in PaymentIDs |-> payments[p].status],
       money    <- [p \in PaymentIDs |-> Money(p)],
       mishaps  <- [p \in PaymentIDs |-> Mishaps(p, Money(p))],
       failures <- ioFailures

\* The workflow implements the lifecycle: every step of every handler moves a
\* payment along PaymentLifecycle or leaves it where it is, and what it does to the
\* wallet beyond that, it does because a write has failed.
ImplementsLifecycle == Lifecycle!LifecycleSpec

\* The worker of s retries, for ever, a recovery request whose HTTP request is
\* over.
Stuck(s) ==
  /\ queue[s] # <<>>
  /\ Head(queue[s]).ev = "recovery.requested"
  /\ cancelled[Head(queue[s]).req]
  /\ erred[s]

\* Every payment Create has accepted is settled in the end, also when charges
\* are retried, a few writes of wallets.json fail and clients go away, unless the
\* worker of its shard got stuck on a recovery request, its own or that of
\* another payment of the shard.  No other delivery can hold a worker up, as long as
\* writes fail finitely often (MaxIOFailures): under a write that fails for ever the
\* bus would repeat a refund for ever too.
SettledUnlessStuck ==
  \A r \in Requests :
    http[r] = "published" ~>
      (Settled(ReqPayment[r]) \/ Stuck(ShardOf[ReqPayment[r]]))

-----------------------------------------------------------------------------
(* Inductive invariants, for PaymentWorkflowProofs. *)

\* A row that a request has saved.
RealRow(row) ==
  row.user \in Users /\ row.amount \in 1 .. MaxInt /\ row.status # "none"

\* What makes TypeOK inductive: a handler copies a user and an amount from the
\* table only for payments that are in it, and attempts stay within the limits
\* of HandleChargeRequested and one recovery.
RowsReal ==
  /\ \A r \in Requests :
       http[r] \in {"saved", "published", "replied"} =>
         ReqAmount[r] > 0 /\ RealRow(payments[ReqPayment[r]])
  /\ \A s \in Shards : wpc[s] = "mark" => RealRow(loaded[s])

MessagesReal ==
  \A s \in Shards : \A i \in DOMAIN queue[s] :
    LET m == queue[s][i] IN
    /\ RealRow(payments[m.pid])
    /\ m.ev = "recovery.requested" => m.attempt \in 1 .. MaxAttempts
    /\ m.ev = "payment.charge_requested" => m.attempt > 0

TypeInv == TypeOK /\ RowsReal /\ MessagesReal

\* A message waits on the shard of its payment, and descends from the request
\* for that payment.
MessagesHome ==
  \A s \in Shards : \A i \in DOMAIN queue[s] :
    LET m == queue[s][i] IN
    /\ ShardOf[m.pid] = s
    /\ ReqPayment[m.req] = m.pid
    /\ http[m.req] \in {"published", "replied"}

\* A payment never has two messages: its handlers form a single chain.
OneMessage ==
  \A s \in Shards : \A i, j \in DOMAIN queue[s] :
    queue[s][i].pid = queue[s][j].pid => i = j

\* The status of a payment whose message is m, and its money, when the handler of m
\* is at place at: at "next" it has already saved the new status.
Expected(m, at) ==
  CASE m.ev = "payment.initialized"      -> <<"initialized", "none">>
    [] m.ev = "wallet.debit_requested"   -> <<"initialized", "none">>
    [] m.ev = "wallet.debit_rejected"    -> <<"initialized", "none">>
    [] m.ev = "wallet.debited"           -> <<IF at = "next" THEN "pending" ELSE "initialized", "held">>
    [] m.ev = "payment.charge_requested" -> <<"pending", "held">>
    [] m.ev = "recovery.requested"       ->
         IF m.action = "payment.charge" THEN <<"pending", "held">> ELSE <<"initialized", "none">>
    [] m.ev = "payment.charge_succeeded" -> <<"pending", "captured">>
    [] m.ev = "payment.charge_failed"    -> <<IF at = "next" THEN "failed" ELSE "pending", "held">>
    [] m.ev = "wallet.refund_requested"  -> <<"failed", "held">>

\* A payment is at a position, which is a status and its money.
InPosition(p, position) ==
  payments[p].status = position[1] /\ Ledger(p, position[2])

\* The debit is tried, and after a failed write recovered and tried again.
DebitsTried(m) ==
  /\ m.ev = "payment.initialized" => debits[m.pid] = 0
  /\ m.ev = "wallet.debit_requested" => m.attempt \in {1, 2} /\ debits[m.pid] = m.attempt - 1
  /\ m.ev = "recovery.requested" =>
       \/ m.action = "payment.charge"
       \/ m.action = "wallet.debit" /\ m.attempt = 1 /\ debits[m.pid] = 1

\* How far the worker of s got with delivery i.
Place(s, i) == IF i = 1 THEN wpc[s] ELSE "run"

MessagesInPosition ==
  \A s \in Shards : \A i \in DOMAIN queue[s] :
    LET m == queue[s][i] IN
    InPosition(m.pid, Expected(m, Place(s, i))) /\ DebitsTried(m)

\* Before its message is published, nothing has happened to a payment.
RequestsInPosition ==
  \A r \in Requests :
    LET p == ReqPayment[r] IN
    /\ http[r] = "start" => InPosition(p, <<"none", "none">>)
    /\ http[r] = "saved" => InPosition(p, <<"initialized", "none">>) /\ debits[p] = 0

\* The position of a payment is always told by its only message, as long as
\* payment ids are unique.
WorkflowInv ==
  /\ TypeInv
  /\ MessagesHome
  /\ OneMessage
  /\ MessagesInPosition
  /\ RequestsInPosition
  /\ MoneyMatchesStatus

-----------------------------------------------------------------------------
(* With a payment id used again. *)

\* Delivery i of s comes from the handler that gave the row of p its status.
Drives(s, i, p) ==
  /\ queue[s][i].pid = p
  /\ payments[p].status = Expected(queue[s][i], Place(s, i))[1]

\* Two chains of events that write one row do not strand it: a client repeats a
\* payment id, and whatever Initialize sets back and whichever stale copy a Mark...
\* method saves over it, the row is settled or is at the status that a request or a
\* delivery of it gave it and from which that same one goes on.  (service.go:34 and
\* service.go:44 with every handler that writes the row.)
DrivenOn ==
  \A p \in PaymentIDs :
    \/ payments[p].status = "none"
    \/ Settled(p)
    \/ payments[p].status = "initialized"
       /\ \E r \in Requests : ReqPayment[r] = p /\ http[r] = "saved"
    \/ \E s \in Shards : \E i \in DOMAIN queue[s] : Drives(s, i, p)

-----------------------------------------------------------------------------
(* What the documentation says of the workflow and the code does not do. *)

\* README 3.3 and 2.5: recovery_event waits for a delay and republishes, and the
\* bus retries a handler until it succeeds.
RecoveryRepublishes ==
  \A s \in Shards :
    (queue[s] # <<>> /\ Head(queue[s]).ev = "recovery.requested") ~>
      (queue[s] = <<>> \/ Head(queue[s]).ev # "recovery.requested")

\* README 5.1: a charge fails on a 4xx, or on a timeout or 5xx that outlasts the
\* retries and the recovery.
FailedOnlyByGateway ==
  \A p \in PaymentIDs :
    payments[p].status = "failed" =>
      \/ payments[p].reason = "client"
      \/ Retryable(payments[p].reason) /\ calls[p] > MaxAttempts

=============================================================================
