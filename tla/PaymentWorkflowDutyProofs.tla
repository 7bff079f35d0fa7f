----------------------- MODULE PaymentWorkflowDutyProofs -----------------------
(***************************************************************************)
(* What the workflow owes its payments: none is forgotten half-way, and    *)
(* none is charged more often than the retries allow, in the circumstances *)
(* of PaymentWorkflowMoneyProofs.  And, in all circumstances, with payment *)
(* ids reused and writes of wallets.json failing: how much may go wrong,   *)
(* and that no row is left where nothing drives it on.                     *)
(***************************************************************************)
EXTENDS PaymentWorkflowMoneyProofs, FiniteSetTheorems

-----------------------------------------------------------------------------
(* No payment is forgotten. *)

\* Nothing remains to be done for a payment with this record.
Done(rec) == rec[1] \in {"rejected", "succeeded"} \/ (rec[1] = "failed" /\ rec[4] > 0)

\* A payment that has settled stays so.
LEMMA SettledForGood ==
  ASSUME WorkflowInv, WorkflowInv', Advance, NEW p \in PaymentIDs, Settled(p)
  PROVE  Settled(p)'
<1>1. Done(Record(p)) /\ (Done(NewRecord(p)) => Settled(p)')
  BY DEF Settled, Done, Record, NewRecord
<1>2. Record(p)[4] \in Nat /\ NewRecord(p)[4] \in Nat
  BY DEF Record, NewRecord, WorkflowInv, TypeInv, TypeOK
<1>3. ASSUME NEW a \in Positions, NEW b \in Positions, MovesTo(p, a, b) PROVE Done(NewRecord(p))
  <2>1. Record(p)[1] = a[1] /\ NewRecord(p)[1] = b[1]
    BY <1>3 DEF MovesTo, Stands
  <2>2. \/ NewRecord(p) = Record(p)
        \/ (<<a, b>> \in LegalMoves \/ a = b) /\ NewRecord(p)[4] >= Record(p)[4]
    BY <1>3 DEF MovesTo, LegalStep
  <2>3. <<a, b>> \in LegalMoves /\ a[1] \in {"rejected", "succeeded", "failed"} => b[1] = a[1]
    BY DEF LegalMoves
  <2> QED
    BY <1>1, <1>2, <2>1, <2>2, <2>3 DEF Done
<1>4. NewRecord(p) = Record(p) \/ \E a, b \in Positions : MovesTo(p, a, b)
  BY DEF Advance, NoMove, MovesTo, OthersStay
<1> QED
  BY <1>1, <1>3, <1>4

\* A delivery stays in its queue, perhaps one place further up, whatever is
\* published behind it.
LEMMA StaysInFlight ==
  ASSUME queue \in [Shards -> Seq(Message)], NEW p, NEW s \in Shards,
         NEW i \in 1 .. Len(queue[s]), queue[s][i].pid = p,
         \/ queue'[s] = queue[s]
         \/ \E m : queue'[s] = Append(queue[s], m)
         \/ i # 1 /\ queue'[s] = Tail(queue[s])
         \/ i # 1 /\ \E m : queue'[s] = Append(Tail(queue[s]), m)
  PROVE  InFlight(p)'
<1>1. queue[s] \in Seq(Message)
  OBVIOUS
<1>2. \E j \in 1 .. Len(queue'[s]) : queue'[s][j] = queue[s][i]
  <2>1. CASE queue'[s] = queue[s] \/ \E m : queue'[s] = Append(queue[s], m)
    <3>1. i \in 1 .. Len(queue'[s]) /\ queue'[s][i] = queue[s][i]
      BY <1>1, <2>1
    <3> QED
      BY <3>1
  <2>2. CASE i # 1 /\ (queue'[s] = Tail(queue[s]) \/ \E m : queue'[s] = Append(Tail(queue[s]), m))
    <3>1. i - 1 \in 1 .. Len(queue'[s]) /\ queue'[s][i - 1] = queue[s][i]
      BY <1>1, <2>2
    <3> QED
      BY <3>1
  <2> QED
    BY <2>1, <2>2
<1> QED
  BY <1>2 DEF InFlight

\* What a handler does to the queue of its shard: it leaves it alone, replaces
\* its delivery by another one of the same payment, or drops it.
Replaces(s, p) ==
  \E m : m.pid = p /\ queue' = [queue EXCEPT ![s] = Append(Tail(@), m)]

Drops(s) == queue' = [queue EXCEPT ![s] = Tail(@)]

\* The handlers that publish leave a message about the same payment.
LEMMA HandlersReplace ==
  ASSUME WorkflowInv, NEW s \in Shards, NEW p, p = Head(queue[s]).pid,
         \/ HandlePaymentInitialized(s)
         \/ HandleWalletDebitRequested(s)
         \/ RequestCharge(s)
         \/ RequestRefund(s)
         \/ RecoveryResumes(s)
         \/ ChargeSucceeds(s)
         \/ \E outcome \in Reasons : ChargeExhausted(s, outcome) \/ ChargeFails(s, outcome)
  PROVE  Replaces(s, p)
<1> DEFINE h == Head(queue[s])
<1>1. h \in Message
  <2>1. queue[s] # <<>>
    BY DEF HandlePaymentInitialized, HandleWalletDebitRequested, DebitRefused, DebitApplied,
           RequestCharge, RequestRefund, RecoveryResumes, ChargeSucceeds, ChargeExhausted,
           ChargeFails, Charge, At
  <2> QED
    BY <2>1, HeadAlone
<1>2. ASSUME NEW m, m.pid = h.pid, PublishAndReturn(s, m) PROVE Replaces(s, p)
  BY <1>2 DEF Replaces, PublishAndReturn
<1>3. \A ev : /\ Follow(h, ev).pid = h.pid
              /\ \A n : [Follow(h, ev) EXCEPT !.attempt = n].pid = h.pid
              /\ \A x : [Follow(h, ev) EXCEPT !.reason = x].pid = h.pid
              /\ \A x, y, n : [Follow(h, ev) EXCEPT !.reason = x, !.action = y, !.attempt = n].pid = h.pid
              /\ \A n : FromTable(h, ev, n).pid = h.pid
  BY <1>1 DEF Follow, FromTable, Message
<1>4. DebitFailureEvent(h).pid = h.pid /\ RecoveredEvent(h).pid = h.pid
  BY <1>1 DEF DebitFailureEvent, RecoveredEvent, Follow, FromTable, Message
<1> HIDE DEF h
<1>5. CASE HandlePaymentInitialized(s)
  BY <1>2, <1>3, <1>5 DEF HandlePaymentInitialized, h
<1>6. CASE DebitRefused(s)
  BY <1>2, <1>3, <1>6 DEF DebitRefused, h
<1>7. ASSUME NEW ok \in BOOLEAN, DebitApplied(s, ok) PROVE Replaces(s, p)
  <2>1. CASE ok
    BY <1>2, <1>3, <1>7, <2>1 DEF DebitApplied, h
  <2>2. CASE ~ok
    BY <1>2, <1>4, <1>7, <2>2 DEF DebitApplied, h
  <2> QED
    BY <2>1, <2>2
<1>8. CASE RequestCharge(s)
  BY <1>2, <1>3, <1>8 DEF RequestCharge, h
<1>9. CASE RequestRefund(s)
  BY <1>2, <1>3, <1>9 DEF RequestRefund, h
<1>10. CASE RecoveryResumes(s)
  BY <1>2, <1>4, <1>10 DEF RecoveryResumes, h
<1>11. CASE ChargeSucceeds(s)
  BY <1>2, <1>3, <1>11 DEF ChargeSucceeds, h
<1>12. ASSUME NEW outcome \in Reasons, ChargeExhausted(s, outcome) PROVE Replaces(s, p)
  <2> DEFINE m == [Follow(h, "recovery.requested")
                     EXCEPT !.reason = outcome, !.action = "payment.charge",
                            !.attempt = Attempt(s)]
  <2>1. PublishAndReturn(s, m)
    BY <1>12 DEF ChargeExhausted, h
  <2>2. m.pid = h.pid
    BY <1>3
  <2> HIDE DEF m
  <2> QED
    BY <1>2, <2>1, <2>2
<1>13. ASSUME NEW outcome \in Reasons, ChargeFails(s, outcome) PROVE Replaces(s, p)
  BY <1>2, <1>3, <1>13 DEF ChargeFails, h
<1> QED
  BY <1>5, <1>6, <1>7, <1>8, <1>9, <1>10, <1>11, <1>12, <1>13 DEF HandleWalletDebitRequested

\* The handlers that drop their delivery have settled its payment.
LEMMA HandlersSettle ==
  ASSUME WorkflowInv, NEW s \in Shards, NEW p, p = Head(queue[s]).pid,
         MarkRejected(s) \/ MarkSucceeded(s) \/ RefundWrite(s, TRUE)
  PROVE  Drops(s) /\ Settled(p)'
<1>1. queue[s] # <<>> /\ p \in PaymentIDs
  <2>1. queue[s] # <<>>
    BY DEF MarkRejected, MarkSucceeded, RefundWrite, At
  <2> QED
    BY <2>1, HeadAlone
<1>2. CASE MarkRejected(s) \/ MarkSucceeded(s)
  <2>1. PICK status \in {"rejected", "succeeded"} :
          /\ wpc[s] = "mark" /\ Return(s)
          /\ debits' = debits /\ charges' = charges /\ refunds' = refunds
          /\ \E reason : Save(s, status, reason)
    BY <1>2 DEF MarkRejected, MarkSucceeded, At, historyVars
  <2>2. NewRecord(p) = <<status, debits[p], charges[p], refunds[p]>>
    BY <1>1, <2>1, SaveMoves
  <2>3. payments'[p].status = status
    BY <2>2 DEF NewRecord
  <2> QED
    BY <2>1, <2>3 DEF Drops, Return, Settled
<1>3. CASE RefundWrite(s, TRUE)
  <2>1. /\ Return(s) /\ wpc[s] = "refund" /\ Head(queue[s]).ev = "wallet.refund_requested"
        /\ refunds' = [refunds EXCEPT ![p] = @ + 1] /\ payments' = payments
    BY <1>3 DEF RefundWrite, At
  <2>2. Stands(Record(p), ioFailures, <<"failed", "held">>)
    BY <1>1, <2>1, HeadAlone DEF Placed, Expected
  <2>3. payments'[p].status = "failed"
    BY <2>1, <2>2 DEF Stands, Record
  <2>4. refunds'[p] > 0
    BY <1>1, <2>1, LedgerTypes
  <2> QED
    BY <2>1, <2>3, <2>4 DEF Drops, Return, Settled
<1> QED
  BY <1>2, <1>3

LEMMA WorkerQueues ==
  ASSUME WorkflowInv, NEW s \in Shards, NEW p, p = Head(queue[s]).pid, Worker(s)
  PROVE  /\ queue[s] # <<>> /\ http' = http
         /\ \/ queue' = queue
            \/ Replaces(s, p)
            \/ Drops(s) /\ Settled(p)'
<1>1. queue[s] # <<>> /\ http' = http
  BY DEF Worker, HandlePaymentInitialized, HandleWalletDebitRequested, DebitRefused,
         DebitApplied, MarkGet, HandleWalletDebited, MarkPending, RequestCharge, MarkRejected,
         HandleChargeRequested, ChargeSucceeds, ChargeRetries, ChargeExhausted, ChargeFails,
         Charge, MarkSucceeded, HandleChargeFailed, MarkFailed, RequestRefund,
         HandleWalletRefundRequested, RefundRead, RefundWrite, HandleRecoveryRequested,
         RecoveryResumes, RecoveryInterrupted, At
<1>2. CASE \/ MarkGet(s) \/ MarkPending(s) \/ MarkFailed(s) \/ RefundRead(s)
           \/ RecoveryInterrupted(s) \/ RefundWrite(s, FALSE)
           \/ \E outcome \in Reasons : ChargeRetries(s, outcome)
  BY <1>1, <1>2 DEF MarkGet, MarkPending, MarkFailed, RefundRead, RefundWrite,
                    RecoveryInterrupted, ReturnError, ChargeRetries
<1>3. CASE MarkRejected(s) \/ MarkSucceeded(s) \/ RefundWrite(s, TRUE)
  BY <1>1, <1>3, HandlersSettle
<1>4. CASE \/ HandlePaymentInitialized(s) \/ HandleWalletDebitRequested(s)
           \/ RequestCharge(s) \/ RequestRefund(s) \/ RecoveryResumes(s) \/ ChargeSucceeds(s)
           \/ \E outcome \in Reasons : ChargeExhausted(s, outcome) \/ ChargeFails(s, outcome)
  BY <1>1, <1>4, HandlersReplace
<1> QED
  BY <1>2, <1>3, <1>4
     DEF Worker, HandleWalletDebited, HandleChargeRequested, HandleChargeFailed,
         HandleWalletRefundRequested, HandleRecoveryRequested

\* No step of a worker forgets a payment, its own or another one.
LEMMA WorkersForgetNothing ==
  ASSUME WorkflowInv, WorkflowInv', Advance, NEW s \in Shards, Worker(s),
         NEW p \in PaymentIDs, Settled(p) \/ InFlight(p)
  PROVE  Settled(p)' \/ InFlight(p)'
<1>1. CASE Settled(p)
  BY <1>1, SettledForGood
<1>2. CASE InFlight(p)
  <2> DEFINE h == Head(queue[s]).pid
  <2>0. PICK t \in Shards : \E i \in 1 .. Len(queue[t]) : queue[t][i].pid = p
    BY <1>2 DEF InFlight
  <2>1. PICK i \in 1 .. Len(queue[t]) : queue[t][i].pid = p
    BY <2>0
  <2>2. queue \in [Shards -> Seq(Message)] /\ i \in DOMAIN queue[t]
    BY <2>1 DEF WorkflowInv, TypeInv, TypeOK
  <2>3. queue[s] # <<>> /\ (queue' = queue \/ Replaces(s, h) \/ (Drops(s) /\ (h = p => Settled(p)')))
    BY WorkerQueues
  <2>4. h = p => t = s /\ i = 1
    BY <2>1, <2>2, <2>3, HeadAlone
  <2>5. t = s /\ i = 1 => h = p
    BY <2>1, <2>3, HeadAlone
  <2> HIDE DEF h
  <2>6. CASE t # s \/ queue' = queue
    <3>1. queue'[t] = queue[t]
      BY <2>2, <2>3, <2>6 DEF Replaces, Drops
    <3> QED
      BY <2>1, <2>2, <3>1, StaysInFlight
  <2>7. CASE t = s /\ i # 1
    <3>1. \/ queue'[s] = queue[s] \/ queue'[s] = Tail(queue[s])
          \/ \E m : queue'[s] = Append(Tail(queue[s]), m)
      BY <2>2, <2>3 DEF Replaces, Drops
    <3> QED
      BY <2>1, <2>2, <2>7, <3>1, StaysInFlight
  <2>8. CASE t = s /\ i = 1
    <3>1. h = p
      BY <2>5, <2>8
    <3>2. CASE Replaces(s, h)
      <4>1. PICK m : m.pid = p /\ queue'[s] = Append(Tail(queue[s]), m)
        BY <2>2, <3>1, <3>2 DEF Replaces
      <4>2. queue[s] \in Seq(Message) /\ queue[s] # <<>>
        BY <2>2, <2>3
      <4>3. Len(queue[s]) \in 1 .. Len(queue'[s]) /\ queue'[s][Len(queue[s])] = m
        BY <4>1, <4>2
      <4> QED
        BY <4>1, <4>3 DEF InFlight
    <3> QED
      BY <2>3, <2>6, <3>1, <3>2
  <2> QED
    BY <2>6, <2>7, <2>8
<1> QED
  BY <1>1, <1>2

\* Nor does one of a request.
LEMMA RequestsForgetNothing ==
  ASSUME WorkflowInv, WorkflowInv', Advance, NothingForgotten, NEW q \in Requests,
         Create(q) \/ ClientDisconnect(q)
  PROVE  NothingForgotten'
<1> SUFFICES ASSUME NEW r \in Requests, http'[r] \in {"published", "replied"}
    PROVE  Settled(ReqPayment[r])' \/ InFlight(ReqPayment[r])'
  BY DEF NothingForgotten
<1> DEFINE p == ReqPayment[r]
<1>1. /\ p \in PaymentIDs /\ ReqPayment[q] \in PaymentIDs /\ ShardOf[ReqPayment[q]] \in Shards
      /\ ShardOf[p] \in Shards
      /\ queue \in [Shards -> Seq(Message)]
      /\ http \in [Requests -> {"start", "saved", "published", "replied", "refused"}]
  BY WorkflowAssumption DEF WorkflowInv, TypeInv, TypeOK
<1>2. \A t \in Shards : queue'[t] = queue[t] \/ \E m : queue'[t] = Append(queue[t], m)
  <2>1. CASE CreatePublish(q)
    <3>1. PICK m : queue' = [queue EXCEPT ![ShardOf[ReqPayment[q]]] = Append(@, m)]
      BY <2>1 DEF CreatePublish
    <3> QED
      BY <1>1, <3>1
  <2>2. CASE ~CreatePublish(q)
    <3>1. queue' = queue
      BY <2>2 DEF Create, CreateRefused, CreateInitialize, CreateReturn, ClientDisconnect
    <3> QED
      BY <3>1
  <2> QED
    BY <2>1, <2>2
<1>3. CASE http[r] \in {"published", "replied"}
  <2>1. Settled(p) \/ InFlight(p)
    BY <1>3 DEF NothingForgotten
  <2>2. CASE Settled(p)
    BY <1>1, <2>2, SettledForGood
  <2>3. CASE InFlight(p)
    <3>0. PICK t \in Shards : \E i \in 1 .. Len(queue[t]) : queue[t][i].pid = p
      BY <2>3 DEF InFlight
    <3>1. PICK i \in 1 .. Len(queue[t]) : queue[t][i].pid = p
      BY <3>0
    <3> HIDE DEF p
    <3>2. InFlight(p)'
      BY <1>1, <1>2, <3>1, StaysInFlight
    <3> QED
      BY <3>2 DEF p
  <2> QED
    BY <2>1, <2>2, <2>3
<1>4. CASE http[r] \notin {"published", "replied"}
  <2>1. CreatePublish(q) /\ r = q
    BY <1>1, <1>4 DEF Create, CreateRefused, CreateInitialize, CreatePublish, CreateReturn,
                      ClientDisconnect
  <2>2. \E m : m.pid = p /\ queue'[ShardOf[p]] = Append(queue[ShardOf[p]], m)
    BY <1>1, <2>1 DEF CreatePublish
  <2>3. queue[ShardOf[p]] \in Seq(Message)
    BY <1>1
  <2> HIDE DEF p
  <2>4. \E j \in 1 .. Len(queue'[ShardOf[p]]) : queue'[ShardOf[p]][j].pid = p
    <3>1. PICK m : m.pid = p /\ queue'[ShardOf[p]] = Append(queue[ShardOf[p]], m)
      BY <2>2
    <3>2. /\ Len(queue[ShardOf[p]]) + 1 \in 1 .. Len(queue'[ShardOf[p]])
          /\ queue'[ShardOf[p]][Len(queue[ShardOf[p]]) + 1] = m
      BY <2>3, <3>1
    <3> QED
      BY <3>1, <3>2
  <2>5. InFlight(p)'
    BY <1>1, <2>4 DEF InFlight
  <2> QED
    BY <2>5 DEF p
<1> QED
  BY <1>3, <1>4

\* For any number of payments, shards and requests: once Create has published its
\* event, a payment is settled or an event that will drive it on is on the bus.
THEOREM NoPaymentForgotten == ASSUME UniqueIDs PROVE Spec => []NothingForgotten
<1>1. WorkflowInv /\ NothingForgotten /\ [Next]_vars => NothingForgotten'
  <2> SUFFICES ASSUME WorkflowInv, NothingForgotten, [Next]_vars PROVE NothingForgotten'
    OBVIOUS
  <2>1. WorkflowInv' /\ Advance
    BY NextAdvances
  <2>2. CASE UNCHANGED vars
    BY <2>2 DEF vars, workerVars, historyVars, NothingForgotten, Settled, InFlight
  <2>3. ASSUME NEW r \in Requests, Create(r) \/ ClientDisconnect(r) PROVE NothingForgotten'
    BY <2>1, <2>3, RequestsForgetNothing
  <2>4. ASSUME NEW s \in Shards, Worker(s) PROVE NothingForgotten'
    <3> SUFFICES ASSUME NEW r \in Requests, http'[r] \in {"published", "replied"}
        PROVE  Settled(ReqPayment[r])' \/ InFlight(ReqPayment[r])'
      BY DEF NothingForgotten
    <3>1. http' = http
      BY <2>4, WorkerQueues
    <3>2. Settled(ReqPayment[r]) \/ InFlight(ReqPayment[r])
      BY <3>1 DEF NothingForgotten
    <3> QED
      BY <2>1, <2>4, <3>2, WorkersForgetNothing, WorkflowAssumption
  <2> QED
    BY <2>2, <2>3, <2>4 DEF Next
<1>2. Init => NothingForgotten
  BY DEF Init, NothingForgotten
<1>3. Spec => []WorkflowInv
  BY AlwaysInPosition
<1> QED
  BY <1>1, <1>2, <1>3, PTL DEF Spec

-----------------------------------------------------------------------------
(* The calls of the gateway. *)

\* The attempt that the handler of delivery i of s is at, or will begin with.
Turn(s, i) == IF i = 1 /\ attempt[s] # 0 THEN attempt[s] ELSE queue[s][i].attempt

\* A message asks to recover a charge.
RecoversCharge(m) == m.ev = "recovery.requested" /\ m.action = "payment.charge"

\* How often the gateway was called for a payment whose message is m.
CallsAt(m, turn) ==
  CASE m.ev \in {"payment.initialized", "wallet.debit_requested", "wallet.debited",
                 "wallet.debit_rejected"} -> {0}
    [] m.ev = "payment.charge_requested" -> {turn - 1}
    [] m.ev = "recovery.requested" -> IF RecoversCharge(m) THEN {MaxAttempts} ELSE {0}
    [] OTHER -> 0 .. MaxAttempts + 1

MessagesCounted ==
  \A s \in Shards : \A i \in DOMAIN queue[s] :
    /\ calls[queue[s][i].pid] \in CallsAt(queue[s][i], Turn(s, i))
    /\ RecoversCharge(queue[s][i]) => queue[s][i].attempt = MaxAttempts

\* Only the loop of HandleChargeRequested leaves an attempt in its local.
AttemptsLocal ==
  \A s \in Shards :
    attempt[s] # 0 => queue[s] # <<>> /\ Head(queue[s]).ev = "payment.charge_requested"

RequestsUncounted ==
  \A r \in Requests : http[r] \in {"start", "saved"} => calls[ReqPayment[r]] = 0

\* The message of a payment tells how often the gateway was called for it: each
\* turn of the loop counts one, and a recovery goes on where the loop stopped.
CallsCounted == MessagesCounted /\ AttemptsLocal /\ RequestsUncounted /\ RetryBudget

\* The step changes the calls of no other payment than p.
OtherCallsStay(p) == \A q \in PaymentIDs \ {p} : calls'[q] = calls[q]

\* The handler of the head of s is done, and m, if there is one, follows it.
LEMMA FinishKeepsCount ==
  ASSUME WorkflowInv, CallsCounted, UniqueIDs, NEW s \in Shards, queue[s] # <<>>,
         NEW p, p = Head(queue[s]).pid, http' = http, Finish(s), OtherCallsStay(p),
         calls'[p] \in 0 .. MaxAttempts + 1,
         \/ Drops(s)
         \/ \E m \in Message :
              /\ m.pid = p /\ queue' = [queue EXCEPT ![s] = Append(Tail(@), m)]
              /\ calls'[p] \in CallsAt(m, m.attempt)
              /\ RecoversCharge(m) => m.attempt = MaxAttempts
  PROVE  CallsCounted'
<1>1. /\ queue \in [Shards -> Seq(Message)]
      /\ attempt \in [Shards -> 0 .. MaxAttempts]
      /\ calls \in [PaymentIDs -> Nat]
  BY DEF WorkflowInv, TypeInv, TypeOK
<1>2. attempt'[s] = 0 /\ \A t \in Shards : t # s => attempt'[t] = attempt[t]
  BY <1>1 DEF Finish
<1>3. \A t \in Shards : t # s => queue'[t] = queue[t]
  BY <1>1 DEF Drops
<1>4. \A i \in DOMAIN queue'[s] :
        \/ i + 1 \in DOMAIN queue[s] /\ queue'[s][i] = queue[s][i + 1] /\ i \in Nat \ {0}
        \/ /\ queue'[s][i].pid = p
           /\ calls'[p] \in CallsAt(queue'[s][i], queue'[s][i].attempt)
           /\ RecoversCharge(queue'[s][i]) => queue'[s][i].attempt = MaxAttempts
  <2>1. queue[s] \in Seq(Message)
    BY <1>1
  <2>2. CASE Drops(s)
    BY <1>1, <2>1, <2>2 DEF Drops
  <2>3. ASSUME NEW m \in Message, m.pid = p, queue' = [queue EXCEPT ![s] = Append(Tail(@), m)],
               calls'[p] \in CallsAt(m, m.attempt),
               RecoversCharge(m) => m.attempt = MaxAttempts,
               NEW i \in DOMAIN queue'[s]
        PROVE  \/ i + 1 \in DOMAIN queue[s] /\ queue'[s][i] = queue[s][i + 1] /\ i \in Nat \ {0}
               \/ queue'[s][i] = m
    BY <1>1, <2>1, <2>3
  <2> QED
    BY <2>2, <2>3
<1>5. \A t \in Shards : \A i \in DOMAIN queue[t] :
        queue[t][i].pid = p => t = s /\ i = 1
  BY HeadAlone
<1>6. p \in PaymentIDs
  BY HeadAlone
<1>7. MessagesCounted'
  <2> SUFFICES ASSUME NEW t \in Shards, NEW i \in DOMAIN queue'[t]
      PROVE  /\ calls'[queue'[t][i].pid] \in CallsAt(queue'[t][i], Turn(t, i)')
             /\ RecoversCharge(queue'[t][i]) => queue'[t][i].attempt = MaxAttempts
    BY DEF MessagesCounted
  <2>1. CASE t # s
    <3>1. queue[t][i].pid # p /\ queue[t][i].pid \in PaymentIDs /\ i \in DOMAIN queue[t]
      BY <1>1, <1>3, <1>5, <2>1, ElementFacts
    <3>2. Turn(t, i)' = Turn(t, i)
      BY <1>2, <1>3, <2>1 DEF Turn
    <3> QED
      BY <1>3, <2>1, <3>1, <3>2 DEF OtherCallsStay, CallsCounted, MessagesCounted
  <2>2. CASE t = s
    <3>1. Turn(t, i)' = queue'[s][i].attempt
      BY <1>2, <2>2 DEF Turn
    <3>2. CASE i + 1 \in DOMAIN queue[s] /\ queue'[s][i] = queue[s][i + 1] /\ i \in Nat \ {0}
      <4>1. queue[s][i + 1].pid # p /\ queue[s][i + 1].pid \in PaymentIDs
        BY <1>1, <1>5, <3>2, ElementFacts
      <4>2. Turn(s, i + 1) = queue[s][i + 1].attempt
        BY <3>2 DEF Turn
      <4>3. /\ calls[queue[s][i + 1].pid] \in CallsAt(queue[s][i + 1], Turn(s, i + 1))
            /\ RecoversCharge(queue[s][i + 1]) => queue[s][i + 1].attempt = MaxAttempts
        BY <3>2 DEF CallsCounted, MessagesCounted
      <4> QED
        BY <2>2, <3>1, <3>2, <4>1, <4>2, <4>3 DEF OtherCallsStay
    <3> QED
      BY <1>4, <2>2, <3>1, <3>2
  <2> QED
    BY <2>1, <2>2
<1>8. AttemptsLocal'
  BY <1>2, <1>3 DEF CallsCounted, AttemptsLocal
<1>9. RequestsUncounted'
  <2> SUFFICES ASSUME NEW r \in Requests, http[r] \in {"start", "saved"}
      PROVE  calls'[ReqPayment[r]] = 0
    BY DEF RequestsUncounted
  <2>1. ReqPayment[r] # p
    BY HeadAlone DEF UniqueIDs
  <2> QED
    BY <2>1, WorkflowAssumption DEF OtherCallsStay, CallsCounted, RequestsUncounted
<1>10. RetryBudget'
  BY <1>6 DEF OtherCallsStay, CallsCounted, RetryBudget, MaxAttempts
<1> QED
  BY <1>7, <1>8, <1>9, <1>10 DEF CallsCounted

\* The handler of the head of s goes on, and its event accounts for the calls.
LEMMA StayKeepsCount ==
  ASSUME WorkflowInv, CallsCounted, UniqueIDs, NEW s \in Shards, queue[s] # <<>>,
         NEW p, p = Head(queue[s]).pid, http' = http, queue' = queue, OtherCallsStay(p),
         calls'[p] \in 0 .. MaxAttempts + 1,
         \A t \in Shards : t # s => attempt'[t] = attempt[t],
         \/ calls'[p] = calls[p] /\ attempt'[s] = attempt[s]
         \/ /\ Head(queue[s]).ev = "payment.charge_requested"
            /\ attempt'[s] # 0 /\ calls'[p] = attempt'[s] - 1
  PROVE  CallsCounted'
<1>1. queue \in [Shards -> Seq(Message)] /\ p \in PaymentIDs
  BY HeadAlone DEF WorkflowInv, TypeInv, TypeOK
<1>2. \A t \in Shards : \A i \in DOMAIN queue[t] : queue[t][i].pid = p => t = s /\ i = 1
  BY HeadAlone
<1>3. Head(queue[s]) = queue[s][1]
  BY HeadAlone
<1>4. MessagesCounted'
  <2> SUFFICES ASSUME NEW t \in Shards, NEW i \in DOMAIN queue[t]
      PROVE  /\ calls'[queue[t][i].pid] \in CallsAt(queue[t][i], Turn(t, i)')
             /\ RecoversCharge(queue[t][i]) => queue[t][i].attempt = MaxAttempts
    BY DEF MessagesCounted
  <2>1. /\ calls[queue[t][i].pid] \in CallsAt(queue[t][i], Turn(t, i))
        /\ RecoversCharge(queue[t][i]) => queue[t][i].attempt = MaxAttempts
    BY DEF CallsCounted, MessagesCounted
  <2>2. CASE t = s /\ i = 1 /\ ~(calls'[p] = calls[p] /\ attempt'[s] = attempt[s])
    <3>1. Turn(t, i)' = attempt'[s] /\ queue[t][i].ev = "payment.charge_requested"
          /\ queue[t][i].pid = p
      BY <1>3, <2>2 DEF Turn
    <3> QED
      BY <2>2, <3>1 DEF CallsAt, RecoversCharge
  <2>3. CASE ~(t = s /\ i = 1) \/ (calls'[p] = calls[p] /\ attempt'[s] = attempt[s])
    <3>1. queue[t][i].pid \in PaymentIDs
      BY <1>1, ElementFacts
    <3>2. calls'[queue[t][i].pid] = calls[queue[t][i].pid]
      BY <1>1, <1>2, <2>3, <3>1 DEF OtherCallsStay
    <3>3. Turn(t, i)' = Turn(t, i)
      BY <2>3 DEF Turn
    <3> QED
      BY <2>1, <3>2, <3>3
  <2> QED
    BY <2>2, <2>3
<1>5. AttemptsLocal'
  BY DEF CallsCounted, AttemptsLocal
<1>6. RequestsUncounted'
  <2> SUFFICES ASSUME NEW r \in Requests, http[r] \in {"start", "saved"}
      PROVE  calls'[ReqPayment[r]] = 0
    BY DEF RequestsUncounted
  <2>1. ReqPayment[r] # p
    BY HeadAlone DEF UniqueIDs
  <2> QED
    BY <2>1, WorkflowAssumption DEF OtherCallsStay, CallsCounted, RequestsUncounted
<1>7. RetryBudget'
  BY <1>1 DEF OtherCallsStay, CallsCounted, RetryBudget, MaxAttempts
<1> QED
  BY <1>4, <1>5, <1>6, <1>7 DEF CallsCounted

\* What CallsCounted says of the delivery a worker is busy with.
LEMMA HeadCounted ==
  ASSUME WorkflowInv, CallsCounted, NEW s \in Shards, queue[s] # <<>>
  PROVE  LET h == Head(queue[s]) IN
         /\ calls[h.pid] \in CallsAt(h, Attempt(s))
         /\ calls[h.pid] \in 0 .. MaxAttempts + 1
         /\ RecoversCharge(h) => h.attempt = MaxAttempts
         /\ h.ev = "payment.charge_requested" =>
              Attempt(s) \in 1 .. MaxAttempts + 1 /\ calls[h.pid] = Attempt(s) - 1
<1> DEFINE h == Head(queue[s])
<1>1. h = queue[s][1] /\ 1 \in DOMAIN queue[s] /\ h.pid \in PaymentIDs /\ h \in Message
  BY HeadAlone
<1>2. Turn(s, 1) = Attempt(s)
  BY <1>1 DEF Turn, Attempt
<1>3. /\ calls[h.pid] \in CallsAt(h, Attempt(s))
      /\ RecoversCharge(h) => h.attempt = MaxAttempts
  BY <1>1, <1>2 DEF CallsCounted, MessagesCounted
<1>4. calls[h.pid] \in 0 .. MaxAttempts + 1
  <2>1. calls[h.pid] \in Nat
    BY <1>1 DEF WorkflowInv, TypeInv, TypeOK
  <2>2. calls[h.pid] <= MaxAttempts + 1
    BY <1>1 DEF CallsCounted, RetryBudget
  <2> HIDE DEF h
  <2> QED
    BY <2>1, <2>2 DEF MaxAttempts
<1>5. ASSUME h.ev = "payment.charge_requested"
      PROVE  Attempt(s) \in 1 .. MaxAttempts + 1 /\ calls[h.pid] = Attempt(s) - 1
  <2>1. h.attempt \in 1 .. MaxAttempts + 1
    <3>1. h.attempt > 0
      BY <1>5, HeadFacts DEF WorkflowInv
    <3> QED
      BY <1>1, <3>1 DEF Message, MaxAttempts
  <2>2. Attempt(s) \in 1 .. MaxAttempts + 1
    BY <2>1 DEF Attempt, MaxAttempts, WorkflowInv, TypeInv, TypeOK
  <2> QED
    BY <1>3, <1>5, <2>2 DEF CallsAt
<1> QED
  BY <1>3, <1>4, <1>5

\* The handlers that do not call the gateway.
LEMMA SilentStepsCount ==
  ASSUME WorkflowInv, CallsCounted, UniqueIDs, NEW s \in Shards,
         \/ HandlePaymentInitialized(s) \/ HandleWalletDebitRequested(s)
         \/ MarkGet(s) \/ MarkPending(s) \/ MarkRejected(s) \/ MarkSucceeded(s) \/ MarkFailed(s)
         \/ RequestCharge(s) \/ RequestRefund(s)
         \/ HandleWalletRefundRequested(s) \/ HandleRecoveryRequested(s)
  PROVE  CallsCounted'
<1> DEFINE h == Head(queue[s])
           p == h.pid
<1>1. queue[s] # <<>> /\ http' = http /\ calls' = calls
  BY DEF HandlePaymentInitialized, HandleWalletDebitRequested, DebitRefused, DebitApplied,
         MarkGet, MarkPending, MarkRejected, MarkSucceeded, MarkFailed, RequestCharge,
         RequestRefund, HandleWalletRefundRequested, RefundRead, RefundWrite,
         HandleRecoveryRequested, RecoveryResumes, RecoveryInterrupted, At, historyVars
<1>2. /\ h \in Message /\ p \in PaymentIDs /\ RealRow(payments[p])
      /\ calls[p] \in CallsAt(h, Attempt(s)) /\ calls[p] \in 0 .. MaxAttempts + 1
      /\ RecoversCharge(h) => h.attempt = MaxAttempts
      /\ Tried(h, debits[p])
  BY <1>1, HeadAlone, HeadCounted, HeadFacts DEF WorkflowInv, Placed
<1>3. OtherCallsStay(p) /\ calls'[p] = calls[p]
  BY <1>1 DEF OtherCallsStay
<1>4. /\ "none" \in Reasons /\ "insufficient" \in Reasons /\ "none" \in Actions
      /\ 0 \in 0 .. MaxAttempts + 1 /\ 1 \in 0 .. MaxAttempts + 1
      /\ MaxAttempts + 1 \in 0 .. MaxAttempts + 1 /\ 2 \in 0 .. MaxAttempts + 1
      /\ "db_internal" \in Reasons /\ "wallet.debit" \in Actions /\ "payment.charge" # "wallet.debit"
  BY DEF Reasons, Actions, MaxAttempts
<1>5. /\ "wallet.debit_requested" \in EventNames /\ "wallet.debit_rejected" \in EventNames
      /\ "recovery.requested" \in EventNames
      /\ "wallet.debited" \in EventNames /\ "payment.charge_requested" \in EventNames
      /\ "wallet.refund_requested" \in EventNames
  BY DEF EventNames
<1>6. ASSUME NEW ev, NEW m, Derived(m, ev, h), PublishAndReturn(s, m),
             calls[p] \in CallsAt(m, m.attempt), ~RecoversCharge(m)
      PROVE  CallsCounted'
  <2>1. /\ m \in Message /\ m.pid = p
        /\ Finish(s) /\ queue' = [queue EXCEPT ![s] = Append(Tail(@), m)]
    BY <1>6 DEF Derived, PublishAndReturn
  <2>2. calls'[p] \in CallsAt(m, m.attempt) /\ ~RecoversCharge(m)
    BY <1>3, <1>6
  <2> HIDE DEF h, p
  <2> QED
    BY <1>1, <1>2, <1>3, <2>1, <2>2, FinishKeepsCount DEF h, p
<1>7. ASSUME Drops(s), Finish(s) PROVE CallsCounted'
  BY <1>1, <1>2, <1>3, <1>7, FinishKeepsCount
<1>8. ASSUME queue' = queue, attempt' = attempt PROVE CallsCounted'
  BY <1>1, <1>2, <1>3, <1>8, StayKeepsCount
<1>9. CASE HandlePaymentInitialized(s)
  <2> DEFINE m == [Follow(h, "wallet.debit_requested") EXCEPT !.attempt = 1]
  <2>1. PublishAndReturn(s, m) /\ h.ev = "payment.initialized"
    BY <1>9 DEF HandlePaymentInitialized, At
  <2> HIDE DEF h, p
  <2>2. Derived(m, "wallet.debit_requested", h)
    BY <1>2, <1>4, <1>5, FollowFacts
  <2> HIDE DEF m
  <2>3. calls[p] \in CallsAt(m, m.attempt) /\ ~RecoversCharge(m)
    BY <1>2, <2>1, <2>2 DEF CallsAt, RecoversCharge, Derived
  <2> QED
    BY <1>5, <1>6, <2>1, <2>2, <2>3
<1>10. CASE DebitRefused(s)
  <2> DEFINE m == [Follow(h, "wallet.debit_rejected") EXCEPT !.reason = "insufficient"]
  <2>1. PublishAndReturn(s, m) /\ h.ev = "wallet.debit_requested"
    BY <1>10 DEF DebitRefused, At
  <2> HIDE DEF h, p
  <2>2. Derived(m, "wallet.debit_rejected", h)
    BY <1>2, <1>4, <1>5, FollowFacts
  <2> HIDE DEF m
  <2>3. calls[p] \in CallsAt(m, m.attempt) /\ ~RecoversCharge(m)
    BY <1>2, <2>1, <2>2 DEF CallsAt, RecoversCharge, Derived
  <2> QED
    BY <1>5, <1>6, <2>1, <2>2, <2>3
<1>11. ASSUME NEW ok \in BOOLEAN, DebitApplied(s, ok) PROVE CallsCounted'
  <2> DEFINE done == Follow(h, "wallet.debited")
             rec == [Follow(h, "recovery.requested")
                       EXCEPT !.reason = "db_internal", !.action = "wallet.debit", !.attempt = 1]
             rej == [Follow(h, "wallet.debit_rejected") EXCEPT !.reason = "db_internal"]
  <2>1. PublishAndReturn(s, IF ok THEN done ELSE DebitFailureEvent(h)) /\ h.ev = "wallet.debit_requested"
    BY <1>11 DEF DebitApplied, At
  <2>2. (IF ok THEN done ELSE DebitFailureEvent(h)) \in {done, rec, rej}
    BY DEF DebitFailureEvent
  <2> HIDE DEF h, p
  <2>3. Derived(done, "wallet.debited", h)
    BY <1>2, <1>4, <1>5, FollowFacts
  <2>4. Derived(rec, "recovery.requested", h) /\ rec.action = "wallet.debit"
    <3>1. Derived(rec, "recovery.requested", h)
      BY <1>2, <1>4, <1>5, FollowFacts
    <3>2. rec.action = "wallet.debit"
      BY <1>2 DEF Follow, Message
    <3> QED
      BY <3>1, <3>2
  <2>5. Derived(rej, "wallet.debit_rejected", h)
    BY <1>2, <1>4, <1>5, FollowFacts
  <2> HIDE DEF done, rec, rej
  <2>6. PICK m \in {done, rec, rej} : PublishAndReturn(s, m)
    BY <2>1, <2>2
  <2>7. /\ \E ev : Derived(m, ev, h)
        /\ m.ev \in {"wallet.debited", "wallet.debit_rejected", "recovery.requested"}
        /\ ~RecoversCharge(m)
    BY <1>4, <2>3, <2>4, <2>5, <2>6 DEF Derived, RecoversCharge
  <2>8. calls[p] \in CallsAt(m, m.attempt)
    BY <1>2, <2>1, <2>7 DEF CallsAt
  <2> QED
    BY <1>6, <2>6, <2>7, <2>8
<1>12. CASE RequestCharge(s)
  <2> DEFINE m == FromTable(h, "payment.charge_requested", 1)
  <2>1. PublishAndReturn(s, m) /\ h.ev = "wallet.debited"
    BY <1>12 DEF RequestCharge, At
  <2> HIDE DEF h
  <2>2. Derived(m, "payment.charge_requested", h) /\ m.attempt = 1
    BY <1>2, <1>4, <1>5, FromTableFacts
  <2> HIDE DEF m
  <2>3. calls[p] \in CallsAt(m, m.attempt) /\ ~RecoversCharge(m)
    BY <1>2, <2>1, <2>2 DEF CallsAt, RecoversCharge, Derived
  <2> QED
    BY <1>5, <1>6, <2>1, <2>2, <2>3
<1>13. CASE RequestRefund(s)
  <2> DEFINE m == FromTable(h, "wallet.refund_requested", 0)
  <2>1. PublishAndReturn(s, m)
    BY <1>13 DEF RequestRefund
  <2> HIDE DEF h
  <2>2. Derived(m, "wallet.refund_requested", h)
    BY <1>2, <1>4, <1>5, FromTableFacts
  <2> HIDE DEF m
  <2>3. calls[p] \in CallsAt(m, m.attempt) /\ ~RecoversCharge(m)
    BY <1>2, <2>2 DEF CallsAt, RecoversCharge, Derived
  <2> QED
    BY <1>5, <1>6, <2>1, <2>2, <2>3
<1>14. CASE RecoveryResumes(s)
  <2>1. PublishAndReturn(s, RecoveredEvent(h)) /\ h.ev = "recovery.requested"
    BY <1>14 DEF RecoveryResumes, At
  <2>2. CASE h.action = "payment.charge"
    <3> DEFINE m == FromTable(h, "payment.charge_requested", MaxAttempts + 1)
    <3>1. calls[p] = MaxAttempts /\ h.attempt = MaxAttempts
      BY <1>2, <2>1, <2>2 DEF CallsAt, RecoversCharge
    <3> HIDE DEF h
    <3>2. RecoveredEvent(h) = m
      BY <2>2, <3>1 DEF RecoveredEvent
    <3>3. Derived(m, "payment.charge_requested", h) /\ m.attempt = MaxAttempts + 1
      BY <1>2, <1>4, <1>5, FromTableFacts
    <3> HIDE DEF m
    <3>4. calls[p] \in CallsAt(m, m.attempt) /\ ~RecoversCharge(m)
      BY <3>1, <3>3 DEF CallsAt, RecoversCharge, Derived, MaxAttempts
    <3> QED
      BY <1>6, <2>1, <3>2, <3>3, <3>4
  <2>3. CASE h.action = "wallet.debit"
    <3> DEFINE m == FromTable(h, "wallet.debit_requested", 2)
    <3>1. calls[p] = 0 /\ h.attempt = 1
      BY <1>2, <1>4, <2>1, <2>3 DEF CallsAt, RecoversCharge, Tried
    <3> HIDE DEF h
    <3>2. RecoveredEvent(h) = m
      BY <1>4, <2>3, <3>1 DEF RecoveredEvent
    <3>3. Derived(m, "wallet.debit_requested", h)
      BY <1>2, <1>4, <1>5, FromTableFacts
    <3> HIDE DEF m
    <3>4. calls[p] \in CallsAt(m, m.attempt) /\ ~RecoversCharge(m)
      BY <3>1, <3>3 DEF CallsAt, RecoversCharge, Derived
    <3> QED
      BY <1>6, <2>1, <3>2, <3>3, <3>4
  <2> QED
    BY <1>2, <2>1, <2>2, <2>3 DEF Tried
<1>15. CASE MarkGet(s) \/ MarkPending(s) \/ MarkFailed(s) \/ RefundRead(s) \/ RecoveryInterrupted(s)
  BY <1>8, <1>15 DEF MarkGet, MarkPending, MarkFailed, RefundRead, RecoveryInterrupted, ReturnError
<1>16. CASE MarkRejected(s) \/ MarkSucceeded(s)
  BY <1>7, <1>16 DEF MarkRejected, MarkSucceeded, Return, Drops
<1>17. ASSUME NEW ok \in BOOLEAN, RefundWrite(s, ok) PROVE CallsCounted'
  BY <1>7, <1>8, <1>17 DEF RefundWrite, Return, ReturnError, Drops
<1> QED
  BY <1>9, <1>10, <1>11, <1>12, <1>13, <1>14, <1>15, <1>16, <1>17
     DEF HandleWalletDebitRequested, HandleWalletRefundRequested, HandleRecoveryRequested

\* HandleChargeRequested: every turn of its loop is one call.
LEMMA ChargeStepsCount ==
  ASSUME WorkflowInv, CallsCounted, UniqueIDs, NEW s \in Shards, HandleChargeRequested(s)
  PROVE  CallsCounted'
<1> DEFINE h == Head(queue[s])
           p == h.pid
           n == Attempt(s)
<1>1. /\ queue[s] # <<>> /\ http' = http /\ h.ev = "payment.charge_requested"
      /\ calls' = [calls EXCEPT ![p] = @ + 1]
  BY DEF HandleChargeRequested, ChargeSucceeds, ChargeRetries, ChargeExhausted, ChargeFails,
         Charge, At
<1>2. h \in Message /\ p \in PaymentIDs /\ n \in 1 .. MaxAttempts + 1 /\ calls[p] = n - 1
  BY <1>1, HeadAlone, HeadCounted
<1>3. /\ calls'[p] = n /\ OtherCallsStay(p)
      /\ attempt \in [Shards -> 0 .. MaxAttempts]
  BY <1>1, <1>2 DEF OtherCallsStay, WorkflowInv, TypeInv, TypeOK, MaxAttempts
<1>4. /\ "none" \in Reasons /\ "none" \in Actions /\ "payment.charge" \in Actions
      /\ 0 \in 0 .. MaxAttempts + 1 /\ n \in 0 .. MaxAttempts + 1
      /\ "payment.charge_succeeded" \in EventNames /\ "payment.charge_failed" \in EventNames
      /\ "recovery.requested" \in EventNames
  BY <1>2 DEF Reasons, Actions, EventNames, MaxAttempts
<1>5. ASSUME NEW ev, NEW m, Derived(m, ev, h), PublishAndReturn(s, m),
             calls'[p] \in CallsAt(m, m.attempt),
             RecoversCharge(m) => m.attempt = MaxAttempts
      PROVE  CallsCounted'
  <2>1. /\ m \in Message /\ m.pid = p
        /\ Finish(s) /\ queue' = [queue EXCEPT ![s] = Append(Tail(@), m)]
    BY <1>5 DEF Derived, PublishAndReturn
  <2>2. /\ calls'[p] \in CallsAt(m, m.attempt)
        /\ RecoversCharge(m) => m.attempt = MaxAttempts
        /\ calls'[p] \in 0 .. MaxAttempts + 1
    BY <1>3, <1>4, <1>5, <2>1
  <2> HIDE DEF h, p, n
  <2> QED
    BY <1>1, <1>3, <2>1, <2>2, FinishKeepsCount DEF h, p
<1>6. CASE ChargeSucceeds(s)
  <2> DEFINE m == Follow(h, "payment.charge_succeeded")
  <2>1. PublishAndReturn(s, m)
    BY <1>6 DEF ChargeSucceeds
  <2> HIDE DEF h, p, n
  <2>2. Derived(m, "payment.charge_succeeded", h)
    BY <1>2, <1>4, FollowFacts
  <2> HIDE DEF m
  <2>3. calls'[p] \in CallsAt(m, m.attempt) /\ ~RecoversCharge(m)
    BY <1>3, <1>4, <2>2 DEF CallsAt, RecoversCharge, Derived
  <2> QED
    BY <1>4, <1>5, <2>1, <2>2, <2>3
<1>7. ASSUME NEW outcome \in Reasons, ChargeRetries(s, outcome) PROVE CallsCounted'
  <2>1. queue' = queue /\ attempt' = [attempt EXCEPT ![s] = n + 1]
    BY <1>7 DEF ChargeRetries
  <2> HIDE DEF h, p, n
  <2>2. /\ attempt'[s] # 0 /\ calls'[p] = attempt'[s] - 1
        /\ calls'[p] \in 0 .. MaxAttempts + 1
        /\ \A t \in Shards : t # s => attempt'[t] = attempt[t]
    BY <1>2, <1>3, <1>4, <2>1 DEF MaxAttempts
  <2> QED
    BY <1>1, <1>3, <2>1, <2>2, StayKeepsCount DEF h, p
<1>8. ASSUME NEW outcome \in Reasons, ChargeExhausted(s, outcome) PROVE CallsCounted'
  <2> DEFINE m == [Follow(h, "recovery.requested")
                     EXCEPT !.reason = outcome, !.action = "payment.charge", !.attempt = n]
  <2>1. PublishAndReturn(s, m) /\ n = MaxAttempts
    BY <1>8 DEF ChargeExhausted
  <2> HIDE DEF h, p, n
  <2>2. Derived(m, "recovery.requested", h)
    BY <1>2, <1>4, FollowFacts
  <2>3. m.attempt = n /\ m.action = "payment.charge"
    BY <1>2 DEF Follow, Message
  <2> HIDE DEF m
  <2>4. calls'[p] \in CallsAt(m, m.attempt)
    BY <1>3, <2>1, <2>2, <2>3 DEF CallsAt, RecoversCharge, Derived
  <2> QED
    BY <1>4, <1>5, <2>1, <2>2, <2>3, <2>4
<1>9. ASSUME NEW outcome \in Reasons, ChargeFails(s, outcome) PROVE CallsCounted'
  <2> DEFINE m == [Follow(h, "payment.charge_failed") EXCEPT !.reason = outcome]
  <2>1. PublishAndReturn(s, m)
    BY <1>9 DEF ChargeFails
  <2> HIDE DEF h, p, n
  <2>2. Derived(m, "payment.charge_failed", h)
    BY <1>2, <1>4, FollowFacts
  <2> HIDE DEF m
  <2>3. calls'[p] \in CallsAt(m, m.attempt) /\ ~RecoversCharge(m)
    BY <1>3, <1>4, <2>2 DEF CallsAt, RecoversCharge, Derived
  <2> QED
    BY <1>4, <1>5, <2>1, <2>2, <2>3
<1> QED
  BY <1>6, <1>7, <1>8, <1>9 DEF HandleChargeRequested

\* POST /payments brings in a payment for which nobody was called.
LEMMA RequestStepsCount ==
  ASSUME WorkflowInv, CallsCounted, UniqueIDs, NEW r \in Requests, Create(r) \/ ClientDisconnect(r)
  PROVE  CallsCounted'
<1> DEFINE p == ReqPayment[r]
<1>1. /\ p \in PaymentIDs /\ ShardOf[p] \in Shards
      /\ queue \in [Shards -> Seq(Message)]
      /\ http \in [Requests -> {"start", "saved", "published", "replied", "refused"}]
  BY WorkflowAssumption DEF WorkflowInv, TypeInv, TypeOK
<1>2. calls' = calls /\ attempt' = attempt
  BY DEF Create, CreateRefused, CreateInitialize, CreatePublish, CreateReturn,
         ClientDisconnect, historyVars, workerVars
<1>3. RetryBudget'
  BY <1>2 DEF CallsCounted, RetryBudget
<1>4. RequestsUncounted'
  <2>1. \A q \in Requests : http'[q] \in {"start", "saved"} => http[q] \in {"start", "saved"}
    BY <1>1 DEF Create, CreateRefused, CreateInitialize, CreatePublish, CreateReturn,
                ClientDisconnect
  <2> QED
    BY <1>2, <2>1 DEF CallsCounted, RequestsUncounted
<1>5. CASE queue' = queue
  BY <1>2, <1>3, <1>4, <1>5 DEF CallsCounted, MessagesCounted, AttemptsLocal, Turn
<1>6. CASE CreatePublish(r)
  <2>1. PICK m : /\ m.ev = "payment.initialized" /\ m.pid = p
                 /\ queue' = [queue EXCEPT ![ShardOf[p]] = Append(@, m)]
    BY <1>6 DEF CreatePublish
  <2>2. calls[p] = 0
    BY <1>6 DEF CreatePublish, CallsCounted, RequestsUncounted
  <2> HIDE DEF p
  <2>3. \A t \in Shards : t # ShardOf[p] => queue'[t] = queue[t]
    BY <1>1, <2>1
  <2>4. \A t \in Shards :
          /\ \A i \in DOMAIN queue'[t] :
               \/ i \in DOMAIN queue[t] /\ queue'[t][i] = queue[t][i]
               \/ queue'[t][i] = m
          /\ queue[t] # <<>> => queue'[t] # <<>> /\ Head(queue'[t]) = Head(queue[t])
    <3> SUFFICES ASSUME NEW t \in Shards
        PROVE  /\ \A i \in DOMAIN queue'[t] :
                    \/ i \in DOMAIN queue[t] /\ queue'[t][i] = queue[t][i]
                    \/ queue'[t][i] = m
               /\ queue[t] # <<>> => queue'[t] # <<>> /\ Head(queue'[t]) = Head(queue[t])
      OBVIOUS
    <3>1. queue[t] \in Seq(Message)
      BY <1>1
    <3>2. CASE t = ShardOf[p]
      <4>1. queue'[t] = Append(queue[t], m)
        BY <1>1, <2>1, <3>2
      <4> QED
        BY <3>1, <4>1
    <3> QED
      BY <2>3, <3>2
  <2>5. MessagesCounted'
    <3> SUFFICES ASSUME NEW t \in Shards, NEW i \in DOMAIN queue'[t]
        PROVE  /\ calls[queue'[t][i].pid] \in CallsAt(queue'[t][i], Turn(t, i)')
               /\ RecoversCharge(queue'[t][i]) => queue'[t][i].attempt = MaxAttempts
      BY <1>2 DEF MessagesCounted
    <3>1. CASE i \in DOMAIN queue[t] /\ queue'[t][i] = queue[t][i]
      <4>1. Turn(t, i)' = Turn(t, i)
        BY <1>2, <3>1 DEF Turn
      <4> QED
        BY <3>1, <4>1 DEF CallsCounted, MessagesCounted
    <3>2. CASE queue'[t][i] = m
      BY <2>1, <2>2, <3>2 DEF CallsAt, RecoversCharge
    <3> QED
      BY <2>4, <3>1, <3>2
  <2>6. AttemptsLocal'
    BY <1>2, <2>4 DEF CallsCounted, AttemptsLocal
  <2> QED
    BY <1>3, <1>4, <2>5, <2>6 DEF CallsCounted
<1> QED
  BY <1>5, <1>6 DEF Create, CreateRefused, CreateInitialize, CreateReturn, ClientDisconnect

\* For any number of payments and any answers of the gateway: it is called at most
\* five times for a payment, and once more after a recovery.
THEOREM RetriesBounded == ASSUME UniqueIDs PROVE Spec => []RetryBudget
<1>1. WorkflowInv /\ CallsCounted /\ [Next]_vars => CallsCounted'
  <2> SUFFICES ASSUME WorkflowInv, CallsCounted, [Next]_vars PROVE CallsCounted'
    OBVIOUS
  <2>1. CASE UNCHANGED vars
    BY <2>1 DEF vars, workerVars, historyVars, CallsCounted, MessagesCounted, AttemptsLocal,
                RequestsUncounted, RetryBudget, Turn
  <2>2. ASSUME NEW s \in Shards, Worker(s) PROVE CallsCounted'
    BY <2>2, SilentStepsCount, ChargeStepsCount DEF Worker, HandleWalletDebited, HandleChargeFailed
  <2> QED
    BY <2>1, <2>2, RequestStepsCount DEF Next
<1>2. Init => CallsCounted
  <2> SUFFICES ASSUME Init PROVE CallsCounted
    OBVIOUS
  <2>1. MessagesCounted /\ AttemptsLocal
    BY DEF Init, MessagesCounted, AttemptsLocal
  <2>2. RequestsUncounted /\ RetryBudget
    BY WorkflowAssumption DEF Init, RequestsUncounted, RetryBudget, MaxAttempts
  <2> QED
    BY <2>1, <2>2 DEF CallsCounted
<1>3. Spec => []WorkflowInv
  BY AlwaysInPosition
<1>4. CallsCounted => RetryBudget
  BY DEF CallsCounted
<1> QED
  BY <1>1, <1>2, <1>3, <1>4, PTL DEF Spec

-----------------------------------------------------------------------------
(* Reused payment ids and failed writes.  Nothing is assumed from here on  *)
(* but that the requests are finitely many.                                *)

\* What the handlers from m on may still do with the money, if no write fails.
Duties(m) ==
  CASE m.ev \in {"payment.initialized", "wallet.debit_requested"} -> {"debit", "charge"}
    [] m.ev = "recovery.requested" ->
         IF m.action = "payment.charge" THEN {"refund", "charge"} ELSE {"debit", "charge"}
    [] m.ev \in {"wallet.debited", "payment.charge_requested"} -> {"refund", "charge"}
    [] m.ev \in {"payment.charge_failed", "wallet.refund_requested"} -> {"refund"}
    [] OTHER -> {}

OnBus == {m \in Message : \E s \in Shards : \E i \in DOMAIN queue[s] : queue[s][i] = m}

\* A message is about the payment of its request, and a request never has two.
OwnDeliveries ==
  /\ \A s \in Shards : \A i \in DOMAIN queue[s] :
       /\ ReqPayment[queue[s][i].req] = queue[s][i].pid
       /\ http[queue[s][i].req] \in {"published", "replied"}
  /\ \A s, t \in Shards : \A i \in DOMAIN queue[s] : \A j \in DOMAIN queue[t] :
       queue[s][i].req = queue[t][j].req => s = t /\ i = j

\* The requests with a message about p that still has duty d.
Bearers(d, p) == {r \in Requests : \E m \in OnBus : m.req = r /\ m.pid = p /\ d \in Duties(m)}

Bearing(d, p) == Cardinality(Bearers(d, p))

\* What was done to the money of p and what may still be done is covered by the
\* submissions and the failed writes.
Covered(p) ==
  /\ charges[p] + Bearing("charge", p) <= Cardinality(Submissions(p))
  /\ debits[p] + Bearing("debit", p) <= Cardinality(Submissions(p)) + ioFailures
  /\ debits[p] + refunds[p] + 2 * Bearing("debit", p) + Bearing("refund", p)
       <= 2 * Cardinality(Submissions(p)) + ioFailures
  /\ debits[p] = 0 => refunds[p] = 0 /\ Bearing("refund", p) = 0

DutyInv == TypeInv /\ OwnDeliveries /\ \A p \in PaymentIDs : Covered(p)

Finite == IsFiniteSet(Requests)

\* Counts are natural numbers.
LEMMA CountsAreNat ==
  ASSUME Finite, NEW p, NEW d
  PROVE  /\ IsFiniteSet(Bearers(d, p)) /\ Bearing(d, p) \in Nat
         /\ IsFiniteSet(Submissions(p)) /\ Cardinality(Submissions(p)) \in Nat
<1>1. Bearers(d, p) \subseteq Requests /\ Submissions(p) \subseteq Requests
  BY DEF Bearers, Submissions
<1>2. IsFiniteSet(Bearers(d, p)) /\ IsFiniteSet(Submissions(p))
  BY <1>1, FS_Subset DEF Finite
<1> QED
  BY <1>2, FS_CardinalityType DEF Bearing

\* The set S loses the element r, if b, and gains it, if c.
LEMMA CountMove ==
  ASSUME NEW S, NEW T, IsFiniteSet(S), NEW r,
         T = S \/ T = S \union {r} \/ T = S \ {r}
  PROVE  /\ Cardinality(S) \in Nat /\ Cardinality(T) \in Nat
         /\ r \in S /\ r \in T => Cardinality(T) = Cardinality(S)
         /\ r \notin S /\ r \notin T => Cardinality(T) = Cardinality(S)
         /\ r \in S /\ r \notin T => Cardinality(T) = Cardinality(S) - 1
         /\ r \notin S /\ r \in T => Cardinality(T) = Cardinality(S) + 1
<1>1. Cardinality(S) \in Nat
  BY FS_CardinalityType
<1>2. /\ IsFiniteSet(S \union {r})
      /\ r \notin S => Cardinality(S \union {r}) = Cardinality(S) + 1
  BY FS_AddElement
<1>3. /\ IsFiniteSet(S \ {r})
      /\ r \in S => Cardinality(S \ {r}) = Cardinality(S) - 1
  BY FS_RemoveElement
<1>4. Cardinality(T) \in Nat
  BY <1>2, <1>3, FS_CardinalityType
<1>5. /\ r \in S => S \union {r} = S
      /\ r \notin S => S \ {r} = S
  OBVIOUS
<1> QED
  BY <1>1, <1>2, <1>3, <1>4, <1>5

\* The delivery of a worker is the only one of its request.
LEMMA HeadOwn ==
  ASSUME TypeInv, OwnDeliveries, NEW s \in Shards, queue[s] # <<>>
  PROVE  LET h == Head(queue[s]) IN
         /\ h \in OnBus /\ h \in Message /\ h.pid \in PaymentIDs /\ h.req \in Requests
         /\ h = queue[s][1] /\ 1 \in DOMAIN queue[s]
         /\ ReqPayment[h.req] = h.pid /\ http[h.req] \in {"published", "replied"}
         /\ \A m \in OnBus : m.req = h.req => m = h
         /\ \A t \in Shards : \A i \in DOMAIN queue[t] :
              queue[t][i].req = h.req => t = s /\ i = 1
<1> DEFINE h == Head(queue[s])
<1>1. h = queue[s][1] /\ 1 \in DOMAIN queue[s] /\ h \in Message /\ h.pid \in PaymentIDs
  BY HeadFacts
<1>2. h.req \in Requests
  BY <1>1 DEF Message
<1>3. h \in OnBus
  BY <1>1 DEF OnBus
<1>4. ReqPayment[h.req] = h.pid /\ http[h.req] \in {"published", "replied"}
  BY <1>1 DEF OwnDeliveries
<1>5. \A t \in Shards : \A i \in DOMAIN queue[t] : queue[t][i].req = h.req => t = s /\ i = 1
  BY <1>1 DEF OwnDeliveries
<1> HIDE DEF h
<1>6. \A m \in OnBus : m.req = h.req => m = h
  <2> SUFFICES ASSUME NEW m \in OnBus, m.req = h.req PROVE m = h
    OBVIOUS
  <2>1. PICK t \in Shards : \E i \in DOMAIN queue[t] : queue[t][i] = m
    BY DEF OnBus
  <2>2. PICK i \in DOMAIN queue[t] : queue[t][i] = m
    BY <2>1
  <2>3. t = s /\ i = 1
    BY <1>5, <2>2
  <2> QED
    BY <1>1, <2>2, <2>3
<1> QED
  BY <1>1, <1>2, <1>3, <1>4, <1>5, <1>6 DEF h

\* The handler of h replaces it by m, in the name of the same request.
LEMMA ReplaceOwn ==
  ASSUME TypeInv, OwnDeliveries, NEW s \in Shards, queue[s] # <<>>, http' = http,
         NEW m \in Message, NEW h, h = Head(queue[s]), m.req = h.req, m.pid = h.pid,
         queue' = [queue EXCEPT ![s] = Append(Tail(@), m)]
  PROVE  OwnDeliveries' /\ OnBus' = (OnBus \ {h}) \union {m}
<1>1. queue \in [Shards -> Seq(Message)]
  BY DEF TypeInv, TypeOK
<1>2. /\ queue[s] \in Seq(Message) /\ queue'[s] = Append(Tail(queue[s]), m)
      /\ \A t \in Shards : t # s => queue'[t] = queue[t]
  BY <1>1
<1>3. /\ h \in Message /\ h = queue[s][1] /\ h.req \in Requests
      /\ ReqPayment[h.req] = h.pid /\ http[h.req] \in {"published", "replied"}
      /\ \A t \in Shards : \A i \in DOMAIN queue[t] : queue[t][i].req = h.req => t = s /\ i = 1
  BY HeadOwn
\* Where the deliveries come from.
<1>4. \A i \in DOMAIN queue'[s] :
        /\ i \in Nat \ {0}
        /\ \/ i + 1 \in DOMAIN queue[s] /\ queue'[s][i] = queue[s][i + 1]
           \/ i = Len(queue[s]) /\ queue'[s][i] = m
  BY <1>2
\* And where they go to.
<1>5. /\ Len(queue[s]) \in DOMAIN queue'[s] /\ queue'[s][Len(queue[s])] = m
      /\ \A i \in DOMAIN queue[s] :
           i # 1 => i - 1 \in DOMAIN queue'[s] /\ queue'[s][i - 1] = queue[s][i]
  <2>1. Len(queue[s]) \in DOMAIN queue'[s] /\ queue'[s][Len(queue[s])] = m
    BY <1>2
  <2>2. ASSUME NEW i \in DOMAIN queue[s], i # 1
        PROVE  i - 1 \in DOMAIN queue'[s] /\ queue'[s][i - 1] = queue[s][i]
    BY <1>2, <2>2
  <2> QED
    BY <2>1, <2>2
<1>6. OnBus' \subseteq (OnBus \ {h}) \union {m}
  <2> SUFFICES ASSUME NEW t \in Shards, NEW i \in DOMAIN queue'[t], queue'[t][i] \in Message,
                      queue'[t][i] # m
      PROVE  queue'[t][i] \in OnBus \ {h}
    BY DEF OnBus
  <2>1. CASE t = s
    <3>1. i \in Nat \ {0} /\ i + 1 \in DOMAIN queue[s] /\ queue'[s][i] = queue[s][i + 1]
      BY <1>4, <2>1
    <3>2. queue[s][i + 1].req # h.req
      BY <1>3, <3>1
    <3> QED
      BY <2>1, <3>1, <3>2 DEF OnBus
  <2>2. CASE t # s
    BY <1>2, <1>3, <2>2 DEF OnBus
  <2> QED
    BY <2>1, <2>2
<1>7. (OnBus \ {h}) \union {m} \subseteq OnBus'
  <2>1. m \in OnBus'
    BY <1>5 DEF OnBus
  <2>2. ASSUME NEW t \in Shards, NEW i \in DOMAIN queue[t], queue[t][i] \in Message,
               queue[t][i] # h
        PROVE  queue[t][i] \in OnBus'
    <3>1. CASE t = s
      <4>1. i # 1
        BY <1>3, <2>2, <3>1
      <4> QED
        BY <1>5, <2>2, <3>1, <4>1 DEF OnBus
    <3>2. CASE t # s
      BY <1>2, <2>2, <3>2 DEF OnBus
    <3> QED
      BY <3>1, <3>2
  <2> QED
    BY <2>1, <2>2 DEF OnBus
<1>8. OwnDeliveries'
  <2>1. ASSUME NEW t \in Shards, NEW i \in DOMAIN queue'[t]
        PROVE  /\ ReqPayment[queue'[t][i].req] = queue'[t][i].pid
               /\ http[queue'[t][i].req] \in {"published", "replied"}
    BY <1>2, <1>3, <1>4 DEF OwnDeliveries
  <2>2. ASSUME NEW t \in Shards, NEW u \in Shards,
               NEW i \in DOMAIN queue'[t], NEW j \in DOMAIN queue'[u],
               queue'[t][i].req = queue'[u][j].req
        PROVE  t = u /\ i = j
    <3>1. CASE t # s /\ u # s
      BY <1>2, <2>2, <3>1 DEF OwnDeliveries
    <3>2. ASSUME NEW v \in Shards, v # s, NEW k \in DOMAIN queue'[v]
          PROVE  queue'[v][k].req # h.req /\ \A l \in DOMAIN queue[s] : queue'[v][k].req # queue[s][l].req
      BY <1>2, <1>3, <3>2 DEF OwnDeliveries
    <3>3. \A k \in DOMAIN queue'[s] :
            queue'[s][k].req = h.req \/ \E l \in DOMAIN queue[s] : queue'[s][k].req = queue[s][l].req
      BY <1>4
    <3>4. CASE t = s /\ u # s
      BY <2>2, <3>2, <3>3, <3>4
    <3>5. CASE t # s /\ u = s
      BY <2>2, <3>2, <3>3, <3>5
    <3>6. CASE t = s /\ u = s
      <4>1. \A k, l \in DOMAIN queue[s] : queue[s][k].req = queue[s][l].req => k = l
        BY DEF OwnDeliveries
      <4>2. \A k \in DOMAIN queue[s] : queue[s][k].req = h.req => k = 1
        BY <1>3
      <4> HIDE DEF OwnDeliveries
      <4>3. CASE /\ i + 1 \in DOMAIN queue[s] /\ queue'[s][i] = queue[s][i + 1]
                 /\ j + 1 \in DOMAIN queue[s] /\ queue'[s][j] = queue[s][j + 1]
        <5>1. i + 1 = j + 1
          BY <2>2, <3>6, <4>1, <4>3
        <5> QED
          BY <1>4, <3>6, <5>1
      <4>4. CASE queue'[s][i] = m /\ i = Len(queue[s])
        <5>1. ~(j + 1 \in DOMAIN queue[s] /\ queue'[s][j] = queue[s][j + 1])
          BY <1>4, <2>2, <3>6, <4>2, <4>4
        <5> QED
          BY <1>4, <3>6, <4>4, <5>1
      <4>5. CASE queue'[s][j] = m /\ j = Len(queue[s])
        <5>1. ~(i + 1 \in DOMAIN queue[s] /\ queue'[s][i] = queue[s][i + 1])
          BY <1>4, <2>2, <3>6, <4>2, <4>5
        <5> QED
          BY <1>4, <3>6, <4>5, <5>1
      <4> QED
        BY <1>4, <3>6, <4>3, <4>4, <4>5
    <3> QED
      BY <3>1, <3>4, <3>5, <3>6
  <2> QED
    BY <2>1, <2>2 DEF OwnDeliveries
<1> QED
  BY <1>6, <1>7, <1>8

\* The handler of h drops it.
LEMMA DropOwn ==
  ASSUME TypeInv, OwnDeliveries, NEW s \in Shards, queue[s] # <<>>, http' = http,
         NEW h, h = Head(queue[s]), Drops(s)
  PROVE  OwnDeliveries' /\ OnBus' = OnBus \ {h}
<1>1. queue \in [Shards -> Seq(Message)]
  BY DEF TypeInv, TypeOK
<1>2. /\ queue[s] \in Seq(Message) /\ queue'[s] = Tail(queue[s])
      /\ \A t \in Shards : t # s => queue'[t] = queue[t]
  BY <1>1 DEF Drops
<1>3. /\ h \in Message /\ h = queue[s][1]
      /\ \A t \in Shards : \A i \in DOMAIN queue[t] : queue[t][i].req = h.req => t = s /\ i = 1
  BY HeadOwn
<1>4. \A i \in DOMAIN queue'[s] :
        i \in Nat \ {0} /\ i + 1 \in DOMAIN queue[s] /\ queue'[s][i] = queue[s][i + 1]
  BY <1>2
<1>5. \A i \in DOMAIN queue[s] :
        i # 1 => i - 1 \in DOMAIN queue'[s] /\ queue'[s][i - 1] = queue[s][i]
  BY <1>2
<1>6. OnBus' \subseteq OnBus \ {h}
  <2> SUFFICES ASSUME NEW t \in Shards, NEW i \in DOMAIN queue'[t], queue'[t][i] \in Message
      PROVE  queue'[t][i] \in OnBus \ {h}
    BY DEF OnBus
  <2>1. CASE t = s
    <3>1. i \in Nat \ {0} /\ i + 1 \in DOMAIN queue[s] /\ queue'[s][i] = queue[s][i + 1]
      BY <1>4, <2>1
    <3>2. queue[s][i + 1].req # h.req
      BY <1>3, <3>1
    <3> QED
      BY <2>1, <3>1, <3>2 DEF OnBus
  <2>2. CASE t # s
    BY <1>2, <1>3, <2>2 DEF OnBus
  <2> QED
    BY <2>1, <2>2
<1>7. OnBus \ {h} \subseteq OnBus'
  <2> SUFFICES ASSUME NEW t \in Shards, NEW i \in DOMAIN queue[t], queue[t][i] \in Message,
                      queue[t][i] # h
      PROVE  queue[t][i] \in OnBus'
    BY DEF OnBus
  <2>1. CASE t = s
    <3>1. i # 1
      BY <1>3, <2>1
    <3> QED
      BY <1>5, <2>1, <3>1 DEF OnBus
  <2>2. CASE t # s
    BY <1>2, <2>2 DEF OnBus
  <2> QED
    BY <2>1, <2>2
<1>8. OwnDeliveries'
  <2>1. ASSUME NEW t \in Shards, NEW i \in DOMAIN queue'[t]
        PROVE  \E j \in DOMAIN queue[t] :
                 queue'[t][i] = queue[t][j] /\ j = IF t = s THEN i + 1 ELSE i
    BY <1>2, <1>4
  <2>2. ASSUME NEW t \in Shards, NEW u \in Shards,
               NEW i \in DOMAIN queue'[t], NEW j \in DOMAIN queue'[u],
               queue'[t][i].req = queue'[u][j].req
        PROVE  t = u /\ i = j
    <3>1. PICK k \in DOMAIN queue[t] :
            queue'[t][i] = queue[t][k] /\ k = IF t = s THEN i + 1 ELSE i
      BY <2>1
    <3>2. PICK l \in DOMAIN queue[u] :
            queue'[u][j] = queue[u][l] /\ l = IF u = s THEN j + 1 ELSE j
      BY <2>1
    <3>3. t = u /\ k = l
      BY <2>2, <3>1, <3>2 DEF OwnDeliveries
    <3>4. CASE t = s
      BY <1>4, <3>1, <3>2, <3>3, <3>4
    <3>5. CASE t # s
      BY <3>1, <3>2, <3>3, <3>5
    <3> QED
      BY <3>3, <3>4, <3>5
  <2> QED
    BY <2>1, <2>2 DEF OwnDeliveries
<1> QED
  BY <1>6, <1>7, <1>8

\* What a handler leaves on its queue: nothing, a message about its payment
\* with duties D, or its delivery.
Leaves(s, h, D) ==
  \/ D = {} /\ Drops(s)
  \/ \E m \in Message :
       /\ m.req = h.req /\ m.pid = h.pid /\ D = Duties(m)
       /\ queue' = [queue EXCEPT ![s] = Append(Tail(@), m)]
  \/ D = Duties(h) /\ queue' = queue

\* What a handler does to the money, and which duties D that leaves: a duty
\* goes when it is done, and comes only with a debit.
Spends(h, D) ==
  \/ /\ D \subseteq Duties(h)
     /\ UNCHANGED <<debits, charges, refunds, ioFailures>>
  \/ /\ Duties(h) = {"debit", "charge"} /\ D = {"refund", "charge"}
     /\ debits' = [debits EXCEPT ![h.pid] = @ + 1]
     /\ UNCHANGED <<charges, refunds, ioFailures>>
  \/ /\ Duties(h) = {"debit", "charge"} /\ D \subseteq {"debit", "charge"}
     /\ debits' = [debits EXCEPT ![h.pid] = @ + 1] /\ ioFailures' = ioFailures + 1
     /\ UNCHANGED <<charges, refunds>>
  \/ /\ Duties(h) = {"refund", "charge"} /\ D = {}
     /\ charges' = [charges EXCEPT ![h.pid] = @ + 1]
     /\ UNCHANGED <<debits, refunds, ioFailures>>
  \/ /\ Duties(h) = {"refund"} /\ D = {}
     /\ refunds' = [refunds EXCEPT ![h.pid] = @ + 1]
     /\ UNCHANGED <<debits, charges, ioFailures>>
  \/ /\ Duties(h) = {"refund"} /\ D = {"refund"}
     /\ refunds' = [refunds EXCEPT ![h.pid] = @ + 1] /\ ioFailures' = ioFailures + 1
     /\ UNCHANGED <<debits, charges>>

\* The handlers that hand over to the next one.
LEMMA HandOverSpends ==
  ASSUME TypeInv, NEW s \in Shards, NEW h, h = Head(queue[s]),
         \/ HandlePaymentInitialized(s)
         \/ DebitRefused(s)
         \/ \E ok \in BOOLEAN : DebitApplied(s, ok)
         \/ RequestCharge(s)
         \/ RequestRefund(s)
         \/ RecoveryResumes(s)
  PROVE  \E D : Leaves(s, h, D) /\ Spends(h, D)
<1>1. queue[s] # <<>>
  BY DEF HandlePaymentInitialized, DebitRefused, DebitApplied, RequestCharge,
         RequestRefund, RecoveryResumes, At
<1>2. /\ h \in Message /\ h.pid \in PaymentIDs /\ RealRow(payments[h.pid])
      /\ h.ev = "recovery.requested" => h.attempt \in 1 .. MaxAttempts
  BY <1>1, HeadFacts
<1>3. /\ 0 \in 0 .. MaxAttempts + 1 /\ 1 \in 0 .. MaxAttempts + 1
      /\ "insufficient" \in Reasons /\ "db_internal" \in Reasons
      /\ "wallet.debit" \in Actions
  BY DEF MaxAttempts, Reasons, Actions
<1>4. /\ "wallet.debit_requested" \in EventNames /\ "wallet.debited" \in EventNames
      /\ "wallet.debit_rejected" \in EventNames /\ "recovery.requested" \in EventNames
      /\ "payment.charge_requested" \in EventNames
      /\ "wallet.refund_requested" \in EventNames
  BY DEF EventNames
<1>5. \A e \in Message : e.req = h.req /\ e.pid = h.pid /\ PublishAndReturn(s, e) =>
        Leaves(s, h, Duties(e))
  BY DEF Leaves, PublishAndReturn
<1>6. CASE HandlePaymentInitialized(s)
  <2> DEFINE e == [Follow(h, "wallet.debit_requested") EXCEPT !.attempt = 1]
  <2>1. Derived(e, "wallet.debit_requested", h)
    BY <1>2, <1>3, <1>4, FollowFacts
  <2>2. PublishAndReturn(s, e) /\ h.ev = "payment.initialized"
        /\ UNCHANGED <<debits, charges, refunds, ioFailures>>
    BY <1>6 DEF HandlePaymentInitialized, At, historyVars, walletVars
  <2> HIDE DEF e
  <2>3. Spends(h, Duties(e))
    BY <2>1, <2>2 DEF Derived, Duties, Spends
  <2> QED
    BY <1>5, <2>1, <2>2, <2>3 DEF Derived
<1>7. CASE DebitRefused(s)
  <2> DEFINE e == [Follow(h, "wallet.debit_rejected") EXCEPT !.reason = "insufficient"]
  <2>1. Derived(e, "wallet.debit_rejected", h)
    BY <1>2, <1>3, <1>4, FollowFacts
  <2>2. PublishAndReturn(s, e) /\ UNCHANGED <<debits, charges, refunds, ioFailures>>
    BY <1>7 DEF DebitRefused, historyVars, walletVars
  <2> HIDE DEF e
  <2>3. Spends(h, Duties(e))
    BY <2>1, <2>2 DEF Derived, Duties, Spends
  <2> QED
    BY <1>5, <2>1, <2>2, <2>3 DEF Derived
<1>8. ASSUME NEW ok \in BOOLEAN, DebitApplied(s, ok)
      PROVE  \E D : Leaves(s, h, D) /\ Spends(h, D)
  <2>1. Duties(h) = {"debit", "charge"}
    BY <1>8 DEF DebitApplied, At, Duties
  <2>2. debits' = [debits EXCEPT ![h.pid] = @ + 1] /\ UNCHANGED <<charges, refunds>>
    BY <1>8 DEF DebitApplied
  <2>3. CASE ok
    <3> DEFINE e == Follow(h, "wallet.debited")
    <3>1. Derived(e, "wallet.debited", h)
      BY <1>2, <1>3, <1>4, FollowFacts
    <3>2. PublishAndReturn(s, e) /\ UNCHANGED ioFailures
      BY <1>8, <2>3 DEF DebitApplied, DebitBalance, PersistWallets
    <3> HIDE DEF e
    <3>3. Duties(e) = {"refund", "charge"}
      BY <3>1 DEF Derived, Duties
    <3>4. Spends(h, Duties(e))
      BY <2>1, <2>2, <3>2, <3>3 DEF Spends
    <3> QED
      BY <1>5, <3>1, <3>2, <3>4 DEF Derived
  <2>4. CASE ~ok
    <3> DEFINE rec == [Follow(h, "recovery.requested")
                         EXCEPT !.reason = "db_internal", !.action = "wallet.debit",
                                !.attempt = 1]
               rej == [Follow(h, "wallet.debit_rejected") EXCEPT !.reason = "db_internal"]
    <3>1. Derived(rec, "recovery.requested", h) /\ rec.action = "wallet.debit"
      <4>1. Derived(rec, "recovery.requested", h)
        BY <1>2, <1>3, <1>4, FollowFacts
      <4>2. rec.action = "wallet.debit"
        BY <1>2 DEF Follow, Message
      <4> QED
        BY <4>1, <4>2
    <3>2. Derived(rej, "wallet.debit_rejected", h)
      BY <1>2, <1>3, <1>4, FollowFacts
    <3>3. DebitFailureEvent(h) \in {rec, rej}
      BY DEF DebitFailureEvent
    <3>4. PublishAndReturn(s, DebitFailureEvent(h)) /\ ioFailures' = ioFailures + 1
      BY <1>8, <2>4 DEF DebitApplied, DebitBalance, PersistWallets
    <3> HIDE DEF rec, rej
    <3>5. Duties(rec) = {"debit", "charge"} /\ Duties(rej) = {}
      BY <3>1, <3>2 DEF Derived, Duties
    <3>6. PICK e \in {rec, rej} : PublishAndReturn(s, e)
      BY <3>3, <3>4
    <3>7. Spends(h, Duties(e))
      BY <2>1, <2>2, <3>4, <3>5, <3>6 DEF Spends
    <3> QED
      BY <1>5, <3>1, <3>2, <3>6, <3>7 DEF Derived
  <2> QED
    BY <2>3, <2>4
<1>9. CASE RequestCharge(s)
  <2> DEFINE e == FromTable(h, "payment.charge_requested", 1)
  <2>1. Derived(e, "payment.charge_requested", h)
    BY <1>2, <1>3, <1>4, FromTableFacts
  <2>2. PublishAndReturn(s, e) /\ h.ev = "wallet.debited"
        /\ UNCHANGED <<debits, charges, refunds, ioFailures>>
    BY <1>9 DEF RequestCharge, At, historyVars, walletVars
  <2> HIDE DEF e
  <2>3. Spends(h, Duties(e))
    BY <2>1, <2>2 DEF Derived, Duties, Spends
  <2> QED
    BY <1>5, <2>1, <2>2, <2>3 DEF Derived
<1>10. CASE RequestRefund(s)
  <2> DEFINE e == FromTable(h, "wallet.refund_requested", 0)
  <2>1. Derived(e, "wallet.refund_requested", h)
    BY <1>2, <1>3, <1>4, FromTableFacts
  <2>2. PublishAndReturn(s, e) /\ h.ev = "payment.charge_failed"
        /\ UNCHANGED <<debits, charges, refunds, ioFailures>>
    BY <1>10 DEF RequestRefund, At, historyVars, walletVars
  <2> HIDE DEF e
  <2>3. Spends(h, Duties(e))
    BY <2>1, <2>2 DEF Derived, Duties, Spends
  <2> QED
    BY <1>5, <2>1, <2>2, <2>3 DEF Derived
<1>11. CASE RecoveryResumes(s)
  <2> DEFINE ev == IF h.action = "payment.charge" THEN "payment.charge_requested"
                                                  ELSE "wallet.debit_requested"
             e == FromTable(h, ev, h.attempt + 1)
  <2>1. ev \in EventNames /\ h.attempt + 1 \in 0 .. MaxAttempts + 1
    BY <1>2, <1>4, <1>11 DEF RecoveryResumes, At, MaxAttempts
  <2>2. PublishAndReturn(s, e) /\ h.ev = "recovery.requested"
        /\ UNCHANGED <<debits, charges, refunds, ioFailures>>
    BY <1>11 DEF RecoveryResumes, RecoveredEvent, At, historyVars, walletVars
  <2> HIDE DEF ev
  <2>3. Derived(e, ev, h)
    BY <1>2, <2>1, FromTableFacts
  <2> HIDE DEF e
  <2>4. Duties(e) = Duties(h)
    BY <2>2, <2>3 DEF Derived, Duties, ev
  <2>5. Spends(h, Duties(e))
    BY <2>2, <2>4 DEF Spends
  <2> QED
    BY <1>5, <2>2, <2>3, <2>5 DEF Derived
<1> QED
  BY <1>6, <1>7, <1>8, <1>9, <1>10, <1>11

\* The turns of the charge loop.
LEMMA ChargeSpends ==
  ASSUME TypeInv, NEW s \in Shards, NEW h, h = Head(queue[s]), HandleChargeRequested(s)
  PROVE  \E D : Leaves(s, h, D) /\ Spends(h, D)
<1>1. queue[s] # <<>> /\ h.ev = "payment.charge_requested"
  BY DEF HandleChargeRequested, ChargeSucceeds, ChargeRetries, ChargeExhausted, ChargeFails,
         Charge, At
<1>2. h \in Message
  BY <1>1, HeadFacts
<1>3. /\ 0 \in 0 .. MaxAttempts + 1 /\ MaxAttempts \in 0 .. MaxAttempts + 1
      /\ "payment.charge" \in Actions /\ "none" \in Actions /\ "none" \in Reasons
      /\ "payment.charge_succeeded" \in EventNames /\ "payment.charge_failed" \in EventNames
      /\ "recovery.requested" \in EventNames
  BY DEF MaxAttempts, Actions, Reasons, EventNames
<1>4. \A e \in Message : e.req = h.req /\ e.pid = h.pid /\ PublishAndReturn(s, e) =>
        Leaves(s, h, Duties(e))
  BY DEF Leaves, PublishAndReturn
<1>5. Duties(h) = {"refund", "charge"}
  BY <1>1 DEF Duties
<1>6. CASE ChargeSucceeds(s)
  <2> DEFINE e == Follow(h, "payment.charge_succeeded")
  <2>1. Derived(e, "payment.charge_succeeded", h)
    BY <1>2, <1>3, FollowFacts
  <2>2. PublishAndReturn(s, e) /\ charges' = [charges EXCEPT ![h.pid] = @ + 1]
        /\ UNCHANGED <<debits, refunds, ioFailures>>
    BY <1>6 DEF ChargeSucceeds, Charge, walletVars
  <2> HIDE DEF e
  <2>3. Duties(e) = {}
    BY <2>1 DEF Derived, Duties
  <2>4. Spends(h, Duties(e))
    BY <1>5, <2>2, <2>3 DEF Spends
  <2> QED
    BY <1>4, <2>1, <2>2, <2>4 DEF Derived
<1>7. ASSUME NEW outcome \in Reasons, ChargeRetries(s, outcome)
      PROVE  \E D : Leaves(s, h, D) /\ Spends(h, D)
  <2>1. UNCHANGED <<queue, debits, charges, refunds, ioFailures>>
    BY <1>7 DEF ChargeRetries, Charge, walletVars
  <2>2. Leaves(s, h, Duties(h)) /\ Spends(h, Duties(h))
    BY <2>1 DEF Leaves, Spends
  <2> QED
    BY <2>2
<1>8. ASSUME NEW outcome \in Reasons, ChargeExhausted(s, outcome)
      PROVE  \E D : Leaves(s, h, D) /\ Spends(h, D)
  <2> DEFINE e == [Follow(h, "recovery.requested")
                     EXCEPT !.reason = outcome, !.action = "payment.charge",
                            !.attempt = Attempt(s)]
  <2>1. Attempt(s) \in 0 .. MaxAttempts + 1
    BY <1>3, <1>8 DEF ChargeExhausted
  <2>2. PublishAndReturn(s, e) /\ UNCHANGED <<debits, charges, refunds, ioFailures>>
    BY <1>8 DEF ChargeExhausted, Charge, walletVars
  <2>3. Derived(e, "recovery.requested", h) /\ e.action = "payment.charge"
    <3>1. Derived(e, "recovery.requested", h)
      BY <1>2, <1>3, <1>8, <2>1, FollowFacts
    <3>2. e.action = "payment.charge"
      BY <1>2 DEF Follow, Message
    <3> QED
      BY <3>1, <3>2
  <2> HIDE DEF e
  <2>4. Duties(e) = {"refund", "charge"}
    BY <2>3 DEF Derived, Duties
  <2>5. Spends(h, Duties(e))
    BY <1>5, <2>2, <2>4 DEF Spends
  <2> QED
    BY <1>4, <2>2, <2>3, <2>5 DEF Derived
<1>9. ASSUME NEW outcome \in Reasons, ChargeFails(s, outcome)
      PROVE  \E D : Leaves(s, h, D) /\ Spends(h, D)
  <2> DEFINE e == [Follow(h, "payment.charge_failed") EXCEPT !.reason = outcome]
  <2>1. PublishAndReturn(s, e) /\ UNCHANGED <<debits, charges, refunds, ioFailures>>
    BY <1>9 DEF ChargeFails, Charge, walletVars
  <2>2. Derived(e, "payment.charge_failed", h)
    BY <1>2, <1>3, <1>9, FollowFacts
  <2> HIDE DEF e
  <2>3. Duties(e) = {"refund"}
    BY <2>2 DEF Derived, Duties
  <2>4. Spends(h, Duties(e))
    BY <1>5, <2>1, <2>3 DEF Spends
  <2> QED
    BY <1>4, <2>1, <2>2, <2>4 DEF Derived
<1> QED
  BY <1>6, <1>7, <1>8, <1>9 DEF HandleChargeRequested

\* Every step of a worker.
LEMMA WorkerSpends ==
  ASSUME TypeInv, NEW s \in Shards, NEW h, h = Head(queue[s]), Worker(s)
  PROVE  /\ queue[s] # <<>> /\ http' = http
         /\ \E D : Leaves(s, h, D) /\ Spends(h, D)
<1>1. queue[s] # <<>> /\ http' = http
  BY DEF Worker, HandlePaymentInitialized, HandleWalletDebitRequested, DebitRefused,
         DebitApplied, MarkGet, HandleWalletDebited, MarkPending, RequestCharge, MarkRejected,
         HandleChargeRequested, ChargeSucceeds, ChargeRetries, ChargeExhausted, ChargeFails,
         Charge, MarkSucceeded, HandleChargeFailed, MarkFailed, RequestRefund,
         HandleWalletRefundRequested, RefundRead, RefundWrite, HandleRecoveryRequested,
         RecoveryResumes, RecoveryInterrupted, At
<1>2. CASE MarkGet(s) \/ MarkPending(s) \/ MarkFailed(s) \/ RefundRead(s) \/ RecoveryInterrupted(s)
  <2>1. UNCHANGED <<queue, debits, charges, refunds, ioFailures>>
    BY <1>2 DEF MarkGet, MarkPending, MarkFailed, RefundRead, RecoveryInterrupted, ReturnError,
                historyVars, walletVars
  <2>2. Leaves(s, h, Duties(h)) /\ Spends(h, Duties(h))
    BY <2>1 DEF Leaves, Spends
  <2> QED
    BY <1>1, <2>2
<1>3. CASE MarkRejected(s) \/ MarkSucceeded(s)
  <2>1. Drops(s) /\ UNCHANGED <<debits, charges, refunds, ioFailures>>
    BY <1>3 DEF MarkRejected, MarkSucceeded, Return, Drops, historyVars, walletVars
  <2>2. Leaves(s, h, {}) /\ Spends(h, {})
    BY <2>1 DEF Leaves, Spends
  <2> QED
    BY <1>1, <2>2
<1>4. ASSUME NEW ok \in BOOLEAN, RefundWrite(s, ok)
      PROVE  \E D : Leaves(s, h, D) /\ Spends(h, D)
  <2>1. Duties(h) = {"refund"}
    BY <1>4 DEF RefundWrite, At, Duties
  <2>2. refunds' = [refunds EXCEPT ![h.pid] = @ + 1] /\ UNCHANGED <<debits, charges>>
    BY <1>4 DEF RefundWrite
  <2>3. CASE ok
    <3>1. Drops(s) /\ UNCHANGED ioFailures
      BY <1>4, <2>3 DEF RefundWrite, Return, Drops, SetBalance, PersistWallets
    <3>2. Leaves(s, h, {}) /\ Spends(h, {})
      BY <2>1, <2>2, <3>1 DEF Leaves, Spends
    <3> QED
      BY <3>2
  <2>4. CASE ~ok
    <3>1. queue' = queue /\ ioFailures' = ioFailures + 1
      BY <1>4, <2>4 DEF RefundWrite, ReturnError, SetBalance, PersistWallets
    <3>2. Leaves(s, h, Duties(h)) /\ Spends(h, Duties(h))
      BY <2>1, <2>2, <3>1 DEF Leaves, Spends
    <3> QED
      BY <3>2
  <2> QED
    BY <2>3, <2>4
<1> QED
  BY <1>1, <1>2, <1>3, <1>4, HandOverSpends, ChargeSpends
     DEF Worker, HandleWalletDebitRequested, HandleWalletDebited, HandleChargeFailed,
         HandleWalletRefundRequested, HandleRecoveryRequested

\* What a step of a worker does to the bearers: the request of h bears exactly
\* the duties D afterwards, and no other request is affected.
LEMMA BearersMove ==
  ASSUME TypeInv, OwnDeliveries, NEW s \in Shards, queue[s] # <<>>, http' = http,
         NEW h, h = Head(queue[s]), NEW D, Leaves(s, h, D),
         NEW d, NEW p \in PaymentIDs
  PROVE  /\ OwnDeliveries'
         /\ h.req \in Bearers(d, h.pid) <=> d \in Duties(h)
         /\ \A r : r \in Bearers(d, p)' <=>
                     IF p = h.pid /\ r = h.req THEN d \in D ELSE r \in Bearers(d, p)
<1>1. /\ h \in OnBus /\ h \in Message /\ h.req \in Requests
      /\ \A m \in OnBus : m.req = h.req => m = h
  BY HeadOwn
<1>2. h.req \in Bearers(d, h.pid) <=> d \in Duties(h)
  BY <1>1 DEF Bearers
<1>3. CASE queue' = queue /\ D = Duties(h)
  <2>1. OwnDeliveries' /\ OnBus' = OnBus
    BY <1>3 DEF OwnDeliveries, OnBus
  <2>2. Bearers(d, p)' = Bearers(d, p)
    BY <2>1 DEF Bearers
  <2> QED
    BY <1>2, <1>3, <2>1, <2>2
<1>4. CASE D = {} /\ Drops(s)
  <2>1. OwnDeliveries' /\ OnBus' = OnBus \ {h}
    BY <1>4, DropOwn
  <2>2. \A r : r \in Bearers(d, p)' <=>
                 IF p = h.pid /\ r = h.req THEN d \in D ELSE r \in Bearers(d, p)
    BY <1>1, <1>4, <2>1 DEF Bearers
  <2> QED
    BY <1>2, <2>1, <2>2
<1>5. ASSUME NEW m \in Message, m.req = h.req, m.pid = h.pid, D = Duties(m),
             queue' = [queue EXCEPT ![s] = Append(Tail(@), m)]
      PROVE  /\ OwnDeliveries'
             /\ \A r : r \in Bearers(d, p)' <=>
                         IF p = h.pid /\ r = h.req THEN d \in D ELSE r \in Bearers(d, p)
  <2>1. OwnDeliveries' /\ OnBus' = (OnBus \ {h}) \union {m}
    BY <1>5, ReplaceOwn
  <2>2. \A r : r \in Bearers(d, p)' <=>
                 IF p = h.pid /\ r = h.req THEN d \in D ELSE r \in Bearers(d, p)
    BY <1>1, <1>5, <2>1 DEF Bearers
  <2> QED
    BY <2>1, <2>2
<1> QED
  BY <1>2, <1>3, <1>4, <1>5 DEF Leaves

\* How many requests bear a duty afterwards.
LEMMA BearingMoves ==
  ASSUME Finite, TypeInv, OwnDeliveries, NEW s \in Shards, queue[s] # <<>>, http' = http,
         NEW h, h = Head(queue[s]), NEW D, Leaves(s, h, D),
         NEW d, NEW p \in PaymentIDs
  PROVE  /\ Bearing(d, p) \in Nat /\ Bearing(d, p)' \in Nat
         /\ Bearing(d, p)' <= Bearing(d, p) + (IF p = h.pid /\ d \in D THEN 1 ELSE 0)
                                             - (IF p = h.pid /\ d \in Duties(h) THEN 1 ELSE 0)
         /\ Bearing(d, p)' >= Bearing(d, p) + (IF p = h.pid /\ d \in D THEN 1 ELSE 0)
                                             - (IF p = h.pid /\ d \in Duties(h) THEN 1 ELSE 0)
         /\ Bearing(d, p) >= IF p = h.pid /\ d \in Duties(h) THEN 1 ELSE 0
<1>1. PICK B, C : B = Bearers(d, p) /\ C = Bearers(d, p)'
  OBVIOUS
<1>2. /\ h.req \in Bearers(d, h.pid) <=> d \in Duties(h)
      /\ \A r : r \in Bearers(d, p)' <=>
                  IF p = h.pid /\ r = h.req THEN d \in D ELSE r \in Bearers(d, p)
  BY BearersMove
<1>3. /\ p # h.pid => C = B
      /\ p = h.pid => /\ h.req \in B <=> d \in Duties(h)
                      /\ h.req \in C <=> d \in D
                      /\ C = B \/ C = B \union {h.req} \/ C = B \ {h.req}
  <2>1. /\ p = h.pid => (h.req \in B <=> d \in Duties(h))
        /\ \A r : r \in C <=> IF p = h.pid /\ r = h.req THEN d \in D ELSE r \in B
    BY <1>1, <1>2
  <2>2. CASE p # h.pid
    BY <2>1, <2>2
  <2>3. CASE p = h.pid /\ d \in D
    <3>1. C = B \union {h.req}
      BY <2>1, <2>3
    <3> QED
      BY <2>1, <2>3, <3>1
  <2>4. CASE p = h.pid /\ d \notin D
    <3>1. C = B \ {h.req}
      BY <2>1, <2>4
    <3> QED
      BY <2>1, <2>4, <3>1
  <2> QED
    BY <2>2, <2>3, <2>4
<1>4. IsFiniteSet(B)
  BY <1>1, CountsAreNat
<1>5. Bearing(d, p) = Cardinality(B) /\ Bearing(d, p)' = Cardinality(C)
  BY <1>1 DEF Bearing
<1>6. Cardinality(B) \in Nat /\ (B # {} => Cardinality(B) # 0)
  BY <1>4, FS_CardinalityType, FS_EmptySet
<1>7. CASE p # h.pid
  BY <1>3, <1>5, <1>6, <1>7
<1>8. CASE p = h.pid
  <2>1. /\ Cardinality(C) \in Nat
        /\ h.req \in B /\ h.req \in C => Cardinality(C) = Cardinality(B)
        /\ h.req \notin B /\ h.req \notin C => Cardinality(C) = Cardinality(B)
        /\ h.req \in B /\ h.req \notin C => Cardinality(C) = Cardinality(B) - 1
        /\ h.req \notin B /\ h.req \in C => Cardinality(C) = Cardinality(B) + 1
    BY <1>3, <1>4, <1>8, CountMove
  <2>2. Cardinality(B) >= IF d \in Duties(h) THEN 1 ELSE 0
    BY <1>3, <1>6, <1>8
  <2> QED
    BY <1>3, <1>5, <1>6, <1>8, <2>1, <2>2
<1> QED
  BY <1>7, <1>8

\* No step of a worker does more than is covered.
LEMMA WorkersCovered ==
  ASSUME Finite, DutyInv, NEW s \in Shards, Worker(s)
  PROVE  OwnDeliveries' /\ \A p \in PaymentIDs : Covered(p)'
<1>0. TypeInv /\ OwnDeliveries
  BY DEF DutyInv
<1>9. PICK h : h = Head(queue[s])
  OBVIOUS
<1>1. /\ queue[s] # <<>> /\ http' = http
      /\ \E D : Leaves(s, h, D) /\ Spends(h, D)
  BY <1>9, <1>0, WorkerSpends
<1>2. PICK D : Leaves(s, h, D) /\ Spends(h, D)
  BY <1>1
<1>3. h.pid \in PaymentIDs
  BY <1>9, <1>0, <1>1, HeadFacts
<1>4. OwnDeliveries'
  BY <1>9, <1>0, <1>1, <1>2, <1>3, BearersMove
<1>5. ASSUME NEW p \in PaymentIDs PROVE Covered(p)'
  <2>1. Covered(p)
    BY DEF DutyInv
  <2> DEFINE n == Cardinality(Submissions(p))
  <2>2. n \in Nat /\ Cardinality(Submissions(p))' = n
    BY <1>1, CountsAreNat DEF Submissions
  <2>3. /\ debits \in [PaymentIDs -> Nat] /\ charges \in [PaymentIDs -> Nat]
        /\ refunds \in [PaymentIDs -> Nat] /\ ioFailures \in Nat
    BY <1>0, WalletStoreAssumption DEF TypeInv, TypeOK, WalletTypeOK
  <2> HIDE DEF n
  <2>4. PICK bd, cd, br, cr, bc, cc :
          /\ bd = Bearing("debit", p)  /\ cd = Bearing("debit", p)'
          /\ br = Bearing("refund", p) /\ cr = Bearing("refund", p)'
          /\ bc = Bearing("charge", p) /\ cc = Bearing("charge", p)'
    OBVIOUS
  <2>5. /\ bd \in Nat /\ br \in Nat /\ bc \in Nat /\ cd \in Nat /\ cr \in Nat /\ cc \in Nat
        /\ p # h.pid => cd = bd /\ cr = br /\ cc = bc
        /\ p = h.pid =>
             /\ cd = bd + (IF "debit" \in D THEN 1 ELSE 0) - (IF "debit" \in Duties(h) THEN 1 ELSE 0)
             /\ cr = br + (IF "refund" \in D THEN 1 ELSE 0) - (IF "refund" \in Duties(h) THEN 1 ELSE 0)
             /\ cc = bc + (IF "charge" \in D THEN 1 ELSE 0) - (IF "charge" \in Duties(h) THEN 1 ELSE 0)
             /\ br >= IF "refund" \in Duties(h) THEN 1 ELSE 0
    <3>1. \A d :
            /\ Bearing(d, p) \in Nat /\ Bearing(d, p)' \in Nat
            /\ Bearing(d, p)' <= Bearing(d, p) + (IF p = h.pid /\ d \in D THEN 1 ELSE 0)
                                                - (IF p = h.pid /\ d \in Duties(h) THEN 1 ELSE 0)
            /\ Bearing(d, p)' >= Bearing(d, p) + (IF p = h.pid /\ d \in D THEN 1 ELSE 0)
                                                - (IF p = h.pid /\ d \in Duties(h) THEN 1 ELSE 0)
            /\ Bearing(d, p) >= IF p = h.pid /\ d \in Duties(h) THEN 1 ELSE 0
      <4> SUFFICES ASSUME NEW d
          PROVE  /\ Bearing(d, p) \in Nat /\ Bearing(d, p)' \in Nat
                 /\ Bearing(d, p)' <= Bearing(d, p) + (IF p = h.pid /\ d \in D THEN 1 ELSE 0)
                                                     - (IF p = h.pid /\ d \in Duties(h) THEN 1 ELSE 0)
                 /\ Bearing(d, p)' >= Bearing(d, p) + (IF p = h.pid /\ d \in D THEN 1 ELSE 0)
                                                     - (IF p = h.pid /\ d \in Duties(h) THEN 1 ELSE 0)
                 /\ Bearing(d, p) >= IF p = h.pid /\ d \in Duties(h) THEN 1 ELSE 0
        OBVIOUS
      <4>1. queue[s] # <<>> /\ http' = http /\ Leaves(s, h, D)
        BY <1>1, <1>2
      <4> QED
        BY <1>9, <1>0, <4>1, BearingMoves
    <3> QED
      BY <2>4, <3>1
  <2>6. /\ charges[p] + bc <= n
        /\ debits[p] + bd <= n + ioFailures
        /\ debits[p] + refunds[p] + 2 * bd + br <= 2 * n + ioFailures
        /\ debits[p] = 0 => refunds[p] = 0 /\ br = 0
    BY <2>1, <2>4 DEF Covered, n
  <2>7. SUFFICES /\ charges'[p] + cc <= n
                 /\ debits'[p] + cd <= n + ioFailures'
                 /\ debits'[p] + refunds'[p] + 2 * cd + cr <= 2 * n + ioFailures'
                 /\ debits'[p] = 0 => refunds'[p] = 0 /\ cr = 0
    BY <2>2, <2>4 DEF Covered, n
  <2>8. CASE p # h.pid
    <3>1. debits'[p] = debits[p] /\ charges'[p] = charges[p] /\ refunds'[p] = refunds[p]
      BY <1>2, <2>3, <2>8 DEF Spends
    <3>2. ioFailures' = ioFailures \/ ioFailures' = ioFailures + 1
      BY <1>2 DEF Spends
    <3> QED
      BY <2>2, <2>3, <2>5, <2>6, <2>8, <3>1, <3>2
  <2>9. CASE p = h.pid
    <3> DEFINE x == debits[p]  y == charges[p]  z == refunds[p]
               u == debits'[p] v == charges'[p] w == refunds'[p]
    <3>1. \/ D \subseteq Duties(h) /\ u = x /\ v = y /\ w = z /\ ioFailures' = ioFailures
          \/ Duties(h) = {"debit", "charge"} /\ D = {"refund", "charge"}
             /\ u = x + 1 /\ v = y /\ w = z /\ ioFailures' = ioFailures
          \/ Duties(h) = {"debit", "charge"} /\ D \subseteq {"debit", "charge"}
             /\ u = x + 1 /\ v = y /\ w = z /\ ioFailures' = ioFailures + 1
          \/ Duties(h) = {"refund", "charge"} /\ D = {}
             /\ u = x /\ v = y + 1 /\ w = z /\ ioFailures' = ioFailures
          \/ Duties(h) = {"refund"} /\ D = {}
             /\ u = x /\ v = y /\ w = z + 1 /\ ioFailures' = ioFailures
          \/ Duties(h) = {"refund"} /\ D = {"refund"}
             /\ u = x /\ v = y /\ w = z + 1 /\ ioFailures' = ioFailures + 1
      BY <1>2, <2>3, <2>9 DEF Spends
    <3>2. x \in Nat /\ y \in Nat /\ z \in Nat
      BY <2>3
    \* The duties as numbers.
    <3> DEFINE hd == IF "debit" \in Duties(h) THEN 1 ELSE 0
               hr == IF "refund" \in Duties(h) THEN 1 ELSE 0
               hc == IF "charge" \in Duties(h) THEN 1 ELSE 0
               dd == IF "debit" \in D THEN 1 ELSE 0
               dr == IF "refund" \in D THEN 1 ELSE 0
               dc == IF "charge" \in D THEN 1 ELSE 0
    <3>3. /\ hd \in 0 .. 1 /\ hr \in 0 .. 1 /\ hc \in 0 .. 1
          /\ dd \in 0 .. 1 /\ dr \in 0 .. 1 /\ dc \in 0 .. 1
          /\ cd = bd + dd - hd /\ cr = br + dr - hr /\ cc = bc + dc - hc
          /\ br >= hr
      BY <2>5, <2>9
    <3>4. /\ D \subseteq Duties(h) => dd <= hd /\ dr <= hr /\ dc <= hc
          /\ Duties(h) = {"debit", "charge"} => hd = 1 /\ hr = 0 /\ hc = 1
          /\ Duties(h) = {"refund", "charge"} => hd = 0 /\ hr = 1 /\ hc = 1
          /\ Duties(h) = {"refund"} => hd = 0 /\ hr = 1 /\ hc = 0
          /\ D = {"refund", "charge"} => dd = 0 /\ dr = 1 /\ dc = 1
          /\ D \subseteq {"debit", "charge"} => dr = 0
          /\ D = {} => dd = 0 /\ dr = 0 /\ dc = 0
          /\ D = {"refund"} => dd = 0 /\ dr = 1 /\ dc = 0
      OBVIOUS
    <3> HIDE DEF hd, hr, hc, dd, dr, dc, x, y, z, u, v, w
    <3>5. /\ v + cc <= n /\ u + cd <= n + ioFailures'
          /\ u + w + 2 * cd + cr <= 2 * n + ioFailures'
          /\ u = 0 => w = 0 /\ cr = 0
      <4>1. /\ y + bc <= n /\ x + bd <= n + ioFailures
            /\ x + z + 2 * bd + br <= 2 * n + ioFailures
            /\ x = 0 => z = 0 /\ br = 0
        BY <2>6 DEF x, y, z
      <4> QED
        BY <2>2, <2>3, <2>5, <3>1, <3>2, <3>3, <3>4, <4>1
    <3> QED
      BY <3>5 DEF u, v, w
  <2> QED
    BY <2>8, <2>9
<1> QED
  BY <1>4, <1>5

\* Publishing puts a delivery on the bus for a request that has none there.
LEMMA PublishOwn ==
  ASSUME TypeInv, OwnDeliveries, NEW r \in Requests, CreatePublish(r), NEW d,
         NEW p \in PaymentIDs
  PROVE  /\ OwnDeliveries' /\ r \notin Bearers(d, p)
         /\ \A q : q \in Bearers(d, p)' <=>
                     IF p = ReqPayment[r] /\ q = r THEN d \in {"debit", "charge"}
                                                   ELSE q \in Bearers(d, p)
<1> DEFINE s == ShardOf[ReqPayment[r]]
           m == [ev |-> "payment.initialized", pid |-> ReqPayment[r],
                 req |-> r, user |-> ReqUser[r],
                 amount |-> ReqAmount[r], attempt |-> 0,
                 reason |-> "none", action |-> "none"]
<1>1. /\ http[r] = "saved" /\ http' = [http EXCEPT ![r] = "published"]
      /\ queue' = [queue EXCEPT ![s] = Append(@, m)]
  BY DEF CreatePublish
<1>2. ReqPayment[r] \in PaymentIDs /\ s \in Shards
  BY WorkflowAssumption
<1>3. m \in Message /\ m.ev = "payment.initialized" /\ m.req = r /\ m.pid = ReqPayment[r]
  <2>1. ReqAmount[r] \in 1 .. MaxInt /\ ReqUser[r] \in Users
    BY <1>1, WorkflowAssumption, WalletStoreAssumption DEF TypeInv, RowsReal, Balances
  <2> QED
    BY <1>2, <2>1 DEF Message, EventNames, Reasons, Actions, MaxAttempts
<1>4. Duties(m) = {"debit", "charge"}
  BY <1>3 DEF Duties
<1>5. queue \in [Shards -> Seq(Message)]
      /\ http \in [Requests -> {"start", "saved", "published", "replied", "refused"}]
  BY DEF TypeInv, TypeOK
<1> HIDE DEF m
<1>6. \A t \in Shards : \A i \in DOMAIN queue[t] :
        queue[t][i] \in Message /\ queue[t][i].req \in Requests /\ queue[t][i].req # r
  BY <1>1, <1>5, ElementFacts DEF OwnDeliveries
<1>7. /\ \A t \in Shards : t # s => queue'[t] = queue[t]
      /\ \A t \in Shards : \A i \in DOMAIN queue'[t] :
           \/ i \in DOMAIN queue[t] /\ queue'[t][i] = queue[t][i]
           \/ t = s /\ i = Len(queue[s]) + 1 /\ queue'[t][i] = m
  BY <1>1, <1>2, <1>3, <1>5, AppendFacts
<1>8. /\ Len(queue[s]) + 1 \in DOMAIN queue'[s] /\ queue'[s][Len(queue[s]) + 1] = m
      /\ \A t \in Shards : \A i \in DOMAIN queue[t] :
           i \in DOMAIN queue'[t] /\ queue'[t][i] = queue[t][i]
  <2>1. queue[s] \in Seq(Message) /\ queue'[s] = Append(queue[s], m)
    BY <1>1, <1>2, <1>5
  <2>2. Len(queue[s]) + 1 \in DOMAIN queue'[s] /\ queue'[s][Len(queue[s]) + 1] = m
    BY <2>1
  <2>3. \A i \in DOMAIN queue[s] : i \in DOMAIN queue'[s] /\ queue'[s][i] = queue[s][i]
    BY <2>1
  <2> QED
    BY <1>7, <2>2, <2>3
<1> HIDE DEF s
<1>9. OwnDeliveries'
  <2>1. ASSUME NEW t \in Shards, NEW i \in DOMAIN queue'[t]
        PROVE  /\ ReqPayment[queue'[t][i].req] = queue'[t][i].pid
               /\ http'[queue'[t][i].req] \in {"published", "replied"}
    BY <1>1, <1>3, <1>5, <1>6, <1>7 DEF OwnDeliveries
  <2>2. ASSUME NEW t \in Shards, NEW u \in Shards,
               NEW i \in DOMAIN queue'[t], NEW j \in DOMAIN queue'[u],
               queue'[t][i].req = queue'[u][j].req
        PROVE  t = u /\ i = j
    <3>1. CASE i \in DOMAIN queue[t] /\ j \in DOMAIN queue[u]
               /\ queue'[t][i] = queue[t][i] /\ queue'[u][j] = queue[u][j]
      BY <2>2, <3>1 DEF OwnDeliveries
    <3>2. CASE i \in DOMAIN queue[t] /\ queue'[t][i] = queue[t][i] /\ queue'[u][j] = m
      BY <1>3, <1>6, <2>2, <3>2
    <3>3. CASE j \in DOMAIN queue[u] /\ queue'[u][j] = queue[u][j] /\ queue'[t][i] = m
      BY <1>3, <1>6, <2>2, <3>3
    <3> QED
      BY <1>7, <3>1, <3>2, <3>3
  <2> QED
    BY <2>1, <2>2 DEF OwnDeliveries
<1>10. \A e \in OnBus : e.req # r
  BY <1>6 DEF OnBus
<1>11. OnBus' = OnBus \union {m}
  <2>1. OnBus' \subseteq OnBus \union {m}
    BY <1>7 DEF OnBus
  <2>2. OnBus \subseteq OnBus'
    BY <1>8 DEF OnBus
  <2>3. m \in OnBus'
    BY <1>2, <1>3, <1>8 DEF OnBus, s
  <2> QED
    BY <2>1, <2>2, <2>3
<1>12. r \notin Bearers(d, p)
  BY <1>10 DEF Bearers
<1>13. \A q : q \in Bearers(d, p)' <=>
                IF p = ReqPayment[r] /\ q = r THEN d \in {"debit", "charge"}
                                              ELSE q \in Bearers(d, p)
  BY <1>3, <1>4, <1>10, <1>11 DEF Bearers
<1> QED
  BY <1>9, <1>12, <1>13

\* No step of a request does more than is covered.
LEMMA RequestsCovered ==
  ASSUME Finite, DutyInv, NEW r \in Requests, Create(r) \/ ClientDisconnect(r)
  PROVE  OwnDeliveries' /\ \A p \in PaymentIDs : Covered(p)'
<1>0. /\ TypeInv /\ OwnDeliveries
      /\ http \in [Requests -> {"start", "saved", "published", "replied", "refused"}]
      /\ debits \in [PaymentIDs -> Nat] /\ charges \in [PaymentIDs -> Nat]
      /\ refunds \in [PaymentIDs -> Nat] /\ ioFailures \in Nat
  BY WalletStoreAssumption DEF DutyInv, TypeInv, TypeOK, WalletTypeOK
<1>1. UNCHANGED <<debits, charges, refunds, ioFailures>>
  BY DEF Create, CreateRefused, CreateInitialize, CreatePublish, CreateReturn, ClientDisconnect,
         historyVars, walletVars
<1>2. CASE CreatePublish(r)
  <2>1. ASSUME NEW p \in PaymentIDs PROVE OwnDeliveries' /\ Covered(p)'
    <3>0. Covered(p)
      BY DEF DutyInv
    <3>1. \A d : OwnDeliveries' /\ r \notin Bearers(d, p)
                 /\ \A q : q \in Bearers(d, p)' <=>
                             IF p = ReqPayment[r] /\ q = r THEN d \in {"debit", "charge"}
                                                           ELSE q \in Bearers(d, p)
      BY <1>0, <1>2, PublishOwn
    <3>2. ASSUME NEW d
          PROVE  /\ Bearing(d, p) \in Nat /\ Bearing(d, p)' \in Nat
                 /\ Bearing(d, p)' <=
                      Bearing(d, p) + IF p = ReqPayment[r] /\ d \in {"debit", "charge"} THEN 1 ELSE 0
      <4>1. PICK B, C : B = Bearers(d, p) /\ C = Bearers(d, p)'
        OBVIOUS
      <4>2. r \notin B /\ IF p = ReqPayment[r] /\ d \in {"debit", "charge"}
                            THEN C = B \union {r} ELSE C = B
        <5>1. r \notin B
              /\ \A q : q \in C <=> IF p = ReqPayment[r] /\ q = r THEN d \in {"debit", "charge"}
                                                                  ELSE q \in B
          BY <3>1, <4>1
        <5>2. CASE p = ReqPayment[r] /\ d \in {"debit", "charge"}
          <6>1. C = B \union {r}
            BY <5>1, <5>2
          <6> QED
            BY <5>1, <5>2, <6>1
        <5>3. CASE ~(p = ReqPayment[r] /\ d \in {"debit", "charge"})
          <6>1. C = B
            BY <5>1, <5>3
          <6> QED
            BY <5>1, <5>3, <6>1
        <5> QED
          BY <5>2, <5>3
      <4>3. IsFiniteSet(B) /\ Bearing(d, p) = Cardinality(B) /\ Bearing(d, p)' = Cardinality(C)
        BY <4>1, CountsAreNat DEF Bearing
      <4>4. /\ Cardinality(B) \in Nat /\ Cardinality(C) \in Nat
            /\ r \notin B /\ r \in C => Cardinality(C) = Cardinality(B) + 1
        BY <4>2, <4>3, CountMove
      <4>5. CASE p = ReqPayment[r] /\ d \in {"debit", "charge"}
        BY <4>2, <4>3, <4>4, <4>5
      <4>6. CASE ~(p = ReqPayment[r] /\ d \in {"debit", "charge"})
        BY <4>2, <4>3, <4>4, <4>6
      <4> QED
        BY <4>5, <4>6
    <3>3. PICK n, k : n = Cardinality(Submissions(p)) /\ k = Cardinality(Submissions(p))'
      OBVIOUS
    <3>4. n \in Nat /\ k \in Nat /\ k = n + IF p = ReqPayment[r] THEN 1 ELSE 0
      <4>1. PICK B, C : B = Submissions(p) /\ C = Submissions(p)'
        OBVIOUS
      <4>2. r \notin B /\ IF p = ReqPayment[r] THEN C = B \union {r} ELSE C = B
        BY <1>0, <1>2, <4>1 DEF Submissions, CreatePublish
      <4>3. IsFiniteSet(B) /\ n = Cardinality(B) /\ k = Cardinality(C)
        BY <3>3, <4>1, CountsAreNat
      <4>4. /\ Cardinality(B) \in Nat /\ Cardinality(C) \in Nat
            /\ r \notin B /\ r \in C => Cardinality(C) = Cardinality(B) + 1
        BY <4>2, <4>3, CountMove
      <4> QED
        BY <4>2, <4>3, <4>4
    <3>5. PICK bd, cd, br, cr, bc, cc :
            /\ bd = Bearing("debit", p)  /\ cd = Bearing("debit", p)'
            /\ br = Bearing("refund", p) /\ cr = Bearing("refund", p)'
            /\ bc = Bearing("charge", p) /\ cc = Bearing("charge", p)'
      OBVIOUS
    <3>6. /\ bd \in Nat /\ br \in Nat /\ bc \in Nat /\ cd \in Nat /\ cr \in Nat /\ cc \in Nat
          /\ cd <= bd + IF p = ReqPayment[r] THEN 1 ELSE 0
          /\ cc <= bc + IF p = ReqPayment[r] THEN 1 ELSE 0
          /\ cr <= br
      BY <3>2, <3>5
    <3>7. /\ charges[p] + bc <= n
          /\ debits[p] + bd <= n + ioFailures
          /\ debits[p] + refunds[p] + 2 * bd + br <= 2 * n + ioFailures
          /\ debits[p] = 0 => refunds[p] = 0 /\ br = 0
      BY <3>0, <3>3, <3>5 DEF Covered
    <3>8. /\ charges[p] + cc <= k
          /\ debits[p] + cd <= k + ioFailures
          /\ debits[p] + refunds[p] + 2 * cd + cr <= 2 * k + ioFailures
          /\ debits[p] = 0 => refunds[p] = 0 /\ cr = 0
      BY <1>0, <3>4, <3>6, <3>7
    <3>9. Covered(p)'
      BY <1>1, <3>3, <3>5, <3>8 DEF Covered
    <3> QED
      BY <3>1, <3>9
  <2>2. ReqPayment[r] \in PaymentIDs
    BY WorkflowAssumption
  <2> QED
    BY <2>1, <2>2
<1>3. CASE ~CreatePublish(r)
  <2>1. queue' = queue
    BY <1>3 DEF Create, CreateRefused, CreateInitialize, CreateReturn, ClientDisconnect
  <2>2. \A q \in Requests : http[q] \in {"published", "replied"} <=> http'[q] \in {"published", "replied"}
    BY <1>0, <1>3 DEF Create, CreateRefused, CreateInitialize, CreateReturn, ClientDisconnect
  <2>3. OwnDeliveries'
    <3>1. \A t \in Shards : \A i \in DOMAIN queue[t] : queue[t][i].req \in Requests
      BY <1>0, ElementFacts DEF TypeInv, TypeOK
    <3> QED
      BY <1>0, <2>1, <2>2, <3>1 DEF OwnDeliveries
  <2>4. ASSUME NEW p \in PaymentIDs PROVE Covered(p)'
    <3>1. Covered(p)
      BY DEF DutyInv
    <3>2. Submissions(p)' = Submissions(p)
      BY <2>2 DEF Submissions
    <3>3. \A d : Bearing(d, p)' = Bearing(d, p)
      BY <2>1 DEF Bearing, Bearers, OnBus
    <3> QED
      BY <1>1, <3>1, <3>2, <3>3 DEF Covered
  <2> QED
    BY <2>3, <2>4
<1> QED
  BY <1>2, <1>3

\* Before anything has happened, nothing is done and nothing is to be done.
LEMMA InitCovered == Finite /\ Init => DutyInv
<1> SUFFICES ASSUME Finite, Init PROVE DutyInv
  OBVIOUS
<1>1. TypeInv
  BY InitType
<1>2. \A s \in Shards : queue[s] = <<>>
  BY DEF Init
<1>3. OwnDeliveries /\ OnBus = {}
  BY <1>2 DEF OwnDeliveries, OnBus
<1>4. ASSUME NEW p \in PaymentIDs PROVE Covered(p)
  <2>1. Bearing("debit", p) = 0 /\ Bearing("refund", p) = 0 /\ Bearing("charge", p) = 0
    <3>1. \A d : Bearers(d, p) = {}
      BY <1>3 DEF Bearers
    <3> QED
      BY <3>1, FS_EmptySet DEF Bearing
  <2>2. debits[p] = 0 /\ charges[p] = 0 /\ refunds[p] = 0 /\ ioFailures = 0
    BY DEF Init, WalletInit
  <2>3. Cardinality(Submissions(p)) \in Nat
    BY CountsAreNat
  <2> QED
    BY <2>1, <2>2, <2>3 DEF Covered
<1> QED
  BY <1>1, <1>3, <1>4 DEF DutyInv

\* What is done to the money of a payment, together with what is still to be
\* done, is always covered by the submissions and the failed writes.
LEMMA AlwaysCovered == ASSUME Finite PROVE Spec => []DutyInv
<1>1. Init => DutyInv
  BY InitCovered
<1>2. DutyInv /\ [Next]_vars => DutyInv'
  <2> SUFFICES ASSUME DutyInv, [Next]_vars PROVE DutyInv'
    OBVIOUS
  <2>1. TypeInv'
    BY NextType DEF DutyInv
  <2>2. CASE \E r \in Requests : Create(r) \/ ClientDisconnect(r)
    BY <2>1, <2>2, RequestsCovered DEF DutyInv
  <2>3. CASE \E s \in Shards : Worker(s)
    BY <2>1, <2>3, WorkersCovered DEF DutyInv
  <2>4. CASE UNCHANGED vars
    <3>1. UNCHANGED <<queue, http, debits, charges, refunds, ioFailures>>
      BY <2>4 DEF vars, historyVars, walletVars
    <3>2. OwnDeliveries'
      BY <3>1 DEF OwnDeliveries, DutyInv
    <3>3. ASSUME NEW p \in PaymentIDs PROVE Covered(p)'
      <4>1. Covered(p)
        BY DEF DutyInv
      <4>2. Submissions(p)' = Submissions(p)
        BY <3>1 DEF Submissions
      <4>3. \A d : Bearing(d, p)' = Bearing(d, p)
        BY <3>1 DEF Bearing, Bearers, OnBus
      <4> QED
        BY <3>1, <4>1, <4>2, <4>3 DEF Covered
    <3> QED
      BY <2>1, <3>2, <3>3 DEF DutyInv
  <2> QED
    BY <2>2, <2>3, <2>4 DEF Next
<1> QED
  BY <1>1, <1>2, PTL DEF Spec

\* However often payment ids are reused, writes fail and deliveries are
\* repeated, the gateway accepts no more charges for a payment than POST
\* /payments accepted requests for it.
THEOREM ChargesBounded == ASSUME Finite PROVE Spec => []ChargedOncePerSubmission
<1>1. DutyInv => ChargedOncePerSubmission
  <2> SUFFICES ASSUME DutyInv, NEW p \in PaymentIDs
      PROVE  charges[p] <= Cardinality(Submissions(p))
    BY DEF ChargedOncePerSubmission
  <2>1. charges[p] + Bearing("charge", p) <= Cardinality(Submissions(p))
    BY DEF DutyInv, Covered
  <2>2. charges[p] \in Nat
    BY DEF DutyInv, TypeInv, TypeOK
  <2>3. Bearing("charge", p) \in Nat /\ Cardinality(Submissions(p)) \in Nat
    BY CountsAreNat
  <2> QED
    BY <2>1, <2>2, <2>3
<1> QED
  BY <1>1, AlwaysCovered, PTL

\* And each failed write costs at most one debit or one refund too many.
THEOREM DamageAlwaysBounded == ASSUME Finite PROVE Spec => []DamageBounded
<1>1. DutyInv => DamageBounded
  <2> SUFFICES ASSUME DutyInv, NEW p \in PaymentIDs
      PROVE  /\ debits[p] + refunds[p] <= 2 * Cardinality(Submissions(p)) + ioFailures
             /\ debits[p] <= Cardinality(Submissions(p)) + ioFailures
             /\ debits[p] = 0 => refunds[p] = 0
    BY DEF DamageBounded
  <2>1. Covered(p) /\ debits[p] \in Nat /\ refunds[p] \in Nat /\ ioFailures \in Nat
    BY WalletStoreAssumption DEF DutyInv, TypeInv, TypeOK, WalletTypeOK
  <2>2. /\ Bearing("debit", p) \in Nat /\ Bearing("refund", p) \in Nat
        /\ Cardinality(Submissions(p)) \in Nat
    BY CountsAreNat
  <2> QED
    BY <2>1, <2>2 DEF Covered
<1> QED
  BY <1>1, AlwaysCovered, PTL

-----------------------------------------------------------------------------
(* No row is stranded. *)

Driven(p) ==
  \/ payments[p].status = "none"
  \/ Settled(p)
  \/ payments[p].status = "initialized"
     /\ \E r \in Requests : ReqPayment[r] = p /\ http[r] = "saved"
  \/ \E s \in Shards : \E i \in DOMAIN queue[s] : Drives(s, i, p)

\* The status at which a message finds its payment.
LEMMA StatusAt ==
  ASSUME NEW m, NEW at
  PROVE  /\ m.ev \in {"payment.initialized", "wallet.debit_requested", "wallet.debit_rejected"} =>
              Expected(m, at)[1] = "initialized"
         /\ m.ev = "wallet.debited" =>
              Expected(m, at)[1] = IF at = "next" THEN "pending" ELSE "initialized"
         /\ m.ev \in {"payment.charge_requested", "payment.charge_succeeded"} =>
              Expected(m, at)[1] = "pending"
         /\ m.ev = "payment.charge_failed" =>
              Expected(m, at)[1] = IF at = "next" THEN "failed" ELSE "pending"
         /\ m.ev = "wallet.refund_requested" => Expected(m, at)[1] = "failed"
         /\ m.ev = "recovery.requested" =>
              Expected(m, at)[1] = IF m.action = "payment.charge" THEN "pending" ELSE "initialized"
<1>1. m.ev \in {"payment.initialized", "wallet.debit_requested", "wallet.debit_rejected"} =>
        Expected(m, at)[1] = "initialized"
  BY DEF Expected
<1>2. m.ev = "wallet.debited" => Expected(m, at)[1] = IF at = "next" THEN "pending" ELSE "initialized"
  BY DEF Expected
<1>3. m.ev \in {"payment.charge_requested", "payment.charge_succeeded"} => Expected(m, at)[1] = "pending"
  BY DEF Expected
<1>4. m.ev = "payment.charge_failed" => Expected(m, at)[1] = IF at = "next" THEN "failed" ELSE "pending"
  BY DEF Expected
<1>5. m.ev = "wallet.refund_requested" => Expected(m, at)[1] = "failed"
  BY DEF Expected
<1>6. m.ev = "recovery.requested" =>
        Expected(m, at)[1] = IF m.action = "payment.charge" THEN "pending" ELSE "initialized"
  BY DEF Expected
<1> QED
  BY <1>1, <1>2, <1>3, <1>4, <1>5, <1>6

\* A handler that is not at its second half finds its payment as from the start.
LEMMA StatusFromStart ==
  ASSUME NEW m, m.ev \in EventNames, NEW at, at # "next"
  PROVE  Expected(m, at)[1] = Expected(m, "run")[1]
  BY StatusAt DEF EventNames

\* What a worker does to the deliveries: it stays at its own, replaces it, or drops it.
Stays(s) == queue' = queue /\ \A t \in Shards : t # s => wpc'[t] = wpc[t]

HandsOn(s, m) == m \in Message /\ PublishAndReturn(s, m)

\* Deliveries but the one that s is at stay what they are.
LEMMA OthersDrive ==
  ASSUME TypeInv, NEW s \in Shards, queue[s] # <<>>, NEW p \in PaymentIDs,
         payments'[p] = payments[p],
         Stays(s) \/ Return(s) \/ \E m : HandsOn(s, m),
         NEW t \in Shards, NEW i \in DOMAIN queue[t], t # s \/ i # 1, Drives(t, i, p)
  PROVE  \E j \in DOMAIN queue'[t] : Drives(t, j, p)'
<1>1. queue \in [Shards -> Seq(Message)] /\ wpc \in [Shards -> {"run", "mark", "next", "refund"}]
  BY DEF TypeInv, TypeOK
<1>2. PICK q \in Seq(Message) : q = queue[t]
  BY <1>1
<1>3. i \in Nat /\ i >= 1 /\ i <= Len(q)
  BY <1>2
<1>4. CASE Stays(s)
  <2>1. queue'[t] = q /\ Place(t, i)' = Place(t, i)
    BY <1>2, <1>4 DEF Stays, Place
  <2> QED
    BY <1>2, <2>1 DEF Drives
<1>5. CASE t # s /\ (Return(s) \/ \E m : HandsOn(s, m))
  <2>1. queue'[t] = q /\ wpc'[t] = wpc[t]
    BY <1>1, <1>2, <1>5 DEF Return, HandsOn, PublishAndReturn, Finish
  <2>2. Place(t, i)' = Place(t, i)
    BY <2>1 DEF Place
  <2> QED
    BY <1>2, <2>1, <2>2 DEF Drives
<1>6. CASE t = s /\ (Return(s) \/ \E m : HandsOn(s, m))
  <2>1. i # 1 /\ Place(t, i) = "run"
    BY <1>6 DEF Place
  <2>2. wpc'[s] = "run"
    BY <1>1, <1>6 DEF Return, HandsOn, PublishAndReturn, Finish
  <2>3. queue'[t] = Tail(q) \/ \E m \in Message : queue'[t] = Append(Tail(q), m)
    BY <1>1, <1>2, <1>6 DEF Return, HandsOn, PublishAndReturn
  <2>4. i - 1 \in DOMAIN queue'[t] /\ queue'[t][i - 1] = q[i]
    <3>1. q # <<>> /\ i - 1 >= 1 /\ i <= Len(q)
      BY <1>3, <2>1
    <3>2. CASE queue'[t] = Tail(q)
      BY <1>3, <3>1, <3>2
    <3>3. ASSUME NEW m \in Message, queue'[t] = Append(Tail(q), m)
          PROVE  i - 1 \in DOMAIN queue'[t] /\ queue'[t][i - 1] = q[i]
      BY <1>3, <3>1, <3>3
    <3> QED
      BY <2>3, <3>2, <3>3
  <2>5. Place(t, i - 1)' = "run"
    BY <1>6, <2>2 DEF Place
  <2>6. Drives(t, i - 1, p)'
    BY <1>2, <2>1, <2>4, <2>5 DEF Drives
  <2> QED
    BY <2>4, <2>6
<1> QED
  BY <1>4, <1>5, <1>6

\* A handler passes its payment on to a message of the same status.
PassesOn(s) ==
  LET h == Head(queue[s]) IN
  \E m \in Message :
    /\ m.pid = h.pid /\ Expected(m, "run")[1] = Expected(h, wpc[s])[1]
    /\ HandsOn(s, m)
    /\ UNCHANGED <<payments, refunds, http>>

LEMMA HeadDrives ==
  ASSUME TypeInv, NEW s \in Shards, queue[s] # <<>>, NEW p \in PaymentIDs, Drives(s, 1, p),
         PassesOn(s)
  PROVE  \E j \in DOMAIN queue'[s] : Drives(s, j, p)'
<1>1. PICK q \in Seq(Message) : q = queue[s] /\ q # <<>>
  BY DEF TypeInv, TypeOK
<1>2. PICK m \in Message : /\ m.pid = Head(q).pid
                           /\ Expected(m, "run")[1] = Expected(Head(q), wpc[s])[1]
                           /\ HandsOn(s, m) /\ payments' = payments
  BY <1>1 DEF PassesOn
<1>3. queue'[s] = Append(Tail(q), m) /\ wpc'[s] = "run"
  BY <1>1, <1>2 DEF HandsOn, PublishAndReturn, Finish, TypeInv, TypeOK
<1>4. PICK j : j = Len(q)
  OBVIOUS
<1>5. j \in DOMAIN queue'[s] /\ queue'[s][j] = m
  BY <1>1, <1>3, <1>4
<1>6. Head(q) = q[1]
  BY <1>1
<1>7. m.pid = p /\ payments[p].status = Expected(m, "run")[1]
  BY <1>1, <1>2, <1>6 DEF Drives, Place
<1>8. Place(s, j)' = "run"
  BY <1>3 DEF Place
<1> QED
  BY <1>2, <1>5, <1>7, <1>8 DEF Drives

\* The handlers that publish and return pass their payment on.
LEMMA HandlersPassOn ==
  ASSUME TypeInv, NEW s \in Shards, queue[s] # <<>>
  PROVE  /\ HandlePaymentInitialized(s) => PassesOn(s)
         /\ HandleWalletDebitRequested(s) => PassesOn(s)
         /\ RequestCharge(s) => PassesOn(s)
         /\ RequestRefund(s) => PassesOn(s)
         /\ RecoveryResumes(s) => PassesOn(s)
         /\ ChargeSucceeds(s) => PassesOn(s)
         /\ \A outcome \in Reasons :
              ChargeExhausted(s, outcome) \/ ChargeFails(s, outcome) => PassesOn(s)
<1> DEFINE h == Head(queue[s])
<1>2. /\ h \in Message /\ RealRow(payments[h.pid])
      /\ h.ev = "recovery.requested" => h.attempt \in 1 .. MaxAttempts
  BY HeadFacts
<1>3. /\ 0 \in 0 .. MaxAttempts + 1 /\ 1 \in 0 .. MaxAttempts + 1
      /\ "none" \in Reasons /\ "insufficient" \in Reasons /\ "db_internal" \in Reasons
      /\ "none" \in Actions /\ "wallet.debit" \in Actions /\ "payment.charge" \in Actions
      /\ "wallet.debit_requested" \in EventNames /\ "wallet.debited" \in EventNames
      /\ "wallet.debit_rejected" \in EventNames /\ "recovery.requested" \in EventNames
      /\ "payment.charge_requested" \in EventNames /\ "wallet.refund_requested" \in EventNames
      /\ "payment.charge_succeeded" \in EventNames /\ "payment.charge_failed" \in EventNames
  BY DEF MaxAttempts, Reasons, Actions, EventNames
<1>4. ASSUME NEW m, NEW ev, Derived(m, ev, h), PublishAndReturn(s, m),
             payments' = payments, refunds' = refunds, http' = http,
             Expected(m, "run")[1] = Expected(h, wpc[s])[1]
      PROVE  PassesOn(s)
  BY <1>4 DEF PassesOn, HandsOn, Derived
<1> HIDE DEF h
<1>5. ASSUME HandlePaymentInitialized(s) PROVE PassesOn(s)
  <2> DEFINE m == [Follow(h, "wallet.debit_requested") EXCEPT !.attempt = 1]
  <2>1. /\ PublishAndReturn(s, m) /\ h.ev = "payment.initialized"
        /\ payments' = payments /\ refunds' = refunds /\ http' = http
    BY <1>5 DEF HandlePaymentInitialized, At, historyVars, h
  <2>2. Derived(m, "wallet.debit_requested", h)
    BY <1>2, <1>3, FollowFacts
  <2> HIDE DEF m
  <2>3. Expected(m, "run")[1] = Expected(h, wpc[s])[1]
    BY <2>1, <2>2, StatusAt DEF Derived
  <2> QED
    BY <1>4, <2>1, <2>2, <2>3
<1>6. ASSUME DebitRefused(s) PROVE PassesOn(s)
  <2> DEFINE m == [Follow(h, "wallet.debit_rejected") EXCEPT !.reason = "insufficient"]
  <2>1. /\ PublishAndReturn(s, m) /\ h.ev = "wallet.debit_requested"
        /\ payments' = payments /\ refunds' = refunds /\ http' = http
    BY <1>6 DEF DebitRefused, At, historyVars, h
  <2>2. Derived(m, "wallet.debit_rejected", h)
    BY <1>2, <1>3, FollowFacts
  <2> HIDE DEF m
  <2>3. Expected(m, "run")[1] = Expected(h, wpc[s])[1]
    BY <2>1, <2>2, StatusAt DEF Derived
  <2> QED
    BY <1>4, <2>1, <2>2, <2>3
<1>7. ASSUME DebitApplied(s, TRUE) PROVE PassesOn(s)
  <2> DEFINE m == Follow(h, "wallet.debited")
  <2>1. /\ PublishAndReturn(s, m) /\ h.ev = "wallet.debit_requested"
        /\ payments' = payments /\ refunds' = refunds /\ http' = http
    BY <1>7 DEF DebitApplied, At, h
  <2>2. Derived(m, "wallet.debited", h)
    BY <1>2, <1>3, FollowFacts
  <2> HIDE DEF m
  <2>3. Expected(m, "run")[1] = Expected(h, wpc[s])[1]
    BY <2>1, <2>2, StatusAt DEF Derived
  <2> QED
    BY <1>4, <2>1, <2>2, <2>3
<1>8. ASSUME DebitApplied(s, FALSE), Head(queue[s]).attempt = 1 PROVE PassesOn(s)
  <2> DEFINE m == [Follow(h, "recovery.requested")
                     EXCEPT !.reason = "db_internal", !.action = "wallet.debit", !.attempt = 1]
  <2>1. /\ PublishAndReturn(s, m) /\ h.ev = "wallet.debit_requested"
        /\ payments' = payments /\ refunds' = refunds /\ http' = http
    BY <1>8 DEF DebitApplied, At, DebitFailureEvent, h
  <2>2. Derived(m, "recovery.requested", h)
    BY <1>2, <1>3, FollowFacts
  <2>3. m.action = "wallet.debit"
    BY <1>2 DEF Follow, Message
  <2> HIDE DEF m
  <2>4. Expected(m, "run")[1] = Expected(h, wpc[s])[1]
    BY <2>1, <2>2, <2>3, StatusAt DEF Derived
  <2> QED
    BY <1>4, <2>1, <2>2, <2>4
<1>9. ASSUME DebitApplied(s, FALSE), Head(queue[s]).attempt # 1 PROVE PassesOn(s)
  <2> DEFINE m == [Follow(h, "wallet.debit_rejected") EXCEPT !.reason = "db_internal"]
  <2>1. /\ PublishAndReturn(s, m) /\ h.ev = "wallet.debit_requested"
        /\ payments' = payments /\ refunds' = refunds /\ http' = http
    BY <1>9 DEF DebitApplied, At, DebitFailureEvent, h
  <2>2. Derived(m, "wallet.debit_rejected", h)
    BY <1>2, <1>3, FollowFacts
  <2> HIDE DEF m
  <2>3. Expected(m, "run")[1] = Expected(h, wpc[s])[1]
    BY <2>1, <2>2, StatusAt DEF Derived
  <2> QED
    BY <1>4, <2>1, <2>2, <2>3
<1>10. ASSUME RequestCharge(s) PROVE PassesOn(s)
  <2> DEFINE m == FromTable(h, "payment.charge_requested", 1)
  <2>1. /\ PublishAndReturn(s, m) /\ h.ev = "wallet.debited" /\ wpc[s] = "next"
        /\ payments' = payments /\ refunds' = refunds /\ http' = http
    BY <1>10 DEF RequestCharge, At, historyVars, h
  <2>2. Derived(m, "payment.charge_requested", h)
    BY <1>2, <1>3, FromTableFacts
  <2> HIDE DEF m
  <2>3. Expected(m, "run")[1] = Expected(h, wpc[s])[1]
    BY <2>1, <2>2, StatusAt DEF Derived
  <2> QED
    BY <1>4, <2>1, <2>2, <2>3
<1>11. ASSUME RequestRefund(s) PROVE PassesOn(s)
  <2> DEFINE m == FromTable(h, "wallet.refund_requested", 0)
  <2>1. /\ PublishAndReturn(s, m) /\ h.ev = "payment.charge_failed" /\ wpc[s] = "next"
        /\ payments' = payments /\ refunds' = refunds /\ http' = http
    BY <1>11 DEF RequestRefund, At, historyVars, h
  <2>2. Derived(m, "wallet.refund_requested", h)
    BY <1>2, <1>3, FromTableFacts
  <2> HIDE DEF m
  <2>3. Expected(m, "run")[1] = Expected(h, wpc[s])[1]
    BY <2>1, <2>2, StatusAt DEF Derived
  <2> QED
    BY <1>4, <2>1, <2>2, <2>3
<1>12. ASSUME RecoveryResumes(s) PROVE PassesOn(s)
  <2> DEFINE ev == IF h.action = "payment.charge" THEN "payment.charge_requested"
                                                  ELSE "wallet.debit_requested"
             m == FromTable(h, ev, h.attempt + 1)
  <2>1. /\ PublishAndReturn(s, m) /\ h.ev = "recovery.requested"
        /\ payments' = payments /\ refunds' = refunds /\ http' = http
    BY <1>12 DEF RecoveryResumes, RecoveredEvent, At, historyVars, h
  <2>2. ev \in EventNames /\ h.attempt + 1 \in 0 .. MaxAttempts + 1
    BY <1>2, <1>3, <2>1 DEF MaxAttempts
  <2>3. /\ h.action = "payment.charge" => ev = "payment.charge_requested"
        /\ h.action # "payment.charge" => ev = "wallet.debit_requested"
    OBVIOUS
  <2> HIDE DEF ev
  <2>4. Derived(m, ev, h)
    BY <1>2, <2>2, FromTableFacts
  <2> HIDE DEF m
  <2>5. Expected(m, "run")[1] = Expected(h, wpc[s])[1]
    BY <2>1, <2>3, <2>4, StatusAt DEF Derived
  <2> QED
    BY <1>4, <2>1, <2>4, <2>5
<1>13. ASSUME ChargeSucceeds(s) PROVE PassesOn(s)
  <2> DEFINE m == Follow(h, "payment.charge_succeeded")
  <2>1. /\ PublishAndReturn(s, m) /\ h.ev = "payment.charge_requested"
        /\ payments' = payments /\ refunds' = refunds /\ http' = http
    BY <1>13 DEF ChargeSucceeds, Charge, At, h
  <2>2. Derived(m, "payment.charge_succeeded", h)
    BY <1>2, <1>3, FollowFacts
  <2> HIDE DEF m
  <2>3. Expected(m, "run")[1] = Expected(h, wpc[s])[1]
    BY <2>1, <2>2, StatusAt DEF Derived
  <2> QED
    BY <1>4, <2>1, <2>2, <2>3
<1>14. ASSUME NEW outcome \in Reasons, ChargeExhausted(s, outcome) PROVE PassesOn(s)
  <2> DEFINE m == [Follow(h, "recovery.requested")
                     EXCEPT !.reason = outcome, !.action = "payment.charge", !.attempt = Attempt(s)]
  <2>1. /\ PublishAndReturn(s, m) /\ h.ev = "payment.charge_requested"
        /\ payments' = payments /\ refunds' = refunds /\ http' = http
    <3>1. PublishAndReturn(s, m)
      BY <1>14 DEF ChargeExhausted, h
    <3>2. Charge(s, outcome)
      BY <1>14 DEF ChargeExhausted
    <3> QED
      BY <1>14, <3>1, <3>2 DEF Charge, At, h
  <2>2. Attempt(s) \in 0 .. MaxAttempts + 1
    <3>1. Attempt(s) = MaxAttempts
      BY <1>14 DEF ChargeExhausted
    <3> QED
      BY <3>1 DEF MaxAttempts
  <2>3. Derived(m, "recovery.requested", h)
    BY <1>2, <1>3, <2>2, FollowFacts
  <2>4. m.action = "payment.charge"
    BY <1>2 DEF Follow, Message
  <2> HIDE DEF m
  <2>5. Expected(m, "run")[1] = Expected(h, wpc[s])[1]
    BY <2>1, <2>3, <2>4, StatusAt DEF Derived
  <2> QED
    BY <1>4, <2>1, <2>3, <2>5
<1>15. ASSUME NEW outcome \in Reasons, ChargeFails(s, outcome) PROVE PassesOn(s)
  <2> DEFINE m == [Follow(h, "payment.charge_failed") EXCEPT !.reason = outcome]
  <2>1. /\ PublishAndReturn(s, m) /\ h.ev = "payment.charge_requested"
        /\ payments' = payments /\ refunds' = refunds /\ http' = http
    BY <1>15 DEF ChargeFails, Charge, At, h
  <2>2. Derived(m, "payment.charge_failed", h)
    BY <1>2, <1>3, FollowFacts
  <2> HIDE DEF m
  <2>3. Expected(m, "run")[1] = Expected(h, wpc[s])[1]
    BY <2>1, <2>2, StatusAt DEF Derived
  <2> QED
    BY <1>4, <2>1, <2>2, <2>3
<1> QED
  <2>1. ASSUME NEW ok \in BOOLEAN, DebitApplied(s, ok) PROVE PassesOn(s)
    <3>1. CASE ok = TRUE
      BY <1>7, <2>1, <3>1
    <3>2. CASE ok = FALSE
      <4>1. DebitApplied(s, FALSE)
        BY <2>1, <3>2
      <4> QED
        BY <1>8, <1>9, <4>1
    <3> QED
      BY <3>1, <3>2
  <2> QED
    BY <1>5, <1>6, <1>10, <1>11, <1>12, <1>13, <1>14, <1>15, <2>1
       DEF HandleWalletDebitRequested

\* The worker stays at its delivery, whose payment keeps the status at which the
\* delivery finds it, or gets the one at which the rest of the handler will.
GoesOn(s) ==
  LET h == Head(queue[s]) IN
  /\ Stays(s)
  /\ \/ payments' = payments /\ Expected(h, wpc'[s])[1] = Expected(h, wpc[s])[1]
     \/ payments'[h.pid].status = Expected(h, wpc'[s])[1]

\* The delivery was the last one its payment needed.
Concludes(s) ==
  LET h == Head(queue[s]) IN
  /\ Return(s)
  /\ \/ Done(NewRecord(h.pid))
     \/ /\ payments' = payments /\ refunds'[h.pid] > 0
        /\ Expected(h, wpc[s])[1] = "failed"

\* Apart from the payment of its delivery, a worker settles and unsettles nothing.
OthersRest(s) ==
  /\ http' = http
  /\ \A p \in PaymentIDs : refunds[p] > 0 => refunds'[p] > 0
  /\ \A p \in PaymentIDs : p # Head(queue[s]).pid => payments'[p] = payments[p]

\* The steps of a handler between its first and its last.
LEMMA WaitingDrives ==
  ASSUME TypeInv, NEW s \in Shards, queue[s] # <<>>
  PROVE  /\ MarkGet(s) \/ RefundRead(s) \/ RecoveryInterrupted(s) \/ RefundWrite(s, FALSE) =>
              GoesOn(s) /\ OthersRest(s)
         /\ \A outcome \in Reasons : ChargeRetries(s, outcome) => GoesOn(s) /\ OthersRest(s)
<1> DEFINE h == Head(queue[s])
<1>1. /\ h \in Message /\ h.ev \in EventNames /\ h.pid \in PaymentIDs
      /\ wpc \in [Shards -> {"run", "mark", "next", "refund"}]
      /\ refunds \in [PaymentIDs -> Nat]
  BY HeadFacts DEF Message, TypeInv, TypeOK
<1>2. ASSUME queue' = queue, payments' = payments, http' = http, refunds' = refunds,
             wpc[s] # "next", wpc'[s] # "next", \A t \in Shards : t # s => wpc'[t] = wpc[t]
      PROVE  GoesOn(s) /\ OthersRest(s)
  <2>1. Expected(h, wpc'[s])[1] = Expected(h, wpc[s])[1]
    BY <1>1, <1>2, StatusFromStart
  <2> QED
    BY <1>2, <2>1 DEF GoesOn, OthersRest, Stays
<1>3. ASSUME MarkGet(s) PROVE GoesOn(s) /\ OthersRest(s)
  BY <1>1, <1>2, <1>3 DEF MarkGet, At, Goto, historyVars
<1>4. ASSUME RefundRead(s) PROVE GoesOn(s) /\ OthersRest(s)
  BY <1>1, <1>2, <1>4 DEF RefundRead, At, Goto, historyVars
<1>5. ASSUME RecoveryInterrupted(s) PROVE GoesOn(s) /\ OthersRest(s)
  BY <1>1, <1>2, <1>5 DEF RecoveryInterrupted, ReturnError, At, historyVars
<1>6. ASSUME RefundWrite(s, FALSE) PROVE GoesOn(s) /\ OthersRest(s)
  <2>1. /\ queue' = queue /\ payments' = payments /\ http' = http
        /\ wpc[s] = "refund" /\ wpc' = [wpc EXCEPT ![s] = "run"]
        /\ refunds' = [refunds EXCEPT ![h.pid] = @ + 1]
    BY <1>6 DEF RefundWrite, ReturnError, At
  <2>2. wpc'[s] = "run" /\ \A t \in Shards : t # s => wpc'[t] = wpc[t]
    BY <1>1, <2>1
  <2>3. Expected(h, wpc'[s])[1] = Expected(h, wpc[s])[1]
    BY <1>1, <2>1, <2>2, StatusFromStart
  <2>4. \A p \in PaymentIDs : refunds[p] > 0 => refunds'[p] > 0
    BY <1>1, <2>1
  <2> QED
    BY <2>1, <2>2, <2>3, <2>4 DEF GoesOn, OthersRest, Stays
<1>7. ASSUME NEW outcome \in Reasons, ChargeRetries(s, outcome)
      PROVE  GoesOn(s) /\ OthersRest(s)
  BY <1>1, <1>2, <1>7 DEF ChargeRetries, Charge, At
<1> QED
  BY <1>3, <1>4, <1>5, <1>6, <1>7

\* The steps that write the row, and the refund.
LEMMA SavingDrives ==
  ASSUME TypeInv, NEW s \in Shards, queue[s] # <<>>
  PROVE  /\ MarkPending(s) \/ MarkFailed(s) => GoesOn(s) /\ OthersRest(s)
         /\ MarkRejected(s) \/ MarkSucceeded(s) \/ RefundWrite(s, TRUE) =>
              Concludes(s) /\ OthersRest(s)
<1> DEFINE h == Head(queue[s])
<1>1. /\ h \in Message /\ h.pid \in PaymentIDs
      /\ wpc \in [Shards -> {"run", "mark", "next", "refund"}]
      /\ refunds \in [PaymentIDs -> Nat]
      /\ payments \in [PaymentIDs -> Payment] /\ loaded[s] \in Payment
  BY HeadFacts DEF TypeInv, TypeOK
<1>2. ASSUME NEW status, NEW reason, Save(s, status, reason)
      PROVE  /\ payments'[h.pid].status = status
             /\ \A p \in PaymentIDs : p # h.pid => payments'[p] = payments[p]
  BY <1>1, <1>2 DEF Save, Payment
<1>3. ASSUME MarkPending(s) PROVE GoesOn(s) /\ OthersRest(s)
  <2>1. /\ Save(s, "pending", loaded[s].reason) /\ queue' = queue
        /\ wpc' = [wpc EXCEPT ![s] = "next"] /\ http' = http /\ refunds' = refunds
        /\ h.ev = "wallet.debited"
    BY <1>3 DEF MarkPending, Goto, At, historyVars
  <2>2. wpc'[s] = "next" /\ \A t \in Shards : t # s => wpc'[t] = wpc[t]
    BY <1>1, <2>1
  <2>3. payments'[h.pid].status = Expected(h, wpc'[s])[1]
    BY <1>2, <2>1, <2>2, StatusAt
  <2> QED
    BY <1>2, <2>1, <2>2, <2>3 DEF GoesOn, OthersRest, Stays
<1>4. ASSUME MarkFailed(s) PROVE GoesOn(s) /\ OthersRest(s)
  <2>1. /\ Save(s, "failed", h.reason) /\ queue' = queue
        /\ wpc' = [wpc EXCEPT ![s] = "next"] /\ http' = http /\ refunds' = refunds
        /\ h.ev = "payment.charge_failed"
    BY <1>4 DEF MarkFailed, Goto, At, historyVars
  <2>2. wpc'[s] = "next" /\ \A t \in Shards : t # s => wpc'[t] = wpc[t]
    BY <1>1, <2>1
  <2>3. payments'[h.pid].status = Expected(h, wpc'[s])[1]
    BY <1>2, <2>1, <2>2, StatusAt
  <2> QED
    BY <1>2, <2>1, <2>2, <2>3 DEF GoesOn, OthersRest, Stays
<1>5. ASSUME MarkRejected(s) PROVE Concludes(s) /\ OthersRest(s)
  <2>1. Save(s, "rejected", h.reason) /\ Return(s) /\ http' = http /\ refunds' = refunds
    BY <1>5 DEF MarkRejected, historyVars
  <2> QED
    BY <1>2, <2>1 DEF Concludes, OthersRest, Done, NewRecord
<1>6. ASSUME MarkSucceeded(s) PROVE Concludes(s) /\ OthersRest(s)
  <2>1. Save(s, "succeeded", loaded[s].reason) /\ Return(s) /\ http' = http /\ refunds' = refunds
    BY <1>6 DEF MarkSucceeded, historyVars
  <2> QED
    BY <1>2, <2>1 DEF Concludes, OthersRest, Done, NewRecord
<1>7. ASSUME RefundWrite(s, TRUE) PROVE Concludes(s) /\ OthersRest(s)
  <2>1. /\ Return(s) /\ payments' = payments /\ http' = http /\ h.ev = "wallet.refund_requested"
        /\ refunds' = [refunds EXCEPT ![h.pid] = @ + 1]
    BY <1>7 DEF RefundWrite, At
  <2>2. refunds'[h.pid] > 0 /\ \A p \in PaymentIDs : refunds[p] > 0 => refunds'[p] > 0
    BY <1>1, <2>1
  <2>3. Expected(h, wpc[s])[1] = "failed"
    BY <2>1, StatusAt
  <2> QED
    BY <2>1, <2>2, <2>3 DEF Concludes, OthersRest
<1> QED
  BY <1>3, <1>4, <1>5, <1>6, <1>7

LEMMA WorkerCases ==
  ASSUME TypeInv, NEW s \in Shards, Worker(s)
  PROVE  /\ queue[s] # <<>> /\ OthersRest(s)
         /\ PassesOn(s) \/ GoesOn(s) \/ Concludes(s)
<1>1. queue[s] # <<>>
  BY DEF Worker, HandlePaymentInitialized, HandleWalletDebitRequested, DebitRefused,
         DebitApplied, MarkGet, HandleWalletDebited, MarkPending, RequestCharge, MarkRejected,
         HandleChargeRequested, ChargeSucceeds, ChargeRetries, ChargeExhausted, ChargeFails,
         Charge, MarkSucceeded, HandleChargeFailed, MarkFailed, RequestRefund,
         HandleWalletRefundRequested, RefundRead, RefundWrite, HandleRecoveryRequested,
         RecoveryResumes, RecoveryInterrupted, At
<1>2. ASSUME PassesOn(s) PROVE OthersRest(s)
  BY <1>2 DEF PassesOn, OthersRest
<1>3. CASE HandlePaymentInitialized(s) \/ HandleWalletDebitRequested(s) \/ RecoveryResumes(s)
  BY <1>1, <1>2, <1>3, HandlersPassOn
<1>4. CASE MarkGet(s) \/ RecoveryInterrupted(s)
  BY <1>1, <1>4, WaitingDrives
<1>5. CASE HandleWalletDebited(s) \/ HandleChargeFailed(s)
  BY <1>1, <1>2, <1>5, HandlersPassOn, SavingDrives DEF HandleWalletDebited, HandleChargeFailed
<1>6. CASE MarkRejected(s) \/ MarkSucceeded(s)
  BY <1>1, <1>6, SavingDrives
<1>7. CASE HandleChargeRequested(s)
  BY <1>1, <1>2, <1>7, HandlersPassOn, WaitingDrives DEF HandleChargeRequested
<1>8. CASE HandleWalletRefundRequested(s)
  <2>1. CASE RefundRead(s)
    BY <1>1, <2>1, WaitingDrives
  <2>2. ASSUME NEW ok \in BOOLEAN, RefundWrite(s, ok)
        PROVE  OthersRest(s) /\ (GoesOn(s) \/ Concludes(s))
    <3>1. CASE ok = TRUE
      <4>1. RefundWrite(s, TRUE)
        BY <2>2, <3>1
      <4> QED
        BY <1>1, <4>1, SavingDrives
    <3>2. CASE ok = FALSE
      <4>1. RefundWrite(s, FALSE)
        BY <2>2, <3>2
      <4> QED
        BY <1>1, <4>1, WaitingDrives
    <3> QED
      BY <3>1, <3>2
  <2> QED
    BY <1>1, <1>8, <2>1, <2>2 DEF HandleWalletRefundRequested
<1> QED
  BY <1>3, <1>4, <1>5, <1>6, <1>7, <1>8 DEF Worker, HandleRecoveryRequested

\* No step of a worker strands a row, its own or another one.
LEMMA WorkersDrive ==
  ASSUME TypeInv, NEW s \in Shards, Worker(s), NEW p \in PaymentIDs, Driven(p)
  PROVE  Driven(p)'
<1> DEFINE h == Head(queue[s])
<1>1. /\ queue[s] # <<>> /\ OthersRest(s)
      /\ PassesOn(s) \/ GoesOn(s) \/ Concludes(s)
  BY WorkerCases
<1>2. h = queue[s][1] /\ 1 \in DOMAIN queue[s] /\ h.pid \in PaymentIDs
  BY <1>1, HeadFacts
<1>3. Stays(s) \/ Return(s) \/ \E m : HandsOn(s, m)
  BY <1>1 DEF PassesOn, GoesOn, Concludes
<1>4. ASSUME Done(NewRecord(p)) PROVE Driven(p)'
  BY <1>4 DEF Done, NewRecord, Driven, Settled
<1>5. CASE payments'[p] # payments[p]
  <2>1. p = h.pid /\ ~PassesOn(s)
    BY <1>1, <1>5 DEF OthersRest, PassesOn
  <2>2. CASE GoesOn(s)
    <3>1. /\ queue'[s] = queue[s] /\ payments'[p].status = Expected(h, wpc'[s])[1]
      BY <1>5, <2>1, <2>2 DEF GoesOn, Stays
    <3>2. Drives(s, 1, p)'
      BY <1>2, <2>1, <3>1 DEF Drives, Place
    <3>3. 1 \in DOMAIN queue'[s]
      BY <1>2, <3>1
    <3> QED
      BY <3>2, <3>3 DEF Driven
  <2>3. CASE Concludes(s)
    BY <1>4, <1>5, <2>1, <2>3 DEF Concludes
  <2> QED
    BY <1>1, <2>1, <2>2, <2>3
<1>6. CASE payments'[p] = payments[p]
  <2>1. CASE payments[p].status = "none"
    BY <1>6, <2>1 DEF Driven
  <2>2. CASE Settled(p)
    BY <1>1, <1>4, <1>6, <2>2 DEF Settled, Done, NewRecord, OthersRest
  <2>3. CASE payments[p].status = "initialized"
             /\ \E r \in Requests : ReqPayment[r] = p /\ http[r] = "saved"
    BY <1>1, <1>6, <2>3 DEF Driven, OthersRest
  <2>4. ASSUME NEW t \in Shards, NEW i \in DOMAIN queue[t], Drives(t, i, p)
        PROVE  Driven(p)'
    <3>1. CASE t # s \/ i # 1
      <4>1. \E j \in DOMAIN queue'[t] : Drives(t, j, p)'
        BY <1>1, <1>3, <1>6, <2>4, <3>1, OthersDrive
      <4> QED
        BY <4>1 DEF Driven
    <3>2. CASE t = s /\ i = 1
      <4>1. Drives(s, 1, p) /\ p = h.pid /\ payments[p].status = Expected(h, wpc[s])[1]
        BY <1>2, <2>4, <3>2 DEF Drives, Place
      <4>2. CASE PassesOn(s)
        <5>1. \E j \in DOMAIN queue'[s] : Drives(s, j, p)'
          BY <1>1, <4>1, <4>2, HeadDrives
        <5> QED
          BY <5>1 DEF Driven
      <4>3. CASE GoesOn(s)
        <5>1. queue'[s] = queue[s] /\ payments'[p].status = Expected(h, wpc'[s])[1]
          BY <1>6, <4>1, <4>3 DEF GoesOn, Stays
        <5>2. Drives(s, 1, p)' /\ 1 \in DOMAIN queue'[s]
          BY <1>2, <4>1, <5>1 DEF Drives, Place
        <5> QED
          BY <5>2 DEF Driven
      <4>4. CASE Concludes(s)
        <5>1. Done(NewRecord(p))
          BY <1>6, <4>1, <4>4 DEF Concludes, Done, NewRecord
        <5> QED
          BY <1>4, <5>1
      <4> QED
        BY <1>1, <4>2, <4>3, <4>4
    <3> QED
      BY <3>1, <3>2
  <2> QED
    BY <2>1, <2>2, <2>3, <2>4 DEF Driven
<1> QED
  BY <1>5, <1>6

\* What a request does to the rows: it sets one back and will drive it itself, or
\* hands a row over to its event, or changes none.
LEMMA RequestsDrive ==
  ASSUME TypeInv, NEW r \in Requests, Create(r) \/ ClientDisconnect(r),
         NEW p \in PaymentIDs, Driven(p)
  PROVE  Driven(p)'
<1>1. /\ ReqPayment[r] \in PaymentIDs /\ payments \in [PaymentIDs -> Payment]
      /\ http \in [Requests -> {"start", "saved", "published", "replied", "refused"}]
      /\ queue \in [Shards -> Seq(Message)]
  BY WorkflowAssumption DEF TypeInv, TypeOK
<1>2. CASE CreateInitialize(r)
  <2>1. /\ http[r] = "start" /\ http' = [http EXCEPT ![r] = "saved"]
        /\ queue' = queue /\ wpc' = wpc /\ refunds' = refunds
    BY <1>2 DEF CreateInitialize, workerVars, historyVars
  <2>2. CASE p = ReqPayment[r]
    <3>1. payments'[p].status = "initialized" /\ http'[r] = "saved"
      BY <1>1, <1>2, <2>1, <2>2 DEF CreateInitialize
    <3> QED
      BY <2>2, <3>1 DEF Driven
  <2>3. CASE p # ReqPayment[r]
    <3>1. payments'[p] = payments[p] /\ \A x \in Requests : ReqPayment[x] = p => http'[x] = http[x]
      BY <1>1, <1>2, <2>1, <2>3 DEF CreateInitialize
    <3> QED
      BY <2>1, <3>1 DEF Driven, Settled, Drives, Place
  <2> QED
    BY <2>2, <2>3
<1>3. CASE CreatePublish(r)
  <2> DEFINE m == [ev |-> "payment.initialized", pid |-> ReqPayment[r],
                   req |-> r, user |-> ReqUser[r],
                   amount |-> ReqAmount[r], attempt |-> 0,
                   reason |-> "none", action |-> "none"]
             home == ShardOf[ReqPayment[r]]
  <2>1. /\ http[r] = "saved" /\ http' = [http EXCEPT ![r] = "published"]
        /\ queue' = [queue EXCEPT ![home] = Append(@, m)]
        /\ payments' = payments /\ refunds' = refunds /\ wpc' = wpc
    BY <1>3 DEF CreatePublish, workerVars, historyVars
  <2>2. m.ev = "payment.initialized" /\ m.pid = ReqPayment[r] /\ home \in Shards
    BY <1>1, WorkflowAssumption
  <2>3. m \in Message
    <3>1. ReqAmount[r] > 0
      BY <2>1 DEF TypeInv, RowsReal
    <3> QED
      BY <3>1, WorkflowAssumption, WalletStoreAssumption
         DEF Message, Balances, Reasons, Actions, EventNames, MaxAttempts
  <2> HIDE DEF m, home
  <2>4. PICK q \in Seq(Message) : q = queue[home] /\ queue'[home] = Append(q, m)
    BY <1>1, <2>1, <2>2
  <2>5. \A t \in Shards : t # home => queue'[t] = queue[t]
    BY <1>1, <2>1
  <2>6. /\ \A i \in DOMAIN q : i \in DOMAIN queue'[home] /\ queue'[home][i] = q[i]
        /\ Len(q) + 1 \in DOMAIN queue'[home] /\ queue'[home][Len(q) + 1] = m
    BY <2>3, <2>4
  <2>7. CASE payments[p].status = "none" \/ Settled(p)
    BY <2>1, <2>7 DEF Driven, Settled
  <2>8. ASSUME payments[p].status = "initialized",
               NEW x \in Requests, ReqPayment[x] = p, http[x] = "saved"
        PROVE  Driven(p)'
    <3>1. CASE x # r
      BY <1>1, <2>1, <2>8, <3>1 DEF Driven
    <3>2. CASE x = r
      <4> DEFINE n == Len(q) + 1
      <4>1. n \in DOMAIN queue'[home] /\ queue'[home][n] = m
        BY <2>6
      <4> HIDE DEF n
      <4>2. Expected(m, Place(home, n)')[1] = "initialized"
        BY <2>2, StatusAt
      <4>3. Drives(home, n, p)'
        BY <2>1, <2>2, <2>8, <3>2, <4>1, <4>2 DEF Drives
      <4> QED
        BY <2>2, <4>1, <4>3 DEF Driven
    <3> QED
      BY <3>1, <3>2
  <2>9. ASSUME NEW t \in Shards, NEW i \in DOMAIN queue[t], Drives(t, i, p)
        PROVE  Driven(p)'
    <3>1. i \in DOMAIN queue'[t] /\ queue'[t][i] = queue[t][i]
      BY <2>4, <2>5, <2>6
    <3>2. Drives(t, i, p)'
      BY <2>1, <2>9, <3>1 DEF Drives, Place
    <3> QED
      BY <3>1, <3>2 DEF Driven
  <2> QED
    BY <2>7, <2>8, <2>9 DEF Driven
<1>4. CASE CreateRefused(r) \/ CreateReturn(r) \/ ClientDisconnect(r)
  <2>1. /\ queue' = queue /\ payments' = payments /\ refunds' = refunds /\ wpc' = wpc
        /\ \A x \in Requests : http[x] = "saved" => http'[x] = "saved"
    BY <1>1, <1>4 DEF CreateRefused, CreateReturn, ClientDisconnect, workerVars, historyVars
  <2> QED
    BY <2>1 DEF Driven, Settled, Drives, Place
<1> QED
  BY <1>2, <1>3, <1>4 DEF Create

\* With payment ids used again, for all clients, payments, shards and amounts: a row
\* that is not settled is at the status at which the request that set it back, or a
\* delivery on the bus, goes on with it.
THEOREM NeverStranded == Spec => []DrivenOn
<1> DEFINE Inv == TypeInv /\ \A p \in PaymentIDs : Driven(p)
<1>1. Init => Inv
  <2> SUFFICES ASSUME Init PROVE \A p \in PaymentIDs : Driven(p)
    BY InitType
  <2> QED
    BY DEF Init, NoPayment, Driven
<1>2. Inv /\ [Next]_vars => Inv'
  <2> SUFFICES ASSUME TypeInv, [Next]_vars, NEW p \in PaymentIDs, Driven(p) PROVE Driven(p)'
    BY NextType
  <2>1. CASE UNCHANGED vars
    BY <2>1 DEF vars, workerVars, historyVars, Driven, Settled, Drives, Place
  <2>2. CASE Next
    BY <2>2, WorkersDrive, RequestsDrive DEF Next
  <2> QED
    BY <2>1, <2>2
<1>3. Inv => DrivenOn
  BY DEF Driven, DrivenOn
<1> QED
  BY <1>1, <1>2, <1>3, PTL DEF Spec

=============================================================================
