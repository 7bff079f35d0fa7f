------------------------ MODULE PaymentWorkflowProofs ------------------------
(***************************************************************************)
(* Proofs about PaymentWorkflow.                                           *)
(***************************************************************************)
EXTENDS PaymentWorkflow, TLAPS

-----------------------------------------------------------------------------
(* What the worker's operators do to a queue. *)

\* The head, the tail and the tail with a message appended of a queue.
LEMMA QueueFacts ==
  ASSUME NEW M, NEW q \in Seq(M), q # <<>>
  PROVE  /\ 1 \in DOMAIN q
         /\ Head(q) = q[1]
         /\ Head(q) \in M
         /\ Tail(q) \in Seq(M)
         /\ \A i \in DOMAIN Tail(q) : i + 1 \in DOMAIN q /\ Tail(q)[i] = q[i + 1]
         /\ \A m \in M :
              /\ Append(Tail(q), m) \in Seq(M)
              /\ \A i \in DOMAIN Append(Tail(q), m) :
                   \/ i + 1 \in DOMAIN q /\ Append(Tail(q), m)[i] = q[i + 1]
                   \/ i = Len(q) /\ Append(Tail(q), m)[i] = m
  OBVIOUS

\* Every delivery of every shard is a message.
LEMMA ElementFacts ==
  ASSUME queue \in [Shards -> Seq(Message)],
         NEW s \in Shards, NEW i \in DOMAIN queue[s]
  PROVE  /\ queue[s][i] \in Message
         /\ queue[s][i].pid \in PaymentIDs
         /\ queue[s][i].req \in Requests
         /\ queue[s][i].ev \in EventNames
<1>1. queue[s] \in Seq(Message)
  OBVIOUS
<1>2. queue[s][i] \in Message
  BY <1>1
<1> QED
  BY <1>2 DEF Message

\* Publishing m onto a shard from outside leaves the other deliveries alone.
LEMMA AppendFacts ==
  ASSUME queue \in [Shards -> Seq(Message)], NEW s \in Shards, NEW m \in Message,
         queue' = [queue EXCEPT ![s] = Append(@, m)]
  PROVE  /\ queue' \in [Shards -> Seq(Message)]
         /\ \A t \in Shards : t # s => queue'[t] = queue[t]
         /\ \A t \in Shards : \A i \in DOMAIN queue'[t] :
              \/ i \in DOMAIN queue[t] /\ queue'[t][i] = queue[t][i]
              \/ t = s /\ i = Len(queue[s]) + 1 /\ queue'[t][i] = m
<1>1. queue[s] \in Seq(Message) /\ queue'[s] = Append(queue[s], m)
  OBVIOUS
<1>2. \A i \in DOMAIN queue'[s] :
        \/ i \in DOMAIN queue[s] /\ queue'[s][i] = queue[s][i]
        \/ i = Len(queue[s]) + 1 /\ queue'[s][i] = m
  BY <1>1
<1>3. \A t \in Shards : t # s => queue'[t] = queue[t]
  OBVIOUS
<1>4. queue' \in [Shards -> Seq(Message)]
  BY <1>1
<1> QED
  BY <1>2, <1>3, <1>4

\* After a Return, the other deliveries of the shard have moved up by one and
\* those of other shards are where they were.
LEMMA ReturnFacts ==
  ASSUME queue \in [Shards -> Seq(Message)], NEW s \in Shards,
         queue[s] # <<>>, queue' = [queue EXCEPT ![s] = Tail(@)]
  PROVE  /\ queue' \in [Shards -> Seq(Message)]
         /\ \A i \in DOMAIN queue'[s] :
              i + 1 \in DOMAIN queue[s] /\ queue'[s][i] = queue[s][i + 1]
         /\ \A t \in Shards : t # s => queue'[t] = queue[t]
  BY QueueFacts

\* PublishAndReturn(s, m) does the same and puts m at the end.
LEMMA PublishFacts ==
  ASSUME queue \in [Shards -> Seq(Message)], NEW s \in Shards, NEW m \in Message,
         queue[s] # <<>>, queue' = [queue EXCEPT ![s] = Append(Tail(@), m)]
  PROVE  /\ queue' \in [Shards -> Seq(Message)]
         /\ \A i \in DOMAIN queue'[s] :
              \/ i + 1 \in DOMAIN queue[s] /\ queue'[s][i] = queue[s][i + 1]
              \/ i = Len(queue[s]) /\ queue'[s][i] = m
         /\ \A t \in Shards : t # s => queue'[t] = queue[t]
  BY QueueFacts

\* e is a message ev about the payment of m, in the context of m's request.
Derived(e, ev, m) ==
  e \in Message /\ e.ev = ev /\ e.pid = m.pid /\ e.req = m.req

\* The events that handlers derive from the one they handle.
LEMMA FollowFacts ==
  ASSUME NEW m \in Message, NEW ev \in EventNames, NEW n \in 0 .. MaxAttempts + 1,
         NEW reason \in Reasons, NEW action \in Actions
  PROVE  /\ Derived(Follow(m, ev), ev, m)
         /\ Derived([Follow(m, ev) EXCEPT !.attempt = n], ev, m)
         /\ [Follow(m, ev) EXCEPT !.attempt = n].attempt = n
         /\ Derived([Follow(m, ev) EXCEPT !.reason = reason], ev, m)
         /\ Derived([Follow(m, ev) EXCEPT !.reason = reason, !.action = action,
                                          !.attempt = n], ev, m)
         /\ [Follow(m, ev) EXCEPT !.reason = reason, !.action = action,
                                  !.attempt = n].attempt = n
         /\ [Follow(m, ev) EXCEPT !.reason = reason, !.action = action,
                                  !.attempt = n].action = action
<1> DEFINE f == Follow(m, ev)
<1>1. "none" \in Reasons /\ "none" \in Actions /\ 0 \in 0 .. MaxAttempts + 1
  BY DEF Reasons, Actions, MaxAttempts
<1>2. Derived(f, ev, m)
  BY <1>1 DEF Follow, Message, Derived
<1> HIDE DEF f
<1>3. /\ Derived([f EXCEPT !.attempt = n], ev, m)
      /\ [f EXCEPT !.attempt = n].attempt = n
  BY <1>2 DEF Message, Derived
<1>4. Derived([f EXCEPT !.reason = reason], ev, m)
  BY <1>2 DEF Message, Derived
<1> DEFINE g == [f EXCEPT !.reason = reason, !.action = action, !.attempt = n]
<1>5. Derived(g, ev, m) /\ g.attempt = n /\ g.action = action
  BY <1>2 DEF Message, Derived
<1> QED
  BY <1>2, <1>3, <1>4, <1>5 DEF f

LEMMA FromTableFacts ==
  ASSUME NEW m \in Message, NEW ev \in EventNames, NEW n \in 0 .. MaxAttempts + 1,
         RealRow(payments[m.pid])
  PROVE  Derived(FromTable(m, ev, n), ev, m) /\ FromTable(m, ev, n).attempt = n
  BY DEF Derived, FromTable, Follow, Message, EventNames, MaxAttempts, Reasons, Actions, RealRow

-----------------------------------------------------------------------------
(* Type correctness. *)

\* The types of the variables that only a worker changes.
WorkerTypes ==
  /\ queue \in [Shards -> Seq(Message)]
  /\ wpc \in [Shards -> {"run", "mark", "next", "refund"}]
  /\ loaded \in [Shards -> Payment]
  /\ balance \in [Shards -> Balances]
  /\ attempt \in [Shards -> 0 .. MaxAttempts]
  /\ erred \in [Shards -> BOOLEAN]

\* The types of the other variables.
TableTypes ==
  /\ WalletTypeOK
  /\ http \in [Requests -> {"start", "saved", "published", "replied", "refused"}]
  /\ cancelled \in [Requests -> BOOLEAN]
  /\ payments \in [PaymentIDs -> Payment]
  /\ debits \in [PaymentIDs -> Nat]
  /\ refunds \in [PaymentIDs -> Nat]
  /\ charges \in [PaymentIDs -> Nat]
  /\ calls \in [PaymentIDs -> Nat]

LEMMA TypesSplit == TypeOK <=> (WorkerTypes /\ TableTypes)
  BY DEF TypeOK, WorkerTypes, TableTypes

\* Zero is a balance, and the empty row a payment.
LEMMA Zeroes == 0 \in Balances /\ NoPayment \in Payment /\ Users \subseteq Users \union {NoUser}
  BY WalletStoreAssumption DEF Balances, NoPayment, Payment, Statuses, Reasons

\* The head of a queue is a message about a payment that is in the table.
LEMMA HeadFacts ==
  ASSUME TypeInv, NEW s \in Shards, queue[s] # <<>>
  PROVE  /\ Head(queue[s]) = queue[s][1]
         /\ 1 \in DOMAIN queue[s]
         /\ Head(queue[s]) \in Message
         /\ Head(queue[s]).pid \in PaymentIDs
         /\ RealRow(payments[Head(queue[s]).pid])
         /\ Head(queue[s]).ev = "recovery.requested" =>
              Head(queue[s]).attempt \in 1 .. MaxAttempts
         /\ Head(queue[s]).ev = "payment.charge_requested" =>
              Head(queue[s]).attempt > 0
<1>1. queue[s] \in Seq(Message)
  BY DEF TypeInv, TypeOK
<1>2. Head(queue[s]) = queue[s][1] /\ 1 \in DOMAIN queue[s] /\ Head(queue[s]) \in Message
  BY <1>1, QueueFacts
<1>3. Head(queue[s]).pid \in PaymentIDs
  BY <1>2 DEF Message
<1> QED
  BY <1>2, <1>3 DEF TypeInv, MessagesReal

\* A handler that returns nil after publishing m keeps the type invariant's
\* part about the worker.
LEMMA PublishType ==
  ASSUME TypeInv, NEW s \in Shards, queue[s] # <<>>, NEW m \in Message,
         PublishAndReturn(s, m), RealRow(payments[m.pid]),
         m.ev = "recovery.requested" => m.attempt \in 1 .. MaxAttempts,
         m.ev = "payment.charge_requested" => m.attempt > 0,
         http' = http, payments' = payments
  PROVE  WorkerTypes' /\ RowsReal' /\ MessagesReal'
<1> USE DEF PublishAndReturn
<1>1. queue \in [Shards -> Seq(Message)]
  BY DEF TypeInv, TypeOK
<1>2. /\ queue' \in [Shards -> Seq(Message)]
      /\ \A i \in DOMAIN queue'[s] :
           \/ i + 1 \in DOMAIN queue[s] /\ queue'[s][i] = queue[s][i + 1]
           \/ i = Len(queue[s]) /\ queue'[s][i] = m
      /\ \A t \in Shards : t # s => queue'[t] = queue[t]
  BY <1>1, PublishFacts
<1>3. WorkerTypes'
  BY <1>2, Zeroes DEF WorkerTypes, TypeInv, TypeOK, Finish, MaxAttempts
<1>4. RowsReal'
  BY Zeroes DEF RowsReal, TypeInv, TypeOK, Finish
<1>5. MessagesReal'
  <2> SUFFICES ASSUME NEW t \in Shards, NEW i \in DOMAIN queue'[t]
      PROVE  /\ RealRow(payments[queue'[t][i].pid])
             /\ queue'[t][i].ev = "recovery.requested" =>
                  queue'[t][i].attempt \in 1 .. MaxAttempts
             /\ queue'[t][i].ev = "payment.charge_requested" =>
                  queue'[t][i].attempt > 0
    BY DEF MessagesReal, RealRow
  <2>1. CASE t = s
    BY <1>2, <2>1 DEF TypeInv, MessagesReal
  <2>2. CASE t # s
    BY <1>2, <2>2 DEF TypeInv, MessagesReal
  <2> QED
    BY <2>1, <2>2
<1> QED
  BY <1>3, <1>4, <1>5

\* A handler that returns nil without publishing an event of the workflow does
\* so too, if the rows that were real stay so.
LEMMA ReturnType ==
  ASSUME TypeInv, NEW s \in Shards, queue[s] # <<>>, Return(s), http' = http,
         \A p \in PaymentIDs : RealRow(payments[p]) => RealRow(payments'[p])
  PROVE  WorkerTypes' /\ RowsReal' /\ MessagesReal'
<1> USE DEF Return
<1>1. queue \in [Shards -> Seq(Message)]
  BY DEF TypeInv, TypeOK
<1>2. /\ queue' \in [Shards -> Seq(Message)]
      /\ \A i \in DOMAIN queue'[s] :
           i + 1 \in DOMAIN queue[s] /\ queue'[s][i] = queue[s][i + 1]
      /\ \A t \in Shards : t # s => queue'[t] = queue[t]
  BY <1>1, ReturnFacts
<1>3. WorkerTypes'
  BY <1>2, Zeroes DEF WorkerTypes, TypeInv, TypeOK, Finish, MaxAttempts
<1>4. RowsReal'
  BY Zeroes, WorkflowAssumption DEF RowsReal, TypeInv, TypeOK, Finish, RealRow
<1>5. MessagesReal'
  <2> SUFFICES ASSUME NEW t \in Shards, NEW i \in DOMAIN queue'[t]
      PROVE  /\ RealRow(payments'[queue'[t][i].pid])
             /\ queue'[t][i].ev = "recovery.requested" =>
                  queue'[t][i].attempt \in 1 .. MaxAttempts
             /\ queue'[t][i].ev = "payment.charge_requested" =>
                  queue'[t][i].attempt > 0
    BY DEF MessagesReal, RealRow
  <2>1. PICK j \in DOMAIN queue[t] : queue'[t][i] = queue[t][j]
    BY <1>2
  <2>2. queue[t][j].pid \in PaymentIDs
    BY <1>1, ElementFacts
  <2> QED
    BY <2>1, <2>2 DEF TypeInv, MessagesReal
<1> QED
  BY <1>3, <1>4, <1>5

\* The wallet operators keep the types of the wallet variables.
LEMMA SetBalanceType ==
  ASSUME WalletTypeOK, NEW u \in Users, NEW b \in Balances, NEW ok \in BOOLEAN,
         SetBalance(u, b, ok)
  PROVE  WalletTypeOK'
  BY WalletStoreAssumption DEF WalletTypeOK, SetBalance, PersistWallets

LEMMA DebitBalanceType ==
  ASSUME WalletTypeOK, NEW u \in Users, NEW amount \in 1 .. MaxInt, NEW ok \in BOOLEAN,
         DebitBalance(u, amount, ok)
  PROVE  WalletTypeOK'
<1>1. wallets[u] - amount \in Balances
  BY WalletStoreAssumption DEF WalletTypeOK, DebitBalance, SufficientFunds, Balances
<1> QED
  BY <1>1, WalletStoreAssumption DEF WalletTypeOK, DebitBalance, PersistWallets

LEMMA AddInt64Type ==
  ASSUME NEW b \in Balances, NEW amount \in 1 .. MaxInt
  PROVE  AddInt64(b, amount) \in Balances
  BY WalletStoreAssumption DEF Balances, AddInt64

\* A saved row is a payment, and a real one.
LEMMA SaveFacts ==
  ASSUME NEW row \in Payment, RealRow(row), NEW reason \in Reasons,
         NEW status \in Statuses \ {"none"}
  PROVE  LET new == [row EXCEPT !.status = status, !.reason = reason]
         IN  new \in Payment /\ RealRow(new)
  BY DEF Payment, RealRow

\* The HTTP goroutine.
LEMMA CreateType ==
  ASSUME TypeInv, NEW r \in Requests, Create(r) \/ ClientDisconnect(r)
  PROVE  TypeInv'
<1>0. queue \in [Shards -> Seq(Message)] /\ ReqPayment[r] \in PaymentIDs
  BY WorkflowAssumption DEF TypeInv, TypeOK
<1>1. CASE CreateRefused(r) \/ CreateReturn(r) \/ ClientDisconnect(r)
  <2>1. TypeOK'
    BY <1>1 DEF TypeInv, TypeOK, CreateRefused, CreateReturn, ClientDisconnect,
                workerVars, historyVars, walletVars, WalletTypeOK
  <2>2. RowsReal' /\ MessagesReal'
    BY <1>1 DEF TypeInv, TypeOK, RowsReal, MessagesReal, RealRow, CreateRefused,
                CreateReturn, ClientDisconnect, workerVars
  <2> QED
    BY <2>1, <2>2 DEF TypeInv
<1>2. CASE CreateInitialize(r)
  <2> DEFINE row == [user |-> ReqUser[r], amount |-> ReqAmount[r],
                     status |-> "initialized", reason |-> "none"]
  <2>1. row \in Payment /\ RealRow(row)
    BY <1>2, WorkflowAssumption, WalletStoreAssumption
       DEF CreateInitialize, Payment, RealRow, Balances, Statuses, Reasons
  <2>2. payments' = [payments EXCEPT ![ReqPayment[r]] = row]
    BY <1>2 DEF CreateInitialize
  <2> HIDE DEF row
  <2>3. TypeOK'
    BY <1>2, <2>1, <2>2 DEF TypeInv, TypeOK, CreateInitialize,
                workerVars, historyVars, walletVars, WalletTypeOK
  <2>4. \A p \in PaymentIDs : RealRow(payments[p]) => RealRow(payments'[p])
    BY <2>1, <2>2 DEF TypeInv, TypeOK
  <2>5. RealRow(payments'[ReqPayment[r]])
    BY <1>0, <2>1, <2>2 DEF TypeInv, TypeOK
  <2>6. RowsReal'
    BY <1>2, <2>4, <2>5, WorkflowAssumption
       DEF TypeInv, TypeOK, RowsReal, CreateInitialize, workerVars, RealRow
  <2>7. MessagesReal'
    <3> SUFFICES ASSUME NEW t \in Shards, NEW i \in DOMAIN queue[t]
                 PROVE  RealRow(payments'[queue[t][i].pid])
      BY <1>2 DEF MessagesReal, TypeInv, CreateInitialize, workerVars, RealRow
    <3>1. queue[t][i].pid \in PaymentIDs
      BY <1>0, ElementFacts
    <3> QED
      BY <3>1, <2>4 DEF TypeInv, MessagesReal
  <2> QED
    BY <2>3, <2>6, <2>7 DEF TypeInv
<1>3. CASE CreatePublish(r)
  <2> DEFINE m == [ev |-> "payment.initialized", pid |-> ReqPayment[r],
                   req |-> r, user |-> ReqUser[r],
                   amount |-> ReqAmount[r], attempt |-> 0,
                   reason |-> "none", action |-> "none"]
             home == ShardOf[ReqPayment[r]]
  <2>1. ReqAmount[r] > 0 /\ RealRow(payments[ReqPayment[r]])
    BY <1>3 DEF CreatePublish, TypeInv, RowsReal
  <2>2. /\ m \in Message /\ home \in Shards
        /\ m.ev = "payment.initialized" /\ m.pid = ReqPayment[r]
    BY <2>1, WorkflowAssumption, WalletStoreAssumption
       DEF Message, Balances, Reasons, Actions, EventNames, MaxAttempts
  <2>3. queue' = [queue EXCEPT ![home] = Append(@, m)]
    BY <1>3 DEF CreatePublish
  <2> HIDE DEF m, home
  <2>4. /\ queue' \in [Shards -> Seq(Message)]
        /\ \A t \in Shards : \A i \in DOMAIN queue'[t] :
             \/ i \in DOMAIN queue[t] /\ queue'[t][i] = queue[t][i]
             \/ queue'[t][i] = m
    BY <1>0, <2>2, <2>3, AppendFacts
  <2>5. /\ http' = [http EXCEPT ![r] = "published"]
        /\ http[r] = "saved"
        /\ UNCHANGED <<cancelled, payments, workerVars, historyVars, walletVars>>
    BY <1>3 DEF CreatePublish
  <2>6. TypeOK'
    BY <2>4, <2>5 DEF TypeInv, TypeOK, workerVars, historyVars, walletVars, WalletTypeOK
  <2>7. RowsReal'
    BY <2>5 DEF TypeInv, TypeOK, RowsReal, workerVars, RealRow
  <2>8. MessagesReal'
    BY <2>1, <2>2, <2>4, <2>5 DEF TypeInv, MessagesReal, RealRow
  <2> QED
    BY <2>6, <2>7, <2>8 DEF TypeInv
<1> QED
  BY <1>1, <1>2, <1>3 DEF Create


\* When the queues stay as they are, so does what is said of the messages.
LEMMA SameQueue ==
  ASSUME TypeInv, queue' = queue,
         \A p \in PaymentIDs : RealRow(payments[p]) => RealRow(payments'[p])
  PROVE  MessagesReal'
<1> SUFFICES ASSUME NEW t \in Shards, NEW i \in DOMAIN queue[t]
             PROVE  RealRow(payments'[queue[t][i].pid])
  BY DEF MessagesReal, TypeInv, RealRow
<1>1. queue[t][i].pid \in PaymentIDs
  BY ElementFacts DEF TypeInv, TypeOK
<1> QED
  BY <1>1 DEF TypeInv, MessagesReal

\* Save by the worker of s keeps the table's type, and its rows real.
LEMMA SaveType ==
  ASSUME TypeInv, NEW s \in Shards, queue[s] # <<>>, wpc[s] = "mark",
         NEW status \in Statuses \ {"none"}, NEW reason \in Reasons,
         Save(s, status, reason)
  PROVE  /\ payments' \in [PaymentIDs -> Payment]
         /\ \A p \in PaymentIDs : RealRow(payments[p]) => RealRow(payments'[p])
<1>1. loaded[s] \in Payment /\ RealRow(loaded[s]) /\ payments \in [PaymentIDs -> Payment]
  BY DEF TypeInv, TypeOK, RowsReal
<1> DEFINE row == [loaded[s] EXCEPT !.status = status, !.reason = reason]
<1>2. row \in Payment /\ RealRow(row)
  BY <1>1, SaveFacts
<1>3. payments' = [payments EXCEPT ![Head(queue[s]).pid] = row]
  BY DEF Save
<1> HIDE DEF row
<1> QED
  BY <1>1, <1>2, <1>3

\* Handlers that end by publishing an event of their payment.
LEMMA PublishActionsType ==
  ASSUME TypeInv, NEW s \in Shards,
         \/ HandlePaymentInitialized(s)
         \/ DebitRefused(s)
         \/ \E ok \in BOOLEAN : DebitApplied(s, ok)
         \/ RequestCharge(s)
         \/ RequestRefund(s)
         \/ RecoveryResumes(s)
  PROVE  TypeInv'
<1> DEFINE m == Head(queue[s])
<1>1. queue[s] # <<>>
  BY DEF HandlePaymentInitialized, DebitRefused, DebitApplied, RequestCharge,
         RequestRefund, RecoveryResumes, At
<1>2. /\ m \in Message /\ m.pid \in PaymentIDs /\ RealRow(payments[m.pid])
      /\ m.ev = "recovery.requested" => m.attempt \in 1 .. MaxAttempts
      /\ m.user \in Users /\ m.amount \in 1 .. MaxInt
  BY <1>1, HeadFacts DEF Message
<1> HIDE DEF m
<1>3. /\ 0 \in 0 .. MaxAttempts + 1 /\ 1 \in 0 .. MaxAttempts + 1 /\ 1 \in 1 .. MaxAttempts
      /\ "none" \in Reasons /\ "insufficient" \in Reasons /\ "db_internal" \in Reasons
      /\ "none" \in Actions /\ "wallet.debit" \in Actions
  BY DEF MaxAttempts, Reasons, Actions
<1>4. /\ "wallet.debit_requested" \in EventNames /\ "wallet.debited" \in EventNames
      /\ "wallet.debit_rejected" \in EventNames /\ "recovery.requested" \in EventNames
      /\ "payment.charge_requested" \in EventNames
      /\ "wallet.refund_requested" \in EventNames
  BY DEF EventNames
<1> DEFINE Good(e) ==
      /\ e \in Message
      /\ e.pid = m.pid
      /\ e.ev = "recovery.requested" => e.attempt \in 1 .. MaxAttempts
      /\ e.ev = "payment.charge_requested" => e.attempt > 0
<1>5. \A e \in Message :
        Good(e) /\ PublishAndReturn(s, e) /\ http' = http /\ payments' = payments =>
          WorkerTypes' /\ RowsReal' /\ MessagesReal'
  BY <1>1, <1>2, PublishType
<1>6. TypeInv /\ TableTypes' /\ WorkerTypes' /\ RowsReal' /\ MessagesReal' => TypeInv'
  BY TypesSplit DEF TypeInv, TypeOK, WorkerTypes, TableTypes
<1>7. TableTypes
  BY TypesSplit DEF TypeInv
<1>8. CASE HandlePaymentInitialized(s)
  <2> DEFINE e == [Follow(m, "wallet.debit_requested") EXCEPT !.attempt = 1]
  <2>1. Good(e)
    <3>1. Derived(e, "wallet.debit_requested", m)
      BY <1>2, <1>3, <1>4, FollowFacts
    <3> QED
      BY <3>1 DEF Derived
  <2>2. PublishAndReturn(s, e) /\ http' = http /\ payments' = payments
    BY <1>8 DEF HandlePaymentInitialized, m
  <2>3. TableTypes'
    BY <1>7, <1>8 DEF HandlePaymentInitialized, TableTypes, historyVars, walletVars, WalletTypeOK
  <2> QED
    BY <1>5, <1>6, <2>1, <2>2, <2>3
<1>9. CASE DebitRefused(s)
  <2> DEFINE e == [Follow(m, "wallet.debit_rejected") EXCEPT !.reason = "insufficient"]
  <2>1. Good(e)
    <3>1. Derived(e, "wallet.debit_rejected", m)
      BY <1>2, <1>3, <1>4, FollowFacts
    <3> QED
      BY <3>1 DEF Derived
  <2>2. PublishAndReturn(s, e) /\ http' = http /\ payments' = payments
    BY <1>9 DEF DebitRefused, m
  <2>3. TableTypes'
    BY <1>7, <1>9 DEF DebitRefused, TableTypes, historyVars, walletVars, WalletTypeOK
  <2> QED
    BY <1>5, <1>6, <2>1, <2>2, <2>3
<1>10. ASSUME NEW ok \in BOOLEAN, DebitApplied(s, ok) PROVE TypeInv'
  <2> DEFINE e == IF ok THEN Follow(m, "wallet.debited") ELSE DebitFailureEvent(m)
  <2>1. Good(e)
    <3> DEFINE rec == [Follow(m, "recovery.requested")
                         EXCEPT !.reason = "db_internal", !.action = "wallet.debit",
                                !.attempt = 1]
               rej == [Follow(m, "wallet.debit_rejected") EXCEPT !.reason = "db_internal"]
    <3>1. Derived(Follow(m, "wallet.debited"), "wallet.debited", m)
      BY <1>2, <1>3, <1>4, FollowFacts
    <3>2. Derived(rec, "recovery.requested", m)
      BY <1>2, <1>3, <1>4, FollowFacts
    <3>5. rec.attempt = 1
      BY <1>2 DEF Follow, Message
    <3>3. Derived(rej, "wallet.debit_rejected", m)
      BY <1>2, <1>3, <1>4, FollowFacts
    <3>4. e \in {Follow(m, "wallet.debited"), rec, rej}
      BY DEF DebitFailureEvent
    <3> HIDE DEF rec, rej, e
    <3> QED
      BY <1>3, <3>1, <3>2, <3>3, <3>4, <3>5 DEF Derived
  <2>2. PublishAndReturn(s, e) /\ http' = http /\ payments' = payments
    BY <1>10 DEF DebitApplied, m
  <2>3. WalletTypeOK'
    BY <1>2, <1>10, DebitBalanceType DEF DebitApplied, TypeInv, TypeOK, m
  <2>4. TableTypes'
    BY <1>2, <1>7, <1>10, <2>3 DEF DebitApplied, TableTypes, m
  <2> QED
    BY <1>5, <1>6, <2>1, <2>2, <2>4
<1>11. CASE RequestCharge(s)
  <2> DEFINE e == FromTable(m, "payment.charge_requested", 1)
  <2>1. Good(e)
    BY <1>2, <1>3, <1>4, FromTableFacts DEF Derived
  <2>2. PublishAndReturn(s, e) /\ http' = http /\ payments' = payments
    BY <1>11 DEF RequestCharge, m
  <2>3. TableTypes'
    BY <1>7, <1>11 DEF RequestCharge, TableTypes, historyVars, walletVars, WalletTypeOK
  <2> QED
    BY <1>5, <1>6, <2>1, <2>2, <2>3
<1>12. CASE RequestRefund(s)
  <2> DEFINE e == FromTable(m, "wallet.refund_requested", 0)
  <2>1. Good(e)
    BY <1>2, <1>3, <1>4, FromTableFacts DEF Derived
  <2>2. PublishAndReturn(s, e) /\ http' = http /\ payments' = payments
    BY <1>12 DEF RequestRefund, m
  <2>3. TableTypes'
    BY <1>7, <1>12 DEF RequestRefund, TableTypes, historyVars, walletVars, WalletTypeOK
  <2> QED
    BY <1>5, <1>6, <2>1, <2>2, <2>3
<1>13. CASE RecoveryResumes(s)
  <2>1. m.attempt + 1 \in 0 .. MaxAttempts + 1 /\ m.attempt + 1 > 0
    BY <1>2, <1>13 DEF RecoveryResumes, At, m, MaxAttempts
  <2>2. Good(RecoveredEvent(m))
    BY <1>2, <1>4, <2>1, FromTableFacts DEF RecoveredEvent, Derived
  <2>3. PublishAndReturn(s, RecoveredEvent(m)) /\ http' = http /\ payments' = payments
    BY <1>13 DEF RecoveryResumes, m
  <2>4. TableTypes'
    BY <1>7, <1>13 DEF RecoveryResumes, TableTypes, historyVars, walletVars, WalletTypeOK
  <2> QED
    BY <1>5, <1>6, <2>2, <2>3, <2>4
<1> QED
  BY <1>8, <1>9, <1>10, <1>11, <1>12, <1>13


\* What the turns of the charge loop have in common.
LEMMA ChargeFacts ==
  ASSUME TypeInv, NEW s \in Shards, NEW outcome \in Reasons \union {"ok"},
         Charge(s, outcome)
  PROVE  /\ queue[s] # <<>>
         /\ Head(queue[s]) \in Message /\ Head(queue[s]).pid \in PaymentIDs
         /\ RealRow(payments[Head(queue[s]).pid])
         /\ Attempt(s) \in 1 .. MaxAttempts + 1
         /\ calls' \in [PaymentIDs -> Nat]
         /\ WalletTypeOK'
         /\ UNCHANGED <<http, cancelled, payments, debits, refunds>>
<1>1. queue[s] # <<>> /\ Head(queue[s]).ev = "payment.charge_requested"
  BY DEF Charge, At
<1>2. /\ Head(queue[s]) \in Message /\ Head(queue[s]).pid \in PaymentIDs
      /\ RealRow(payments[Head(queue[s]).pid]) /\ Head(queue[s]).attempt > 0
  BY <1>1, HeadFacts
<1>3. Attempt(s) \in 1 .. MaxAttempts + 1
  BY <1>2 DEF Attempt, TypeInv, TypeOK, MaxAttempts, Message
<1>4. calls' \in [PaymentIDs -> Nat]
  BY <1>2 DEF Charge, TypeInv, TypeOK
<1>5. WalletTypeOK' /\ UNCHANGED <<http, cancelled, payments, debits, refunds>>
  BY DEF Charge, walletVars, TypeInv, TypeOK, WalletTypeOK
<1> QED
  BY <1>1, <1>2, <1>3, <1>4, <1>5

LEMMA ChargeType ==
  ASSUME TypeInv, NEW s \in Shards, HandleChargeRequested(s)
  PROVE  TypeInv'
<1> DEFINE m == Head(queue[s])
<1>1. TypeInv /\ TableTypes' /\ WorkerTypes' /\ RowsReal' /\ MessagesReal' => TypeInv'
  BY TypesSplit DEF TypeInv, TypeOK, WorkerTypes, TableTypes
<1>2. charges \in [PaymentIDs -> Nat] /\ TableTypes /\ WorkerTypes
  BY TypesSplit DEF TypeInv, TypeOK
<1>3. /\ "payment.charge_succeeded" \in EventNames /\ "payment.charge_failed" \in EventNames
      /\ "recovery.requested" \in EventNames
      /\ "none" \in Reasons /\ "none" \in Actions /\ "payment.charge" \in Actions
      /\ 0 \in 0 .. MaxAttempts + 1
  BY DEF EventNames, Reasons, Actions, MaxAttempts
<1>4. CASE ChargeSucceeds(s)
  <2> DEFINE e == Follow(m, "payment.charge_succeeded")
  <2>1. Charge(s, "ok") /\ PublishAndReturn(s, e) /\ charges' = [charges EXCEPT ![m.pid] = @ + 1]
    BY <1>4 DEF ChargeSucceeds
  <2>2. /\ queue[s] # <<>> /\ m \in Message /\ m.pid \in PaymentIDs /\ RealRow(payments[m.pid])
        /\ calls' \in [PaymentIDs -> Nat] /\ WalletTypeOK'
        /\ UNCHANGED <<http, cancelled, payments, debits, refunds>>
    BY <2>1, ChargeFacts
  <2> HIDE DEF m
  <2>3. Derived(e, "payment.charge_succeeded", m)
    BY <1>3, <2>2, FollowFacts
  <2> HIDE DEF e
  <2>4. WorkerTypes' /\ RowsReal' /\ MessagesReal'
    BY <2>1, <2>2, <2>3, PublishType DEF Derived
  <2>5. charges' \in [PaymentIDs -> Nat]
    BY <1>2, <2>1, <2>2
  <2>6. TableTypes'
    BY <1>2, <2>2, <2>5 DEF TableTypes
  <2> QED
    BY <1>1, <2>4, <2>6
<1>5. ASSUME NEW outcome \in Reasons, ChargeRetries(s, outcome) PROVE TypeInv'
  <2>1. Charge(s, outcome) /\ Attempt(s) < MaxAttempts
        /\ attempt' = [attempt EXCEPT ![s] = Attempt(s) + 1]
        /\ UNCHANGED <<queue, wpc, loaded, balance, erred, charges>>
    BY <1>5 DEF ChargeRetries
  <2>2. /\ Attempt(s) \in 1 .. MaxAttempts + 1
        /\ calls' \in [PaymentIDs -> Nat] /\ WalletTypeOK'
        /\ UNCHANGED <<http, cancelled, payments, debits, refunds>>
    BY <2>1, ChargeFacts
  <2>3. attempt' \in [Shards -> 0 .. MaxAttempts]
    BY <2>1, <2>2 DEF TypeInv, TypeOK, MaxAttempts
  <2>4. WorkerTypes' /\ TableTypes'
    BY <1>2, <2>1, <2>2, <2>3 DEF WorkerTypes, TableTypes
  <2>5. RowsReal'
    BY <2>1, <2>2 DEF TypeInv, RowsReal, RealRow
  <2>6. MessagesReal'
    BY <2>1, <2>2, SameQueue
  <2> QED
    BY <1>1, <2>4, <2>5, <2>6
<1>6. ASSUME NEW outcome \in Reasons, ChargeExhausted(s, outcome) PROVE TypeInv'
  <2> DEFINE e == [Follow(m, "recovery.requested")
                     EXCEPT !.reason = outcome, !.action = "payment.charge",
                            !.attempt = Attempt(s)]
  <2>1. Charge(s, outcome) /\ PublishAndReturn(s, e) /\ charges' = charges
        /\ Attempt(s) = MaxAttempts
    BY <1>6 DEF ChargeExhausted
  <2>2. /\ queue[s] # <<>> /\ m \in Message /\ m.pid \in PaymentIDs /\ RealRow(payments[m.pid])
        /\ calls' \in [PaymentIDs -> Nat] /\ WalletTypeOK'
        /\ UNCHANGED <<http, cancelled, payments, debits, refunds>>
    BY <2>1, ChargeFacts
  <2> HIDE DEF m
  <2>3. Attempt(s) \in 0 .. MaxAttempts + 1 /\ Attempt(s) \in 1 .. MaxAttempts
    BY <2>1 DEF MaxAttempts
  <2>4. Derived(e, "recovery.requested", m)
    BY <1>3, <2>2, <2>3, FollowFacts
  <2>5. e.attempt = Attempt(s)
    BY <2>2 DEF Follow, Message
  <2> HIDE DEF e
  <2>6. WorkerTypes' /\ RowsReal' /\ MessagesReal'
    BY <2>1, <2>2, <2>3, <2>4, <2>5, PublishType DEF Derived
  <2>7. TableTypes'
    BY <1>2, <2>1, <2>2 DEF TableTypes
  <2> QED
    BY <1>1, <2>6, <2>7
<1>7. ASSUME NEW outcome \in Reasons, ChargeFails(s, outcome) PROVE TypeInv'
  <2> DEFINE e == [Follow(m, "payment.charge_failed") EXCEPT !.reason = outcome]
  <2>1. Charge(s, outcome) /\ PublishAndReturn(s, e) /\ charges' = charges
    BY <1>7 DEF ChargeFails
  <2>2. /\ queue[s] # <<>> /\ m \in Message /\ m.pid \in PaymentIDs /\ RealRow(payments[m.pid])
        /\ calls' \in [PaymentIDs -> Nat] /\ WalletTypeOK'
        /\ UNCHANGED <<http, cancelled, payments, debits, refunds>>
    BY <2>1, ChargeFacts
  <2> HIDE DEF m
  <2>3. Derived(e, "payment.charge_failed", m)
    BY <1>3, <2>2, FollowFacts
  <2> HIDE DEF e
  <2>4. WorkerTypes' /\ RowsReal' /\ MessagesReal'
    BY <2>1, <2>2, <2>3, PublishType DEF Derived
  <2>5. TableTypes'
    BY <1>2, <2>1, <2>2 DEF TableTypes
  <2> QED
    BY <1>1, <2>4, <2>5
<1> QED
  BY <1>4, <1>5, <1>6, <1>7 DEF HandleChargeRequested

\* Handlers that save a payment, or that stay with their delivery.
LEMMA LocalActionsType ==
  ASSUME TypeInv, NEW s \in Shards,
         \/ MarkGet(s) \/ MarkPending(s) \/ MarkRejected(s)
         \/ MarkSucceeded(s) \/ MarkFailed(s) \/ RecoveryInterrupted(s)
         \/ HandleWalletRefundRequested(s)
  PROVE  TypeInv'
<1>1. TypeInv /\ TableTypes' /\ WorkerTypes' /\ RowsReal' /\ MessagesReal' => TypeInv'
  BY TypesSplit DEF TypeInv, TypeOK, WorkerTypes, TableTypes
<1>2. TableTypes /\ WorkerTypes
  BY TypesSplit DEF TypeInv
<1>3. CASE MarkGet(s)
  <2>1. /\ queue[s] # <<>>
        /\ loaded' = [loaded EXCEPT ![s] = payments[Head(queue[s]).pid]]
        /\ wpc' = [wpc EXCEPT ![s] = "mark"]
        /\ UNCHANGED <<http, cancelled, payments, queue, balance, attempt, erred,
                       historyVars, walletVars>>
    BY <1>3 DEF MarkGet, At, Goto
  <2>2. Head(queue[s]).pid \in PaymentIDs /\ RealRow(payments[Head(queue[s]).pid])
    BY <2>1, HeadFacts
  <2>3. WorkerTypes' /\ TableTypes'
    BY <1>2, <2>1, <2>2
       DEF WorkerTypes, TableTypes, historyVars, walletVars, WalletTypeOK
  <2>4. RowsReal'
    BY <2>1, <2>2 DEF RowsReal, TypeInv, TypeOK, RealRow
  <2>5. MessagesReal'
    BY <2>1, SameQueue
  <2> QED
    BY <1>1, <2>3, <2>4, <2>5
<1>4. CASE MarkPending(s) \/ MarkFailed(s)
  <2>1. PICK status \in {"pending", "failed"}, reason \in Reasons : Save(s, status, reason)
    <3>1. queue[s] # <<>> /\ loaded[s].reason \in Reasons
      BY <1>4 DEF MarkPending, MarkFailed, At, TypeInv, TypeOK, Payment
    <3>2. Head(queue[s]).reason \in Reasons
      BY <3>1, HeadFacts DEF Message
    <3> QED
      BY <1>4, <3>1, <3>2 DEF MarkPending, MarkFailed
  <2>2. queue[s] # <<>> /\ wpc[s] = "mark"
    BY <1>4 DEF MarkPending, MarkFailed, At
  <2>3. /\ payments' \in [PaymentIDs -> Payment]
        /\ \A p \in PaymentIDs : RealRow(payments[p]) => RealRow(payments'[p])
    BY <2>1, <2>2, SaveType DEF Statuses
  <2>4. /\ wpc' = [wpc EXCEPT ![s] = "next"]
        /\ UNCHANGED <<http, cancelled, queue, loaded, balance, attempt, erred,
                       historyVars, walletVars>>
    BY <1>4 DEF MarkPending, MarkFailed, Goto
  <2>5. WorkerTypes' /\ TableTypes'
    BY <1>2, <2>3, <2>4 DEF WorkerTypes, TableTypes, historyVars, walletVars, WalletTypeOK
  <2>6. RowsReal'
    BY <2>3, <2>4, WorkflowAssumption DEF RowsReal, TypeInv, TypeOK, RealRow
  <2>7. MessagesReal'
    BY <2>3, <2>4, SameQueue
  <2> QED
    BY <1>1, <2>5, <2>6, <2>7
<1>5. CASE MarkRejected(s) \/ MarkSucceeded(s)
  <2>1. PICK status \in {"rejected", "succeeded"}, reason \in Reasons : Save(s, status, reason)
    <3>1. queue[s] # <<>> /\ loaded[s].reason \in Reasons
      BY <1>5 DEF MarkRejected, MarkSucceeded, At, TypeInv, TypeOK, Payment
    <3>2. Head(queue[s]).reason \in Reasons
      BY <3>1, HeadFacts DEF Message
    <3> QED
      BY <1>5, <3>1, <3>2 DEF MarkRejected, MarkSucceeded
  <2>2. queue[s] # <<>> /\ wpc[s] = "mark" /\ Return(s)
    BY <1>5 DEF MarkRejected, MarkSucceeded, At
  <2>3. /\ payments' \in [PaymentIDs -> Payment]
        /\ \A p \in PaymentIDs : RealRow(payments[p]) => RealRow(payments'[p])
    BY <2>1, <2>2, SaveType DEF Statuses
  <2>4. UNCHANGED <<http, cancelled, historyVars, walletVars>>
    BY <1>5 DEF MarkRejected, MarkSucceeded
  <2>5. TableTypes'
    BY <1>2, <2>3, <2>4 DEF TableTypes, historyVars, walletVars, WalletTypeOK
  <2>6. WorkerTypes' /\ RowsReal' /\ MessagesReal'
    BY <2>2, <2>3, <2>4, ReturnType
  <2> QED
    BY <1>1, <2>5, <2>6
<1>6. CASE RecoveryInterrupted(s)
  <2>1. /\ ReturnError(s)
        /\ UNCHANGED <<http, cancelled, payments, historyVars, walletVars>>
    BY <1>6 DEF RecoveryInterrupted
  <2>2. WorkerTypes' /\ TableTypes'
    BY <1>2, <2>1, Zeroes
       DEF WorkerTypes, TableTypes, ReturnError, historyVars, walletVars, WalletTypeOK
  <2>3. RowsReal'
    BY <2>1 DEF RowsReal, TypeInv, TypeOK, RealRow, ReturnError
  <2>4. MessagesReal'
    BY <2>1, SameQueue DEF ReturnError
  <2> QED
    BY <1>1, <2>2, <2>3, <2>4
<1>7. CASE RefundRead(s)
  <2>1. /\ queue[s] # <<>>
        /\ balance' = [balance EXCEPT ![s] = wallets[Head(queue[s]).user]]
        /\ wpc' = [wpc EXCEPT ![s] = "refund"]
        /\ UNCHANGED <<http, cancelled, payments, queue, loaded, attempt, erred,
                       historyVars, walletVars>>
    BY <1>7 DEF RefundRead, At, Goto, GetBalance
  <2>2. Head(queue[s]).user \in Users
    BY <2>1, HeadFacts DEF Message
  <2>3. WorkerTypes' /\ TableTypes'
    BY <1>2, <2>1, <2>2
       DEF WorkerTypes, TableTypes, historyVars, walletVars, WalletTypeOK
  <2>4. RowsReal'
    BY <2>1 DEF RowsReal, TypeInv, TypeOK, RealRow
  <2>5. MessagesReal'
    BY <2>1, SameQueue
  <2> QED
    BY <1>1, <2>3, <2>4, <2>5
<1>8. ASSUME NEW ok \in BOOLEAN, RefundWrite(s, ok) PROVE TypeInv'
  <2>1. queue[s] # <<>>
    BY <1>8 DEF RefundWrite, At
  <2>2. /\ Head(queue[s]).user \in Users /\ Head(queue[s]).amount \in 1 .. MaxInt
        /\ Head(queue[s]).pid \in PaymentIDs
    BY <2>1, HeadFacts DEF Message
  <2>3. AddInt64(balance[s], Head(queue[s]).amount) \in Balances
    BY <2>2, AddInt64Type DEF TypeInv, TypeOK
  <2>4. WalletTypeOK'
    BY <1>8, <2>2, <2>3, SetBalanceType DEF RefundWrite, TypeInv, TypeOK
  <2>5. TableTypes'
    BY <1>2, <1>8, <2>2, <2>4 DEF TableTypes, RefundWrite
  <2>6. http' = http /\ payments' = payments
    BY <1>8 DEF RefundWrite
  <2>7. CASE ok
    <3>1. Return(s)
      BY <1>8, <2>7 DEF RefundWrite
    <3> QED
      BY <1>1, <2>1, <2>5, <2>6, <3>1, ReturnType
  <2>8. CASE ~ok
    <3>1. ReturnError(s)
      BY <1>8, <2>8 DEF RefundWrite
    <3>2. WorkerTypes'
      BY <1>2, <3>1, Zeroes DEF WorkerTypes, ReturnError
    <3>3. RowsReal'
      BY <2>6, <3>1 DEF RowsReal, TypeInv, TypeOK, RealRow, ReturnError
    <3>4. MessagesReal'
      BY <2>6, <3>1, SameQueue DEF ReturnError
    <3> QED
      BY <1>1, <2>5, <3>2, <3>3, <3>4
  <2> QED
    BY <2>7, <2>8
<1> QED
  BY <1>3, <1>4, <1>5, <1>6, <1>7, <1>8 DEF HandleWalletRefundRequested

LEMMA InitType == Init => TypeInv
<1> SUFFICES ASSUME Init PROVE TypeInv
  OBVIOUS
<1>1. WalletTypeOK
  BY WalletStoreAssumption DEF Init, WalletInit, WalletTypeOK
<1>2. TypeOK
  BY <1>1, Zeroes DEF Init, TypeOK, MaxAttempts
<1>3. RowsReal /\ MessagesReal
  BY DEF Init, RowsReal, MessagesReal
<1> QED
  BY <1>2, <1>3 DEF TypeInv

LEMMA NextType == TypeInv /\ [Next]_vars => TypeInv'
<1> SUFFICES ASSUME TypeInv, [Next]_vars PROVE TypeInv'
  OBVIOUS
<1>1. CASE UNCHANGED vars
  BY <1>1 DEF vars, workerVars, historyVars, walletVars, TypeInv, TypeOK, WalletTypeOK,
              RowsReal, MessagesReal, RealRow
<1>2. ASSUME NEW r \in Requests, Create(r) \/ ClientDisconnect(r) PROVE TypeInv'
  BY <1>2, CreateType
<1>3. ASSUME NEW s \in Shards, Worker(s) PROVE TypeInv'
  BY <1>3, PublishActionsType, ChargeType, LocalActionsType
     DEF Worker, HandleWalletDebitRequested, HandleWalletDebited, HandleChargeFailed,
         HandleRecoveryRequested
<1> QED
  BY <1>1, <1>2, <1>3 DEF Next

\* Every variable keeps its type, whatever the users, payments, shards and
\* amounts are, with payment ids used twice and writes of wallets.json failing.
THEOREM TypeCorrect == Spec => []TypeOK
<1>1. Spec => []TypeInv
  BY InitType, NextType, PTL DEF Spec
<1> QED
  BY <1>1, PTL DEF TypeInv

=============================================================================
