------------------------------- MODULE ReadModel -------------------------------
(***************************************************************************)
(* What GET /payments/ and GET /wallet/ answer from: the projector's views *)
(* in memory, fed by the bus, and rebuilt from the event store when the    *)
(* process starts.                                                         *)
(*                                                                         *)
(* The publishers are here as far as the views depend on them: Create and  *)
(* Credit of cmd/web and the workers of the bus save an event in the       *)
(* payments table, in the store's memory and in its file, one after the    *)
(* other, and only then publish it.  How a payment is debited, charged,    *)
(* retried and recovered is PaymentWorkflow's subject; here the money      *)
(* handlers choose any outcome they have.                                  *)
(*                                                                         *)
(* The projector is one subscriber among others, and Publish enqueues a    *)
(* delivery for each.  All events of one payment go to one shard.  A       *)
(* worker that publishes there does so in one step: only Create can come   *)
(* between its deliveries, and with nothing that they change.  Create      *)
(* enqueues payment.initialized in two steps, for the worker may take the  *)
(* first delivery before the second one is there.                          *)
(*                                                                         *)
(* Left out: the subscribers that only observe (audit, metrics,            *)
(* notification), the limit of a shard's buffer, and payment ids that are  *)
(* used twice.  Every field of a view but the status and the balance is    *)
(* copied from the event.                                                  *)
(***************************************************************************)
EXTENDS EventStore, FiniteSets

CONSTANTS
  Payments,    \* payment ids, each used by one POST /payments
  Credits,     \* the POST /wallet/credit requests
  Users,
  Owner,       \* the user a credit is for
  Shards,      \* the bus's shards, one worker each
  ShardOf,     \* shardForKey: the shard of a payment id or a user id
  MaxRestarts  \* bound: how often the process is started again

\* Goroutines: one for each request and one for each shard.
Requests == Payments \union Credits
Threads == Requests \union Shards

-----------------------------------------------------------------------------
(* The events, and who subscribes to them. *)

\* Events with a handler of the workflow.
Handled == {"payment.initialized", "wallet.debit_requested", "wallet.debited",
            "wallet.debit_rejected", "payment.charge_requested",
            "payment.charge_succeeded", "payment.charge_failed",
            "wallet.refund_requested", "recovery.requested"}

\* Events the projector applies to a payment view.
StatusEvents == {"payment.created", "payment.initialized", "payment.pending",
                 "payment.rejected", "payment.completed", "payment.failed"}

\* Events the projector applies to a wallet view.
MovementEvents == {"wallet.debited", "wallet.refunded", "wallet.credited"}

Projected == StatusEvents \union MovementEvents

\* of is the payment or the credit that the event is about.
Event == [name : Handled \union Projected, of : Requests]

\* A change of a wallet's balance.
Movement == [name : {"wallet.debited", "wallet.refunded"}, of : Payments]
              \union [name : {"wallet.credited"}, of : Credits]

\* PartitionKey, and the aggregate id that Append is given.
KeyOf(e) == IF e.of \in Payments THEN e.of ELSE Owner[e.of]

ASSUME ReadModelAssumption ==
  /\ Owner \in [Credits -> Users]
  /\ ShardOf \in [Payments \union Users -> Shards]
  /\ MaxRestarts \in Nat
  /\ Payments \intersect Credits = {}
  /\ Requests \intersect Shards = {}
  /\ Payments \intersect Users = {}
  /\ Aggregates = Payments \union Users
  /\ Records = Event

Statuses == {"none", "initialized", "pending", "rejected", "succeeded", "failed"}

\* Mutant: a payment is completed, as its event says, instead of succeeded.
StatusOfEventName ==
  [name \in StatusEvents |->
     CASE name = "payment.pending"   -> "pending"
       [] name = "payment.rejected"  -> "rejected"
       [] name = "payment.completed" -> "completed"
       [] name = "payment.failed"    -> "failed"
       [] OTHER                      -> "initialized"]

\* The status an event brings to the payment view.
StatusOf ==
  [name \in StatusEvents |->
     CASE name = "payment.pending"   -> "pending"
       [] name = "payment.rejected"  -> "rejected"
       [] name = "payment.completed" -> "succeeded"
       [] name = "payment.failed"    -> "failed"
       [] OTHER                      -> "initialized"]

\* The status event that a Mark... handler records.
Marks ==
  [name \in {"wallet.debited", "wallet.debit_rejected",
             "payment.charge_succeeded", "payment.charge_failed"} |->
     CASE name = "wallet.debited"           -> "payment.pending"
       [] name = "wallet.debit_rejected"    -> "payment.rejected"
       [] name = "payment.charge_succeeded" -> "payment.completed"
       [] name = "payment.charge_failed"    -> "payment.failed"]

VARIABLES
  http,      \* how far each request got
  step,      \* what each goroutine does next with the event it has in hand
  hand,      \* that event
  table,     \* the statuses of the payments table
  queue,     \* deliveries of each shard; the head is being handled
  view,      \* the statuses of the projector's payment views
  moved,     \* how often each movement is in the balance of its wallet view
  restarts,
  unsaved    \* requests with an event that Append returned without writing

readVars == <<http, step, hand, table, queue, view, moved, restarts, unsaved>>
vars == <<readVars, storeVars>>


\* No goroutine has an event in hand at first; this one is never looked at.
Nothing == CHOOSE e \in Event : TRUE

Init ==
  /\ StoreInit
  /\ http = [r \in Requests |-> "start"]
  /\ step = [t \in Threads |-> "ready"]
  /\ hand = [t \in Threads |-> Nothing]
  /\ table = [p \in Payments |-> "none"]
  /\ queue = [s \in Shards |-> <<>>]
  /\ view = [p \in Payments |-> "none"]
  /\ moved = [m \in Movement |-> 0]
  /\ restarts = 0
  /\ unsaved = {}

-----------------------------------------------------------------------------
(* Append and Publish, as every publisher calls them. *)

\* The first half of Append: t has e in hand, whose line is not written yet.
BeginAppend(t, e) ==
  /\ AppendToMemory(KeyOf(e), e)
  /\ hand' = [hand EXCEPT ![t] = e]
  /\ step' = [step EXCEPT ![t] = "file"]

\* The second half.  Whatever becomes of the line, the caller goes on to publish.
FinishAppend(t) ==
  /\ step[t] = "file"
  /\ \/ AppendToFile(KeyOf(hand[t]), hand[t]) /\ UNCHANGED unsaved
     \/ /\ FileIsClosed \/ \E torn \in BOOLEAN : WriteFails(torn)
        /\ unsaved' = unsaved \union {hand[t].of}
  /\ step' = [step EXCEPT ![t] = "publish"]
  /\ UNCHANGED <<http, hand, table, queue, view, moved, restarts>>

\* t is done with the event it had in hand.
PutDown(t) ==
  /\ step' = [step EXCEPT ![t] = "ready"]
  /\ hand' = [hand EXCEPT ![t] = Nothing]

\* t is about to publish an event called name.
AtPublish(t, name) == step[t] = "publish" /\ hand[t].name = name

Delivery == [to : {"workflow", "projector"}, event : Event]

To(subscriber, name, r) ==
  [to |-> subscriber, event |-> [name |-> name, of |-> r]]

\* The deliveries of an event: the workflow subscribes before the projector.
Copies(name, r) ==
  (IF name \in Handled THEN <<To("workflow", name, r)>> ELSE <<>>)
    \o (IF name \in Projected THEN <<To("projector", name, r)>> ELSE <<>>)

-----------------------------------------------------------------------------
(* POST /payments: Payment.Create. *)

\* Initialize saves the row, and Append begins with payment.created.
CreateSave(p) ==
  /\ http[p] = "start"
  /\ http' = [http EXCEPT ![p] = "running"]
  /\ table' = [table EXCEPT ![p] = "initialized"]
  /\ BeginAppend(p, [name |-> "payment.created", of |-> p])
  /\ UNCHANGED <<queue, view, moved, restarts, unsaved>>

\* Publish payment.created, and begin to append payment.initialized.
CreatePublishCreated(p) ==
  /\ AtPublish(p, "payment.created")
  /\ queue' = [queue EXCEPT ![ShardOf[p]] = @ \o Copies("payment.created", p)]
  /\ BeginAppend(p, [name |-> "payment.initialized", of |-> p])
  /\ UNCHANGED <<http, table, view, moved, restarts, unsaved>>

\* Publish payment.initialized: the delivery to the workflow.
CreatePublishInitialized(p) ==
  /\ AtPublish(p, "payment.initialized")
  /\ queue' = [queue EXCEPT ![ShardOf[p]] =
                 Append(@, To("workflow", "payment.initialized", p))]
  /\ step' = [step EXCEPT ![p] = "announce"]
  /\ UNCHANGED <<http, hand, table, view, moved, restarts, unsaved, storeVars>>

\* Publish payment.initialized: the delivery to the projector.  202 follows.
CreateAnnounce(p) ==
  /\ step[p] = "announce"
  /\ queue' = [queue EXCEPT ![ShardOf[p]] =
                 Append(@, To("projector", "payment.initialized", p))]
  /\ http' = [http EXCEPT ![p] = "accepted"]
  /\ PutDown(p)
  /\ UNCHANGED <<table, view, moved, restarts, unsaved, storeVars>>

-----------------------------------------------------------------------------
(* POST /wallet/credit: Wallet.Credit, once the service changed the balance. *)

CreditSave(c) ==
  /\ http[c] = "start"
  /\ http' = [http EXCEPT ![c] = "running"]
  /\ BeginAppend(c, [name |-> "wallet.credited", of |-> c])
  /\ UNCHANGED <<table, queue, view, moved, restarts, unsaved>>

\* Mutant: the credit is saved but not published.
CreditPublishSilent(c) ==
  /\ AtPublish(c, "wallet.credited")
  /\ http' = [http EXCEPT ![c] = "accepted"]
  /\ PutDown(c)
  /\ UNCHANGED <<table, queue, view, moved, restarts, unsaved, storeVars>>

\* 204 follows.
CreditPublish(c) ==
  /\ AtPublish(c, "wallet.credited")
  /\ queue' = [queue EXCEPT ![ShardOf[Owner[c]]] = @ \o Copies("wallet.credited", c)]
  /\ http' = [http EXCEPT ![c] = "accepted"]
  /\ PutDown(c)
  /\ UNCHANGED <<table, view, moved, restarts, unsaved, storeVars>>

-----------------------------------------------------------------------------
(* The workers. *)

\* The worker of s has a delivery to subscriber at the head of its queue, and
\* is not in the middle of a Mark... handler.
Takes(s, subscriber) ==
  /\ queue[s] # <<>>
  /\ step[s] = "ready"
  /\ Head(queue[s]).to = subscriber

\* What the handlers of WalletEvent and PaymentEvent publish.
Outcomes(name) ==
  CASE name = "payment.initialized"      -> {"wallet.debit_requested"}
    [] name = "wallet.debit_requested"   -> {"wallet.debited", "wallet.debit_rejected",
                                             "recovery.requested"}
    [] name = "payment.charge_requested" -> {"payment.charge_succeeded",
                                             "payment.charge_failed", "recovery.requested"}
    [] name = "wallet.refund_requested"  -> {"wallet.refunded"}
    [] OTHER                             -> {}

\* The handler publishes outcome and returns.
HandleMoney(s, outcome) ==
  LET e == Head(queue[s]).event IN
  /\ Takes(s, "workflow")
  /\ outcome \in Outcomes(e.name)
  /\ queue' = [queue EXCEPT ![s] = Tail(@) \o Copies(outcome, e.of)]
  /\ UNCHANGED <<http, step, hand, table, view, moved, restarts, unsaved, storeVars>>

\* HandleRecoveryRequested, when its context lives until the delay is over.  The
\* action of the request is payment.charge if the wallet was debited.
Recover(s) ==
  LET e == Head(queue[s]).event IN
  /\ Takes(s, "workflow")
  /\ e.name = "recovery.requested"
  /\ queue' = [queue EXCEPT ![s] =
                 Tail(@) \o Copies(IF table[e.of] = "pending" THEN "payment.charge_requested"
                                                              ELSE "wallet.debit_requested", e.of)]
  /\ UNCHANGED <<http, step, hand, table, view, moved, restarts, unsaved, storeVars>>

\* Mutant: the status event is appended, but the row is not saved.
MarkSaveUnsaved(s) ==
  LET e == Head(queue[s]).event IN
  /\ Takes(s, "workflow")
  /\ e.name \in DOMAIN Marks
  /\ BeginAppend(s, [name |-> Marks[e.name], of |-> e.of])
  /\ UNCHANGED <<http, table, queue, view, moved, restarts, unsaved>>

\* A Mark... method: save the row, and begin to append the status event.
MarkSave(s) ==
  LET e == Head(queue[s]).event IN
  /\ Takes(s, "workflow")
  /\ e.name \in DOMAIN Marks
  /\ table' = [table EXCEPT ![e.of] = StatusOf[Marks[e.name]]]
  /\ BeginAppend(s, [name |-> Marks[e.name], of |-> e.of])
  /\ UNCHANGED <<http, queue, view, moved, restarts, unsaved>>

\* What the handlers of e publish after the status event.
FollowUps(e) ==
  CASE e.name = "wallet.debited"        -> Copies("payment.charge_requested", e.of)
    [] e.name = "payment.charge_failed" -> Copies("wallet.refund_requested", e.of)
    [] OTHER                            -> <<>>

\* Publish the status event and what follows it, and return.
MarkPublish(s) ==
  LET e == Head(queue[s]).event IN
  /\ step[s] = "publish"
  /\ queue' = [queue EXCEPT ![s] = Tail(@) \o Copies(hand[s].name, e.of) \o FollowUps(e)]
  /\ PutDown(s)
  /\ UNCHANGED <<http, table, view, moved, restarts, unsaved, storeVars>>

-----------------------------------------------------------------------------
(* The projector. *)

\* Mutant: a status that is not initialized is taken to be final.
ApplyOnce(name, status) ==
  IF status \notin {"none", "initialized"} THEN status ELSE StatusOf[name]

\* How a status event changes a payment view: applyPaymentCreated leaves a
\* status that is already there, the others overwrite it.
Apply(name, status) ==
  IF name = "payment.created" /\ status # "none" THEN status ELSE StatusOf[name]

\* The worker of s runs Projector.Apply on an event of a payment view.
ProjectStatus(s) ==
  LET e == Head(queue[s]).event IN
  /\ Takes(s, "projector")
  /\ e.name \in StatusEvents
  /\ view' = [view EXCEPT ![e.of] = Apply(e.name, @)]
  /\ queue' = [queue EXCEPT ![s] = Tail(@)]
  /\ UNCHANGED <<http, step, hand, table, moved, restarts, unsaved, storeVars>>

\* Mutant: the projector fails after it has applied the movement, and the bus
\* calls it again.
ProjectMovementAgain(s) ==
  LET e == Head(queue[s]).event IN
  /\ Takes(s, "projector")
  /\ e.name \in MovementEvents
  /\ moved[e] < 2
  /\ moved' = [moved EXCEPT ![e] = @ + 1]
  /\ UNCHANGED <<http, step, hand, table, queue, view, restarts, unsaved, storeVars>>

\* The worker of s runs Projector.Apply on an event of a wallet view.
ProjectMovement(s) ==
  LET e == Head(queue[s]).event IN
  /\ Takes(s, "projector")
  /\ e.name \in MovementEvents
  /\ moved' = [moved EXCEPT ![e] = @ + 1]
  /\ queue' = [queue EXCEPT ![s] = Tail(@)]
  /\ UNCHANGED <<http, step, hand, table, view, restarts, unsaved, storeVars>>

\* The status that the records of a payment leave when they are applied in
\* order: that of the last one that is not payment.created.
Replayed(records) ==
  LET overwriting == {i \in DOMAIN records : records[i].name # "payment.created"}
  IN CASE overwriting # {} -> StatusOf[records[CHOOSE i \in overwriting :
                                         \A j \in overwriting : j <= i].name]
       [] records = <<>>   -> "none"
       [] OTHER            -> "initialized"

\* How often a movement is applied when the records of its wallet are.
Occurrences(records, m) == Cardinality({i \in DOMAIN records : records[i] = m})

\* Mutant: the store is opened, but not replayed.
RestartWithoutReplay ==
  /\ restarts < MaxRestarts
  /\ restarts' = restarts + 1
  /\ ReopenStore
  /\ http' = [r \in Requests |-> IF http[r] = "running" THEN "cut" ELSE http[r]]
  /\ step' = [t \in Threads |-> "ready"]
  /\ hand' = [t \in Threads |-> Nothing]
  /\ table' = [p \in Payments |-> "none"]
  /\ queue' = [s \in Shards |-> <<>>]
  /\ view' = [p \in Payments |-> "none"]
  /\ moved' = [m \in Movement |-> 0]
  /\ UNCHANGED unsaved

\* The process ends, in the middle of anything or in the course of Shutdown, and
\* another one starts: NewWithFile, and Replay into empty views.
Restart ==
  /\ restarts < MaxRestarts
  /\ restarts' = restarts + 1
  /\ ReopenStore
  /\ http' = [r \in Requests |-> IF http[r] = "running" THEN "cut" ELSE http[r]]
  /\ step' = [t \in Threads |-> "ready"]
  /\ hand' = [t \in Threads |-> Nothing]
  /\ table' = [p \in Payments |-> "none"]
  /\ queue' = [s \in Shards |-> <<>>]
  /\ view' = [p \in Payments |-> Replayed(lines[p])]
  /\ moved' = [m \in Movement |-> Occurrences(lines[KeyOf(m)], m)]
  /\ UNCHANGED unsaved

\* ListenAndServe has failed and main returns: its deferred calls close the store
\* before the bus, whose workers go on until then.
Shutdown == CloseStore /\ UNCHANGED readVars

-----------------------------------------------------------------------------

CreateGoesOn(p) ==
  CreatePublishCreated(p) \/ CreatePublishInitialized(p) \/ CreateAnnounce(p)

Worker(s) ==
  \/ \E outcome \in Handled \union Projected : HandleMoney(s, outcome)
  \/ MarkSave(s)
  \/ MarkPublish(s)
  \/ ProjectStatus(s)
  \/ ProjectMovement(s)

Next ==
  \/ \E p \in Payments : CreateSave(p) \/ CreateGoesOn(p)
  \/ \E c \in Credits : CreditSave(c) \/ CreditPublish(c)
  \/ \E s \in Shards : Worker(s) \/ Recover(s)
  \/ \E t \in Threads : FinishAppend(t)
  \/ Shutdown
  \/ Restart

Spec == Init /\ [][Next]_vars

\* Goroutines run.  Clients need not send anything, nothing has to fail or to
\* be restarted, and a recovery request may never be over (PaymentWorkflow).
Fairness ==
  /\ \A t \in Threads : WF_vars(FinishAppend(t))
  /\ \A p \in Payments : WF_vars(CreateGoesOn(p))
  /\ \A c \in Credits : WF_vars(CreditPublish(c))
  /\ \A s \in Shards : WF_vars(Worker(s))

FairSpec == Spec /\ Fairness

-----------------------------------------------------------------------------
(* Properties. *)

\* The type of the state.
TypeOK ==
  /\ StoreTypeOK
  /\ http \in [Requests -> {"start", "running", "accepted", "cut"}]
  /\ step \in [Threads -> {"ready", "file", "publish", "announce"}]
  /\ hand \in [Threads -> Event]
  /\ table \in [Payments -> Statuses]
  /\ queue \in [Shards -> Seq(Delivery)]
  /\ view \in [Payments -> Statuses]
  /\ moved \in [Movement -> Nat]
  /\ restarts \in 0 .. MaxRestarts
  /\ unsaved \subseteq Requests

\* Some goroutine is between the two halves of Append with e.
Writing(e) == \E t \in Threads : step[t] = "file" /\ hand[t] = e

\* The two halves of Append take two locks, and a line may be lost: still, for
\* every payment whose writes succeeded the file has the records of the memory
\* in the same order, but for the one that is being written; and it has every
\* credit, if not in the same order, once as the memory does.  (kit/db/store.go:124;
\* it needs unique payment ids and Create to append before it publishes.)
FileFollowsMemory ==
  /\ \A p \in Payments \ unsaved :
       \/ lines[p] = streams[p]
       \/ /\ streams[p] # <<>>
          /\ Writing(streams[p][Len(streams[p])])
          /\ lines[p] = SubSeq(streams[p], 1, Len(streams[p]) - 1)
  /\ \A c \in Credits \ unsaved :
       LET e == [name |-> "wallet.credited", of |-> c] IN
       Occurrences(streams[Owner[c]], e) =
         Occurrences(lines[Owner[c]], e) + (IF Writing(e) THEN 1 ELSE 0)

\* The records of p in memory but for one that is being written.
Past(p) ==
  Len(streams[p]) - (IF \E t \in Threads : step[t] = "file" /\ hand[t].of = p THEN 1 ELSE 0)

\* The records l are among the first n of m, in the order of m.
AmongFirst(l, m, n) ==
  \A j \in DOMAIN l :
    \E k \in 1 .. n : m[k] = l[j] /\ \A i \in 1 .. j - 1 : \E h \in 1 .. k - 1 : m[h] = l[i]

\* A failed write loses its own record and nothing else (store.go:147).  Whatever
\* Append has lost of a payment, and whoever wrote before and after: what the file has
\* of it is in the order of the memory, nothing is there that memory has not, and
\* until main closes the file it lacks one record at most for each write that went
\* wrong.  So a restart sets a payment back by no more statuses than writes failed.
FailuresLoseTheirOwn ==
  \A p \in Payments :
    /\ AmongFirst(lines[p], streams[p], Past(p))
    /\ fileOpen => Past(p) <= Len(lines[p]) + writeFailures

\* Deliveries of an event to the projector that are queued.
Queued(e) ==
  LET s == ShardOf[KeyOf(e)] IN
  {i \in DOMAIN queue[s] : queue[s][i] = [to |-> "projector", event |-> e]}

\* How often a movement is in its wallet view, or will be.
Counted(m) == moved[m] + Cardinality(Queued(m))

\* Applying a movement twice changes a balance twice (projector.go:247): none is
\* ever counted twice, whichever workers, publishers and restarts come between;
\* an accepted credit is counted also after a restart, if it was written; and as
\* long as the process lives a payment's debit is counted if it was not rejected,
\* and a refund only if it failed.
MovementsOnce ==
  /\ \A m \in Movement : Counted(m) <= 1
  /\ \A c \in Credits \ unsaved :
       http[c] = "accepted" => Counted([name |-> "wallet.credited", of |-> c]) = 1
  /\ \A p \in Payments :
       LET debited == Counted([name |-> "wallet.debited", of |-> p])
           refunded == Counted([name |-> "wallet.refunded", of |-> p])
       IN /\ table[p] \in {"pending", "succeeded", "failed"} => debited = 1
          /\ table[p] \in {"none", "rejected"} => debited = 0
          /\ table[p] # "failed" => refunded = 0

\* Nothing that will change the view of p is on its way.
Quiet(p) ==
  /\ \A name \in StatusEvents : Queued([name |-> name, of |-> p]) = {}
  /\ \A t \in Threads : step[t] # "ready" => hand[t].of # p

\* The table and the view are fed by different goroutines.  When nothing is on
\* its way, a payment's view agrees with the table, or was set back to initialized:
\* the worker can run ahead of Create, which enqueues payment.initialized for the
\* workflow before it does for the projector (bus.go:104, projector.go:180).
ViewsAgree ==
  \A p \in Payments :
    Quiet(p) /\ table[p] # "none" => view[p] \in {table[p], "initialized"}

\* GET /payments/ asks the view and, if that has no entry, the table.
Answer == [p \in Payments |-> IF view[p] # "none" THEN view[p] ELSE table[p]]

\* payment.initialized has been applied to the view of p, or lost in a crash.
Announced(p) ==
  /\ http[p] \in {"accepted", "cut"}
  /\ Queued([name |-> "payment.initialized", of |-> p]) = {}

Reads == INSTANCE PaymentReads
  WITH answer    <- Answer,
       announced <- {p \in Payments : Announced(p)},
       accepted  <- {p \in Payments : http[p] = "accepted"},
       unsaved   <- unsaved \intersect Payments

\* What a client reads of a payment, from the view or from the table, before and
\* after crashes, goes forward as PaymentReads says.
ImplementsReads == Reads!ReadsSpec

\* The worker of s waits for the delay of a recovery request.
Held(s) ==
  /\ queue[s] # <<>>
  /\ step[s] = "ready"
  /\ Head(queue[s]).event.name = "recovery.requested"

\* The views catch up: unless a recovery request holds up its shard for ever, an
\* accepted credit is in the balance in the end, and the view of a payment comes
\* to agree with the table, crashes and failed writes apart.
ViewsCatchUp ==
  /\ \A c \in Credits :
       <>[]Held(ShardOf[Owner[c]])
         \/ (http[c] = "accepted" ~>
               moved[[name |-> "wallet.credited", of |-> c]] = 1 \/ c \in unsaved)
  /\ \A p \in Payments :
       <>[]Held(ShardOf[p])
         \/ <>[](table[p] = "none" \/ view[p] \in {table[p], "initialized"})

-----------------------------------------------------------------------------
(* What the documentation says of the read model and the code does not do. *)

\* README:110: "Replay(ctx, store) rebuilds state by reading all records from the
\* store."  What a wallet view counted before a restart it counts afterwards, if
\* every event was written to the file.
ReplayRebuildsViews ==
  [][restarts' # restarts /\ unsaved = {} =>
       \A m \in Movement : moved[m] > 0 => moved'[m] > 0]_vars

=============================================================================
