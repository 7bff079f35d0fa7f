-------------------------- MODULE ReadModelInvariant --------------------------
(***************************************************************************)
(* How the table, the views, the store and the deliveries of ReadModel hang *)
(* together: inductive invariants, from which ReadModelProofs and           *)
(* ReadModelMovementProofs derive the properties of ReadModel.              *)
(***************************************************************************)
EXTENDS ReadModel

\* The deliveries of a queue.
Elems(q) == {q[i] : i \in DOMAIN q}

\* Deliveries about p, those of them for the workflow, and the projector's copy
\* of an event.
About(p) == {d \in Delivery : d.event.of = p}
Workflow(p) == {d \in Delivery : d.to = "workflow" /\ d.event.of = p}
Copy(name, p) == {To("projector", name, p)}

\* In q no delivery of A comes after one of B.  With A = B: q has at most one.
Before(q, A, B) == \A i, j \in DOMAIN q : q[i] \in A /\ q[j] \in B => i <= j

\* The queue of p, what waits in it, and whether the projector's copy of an event
\* does.
QueueOf(p) == queue[ShardOf[p]]
Waiting(p) == Elems(QueueOf(p))
Due(name, p) == To("projector", name, p) \in Waiting(p)

\* The status that replaying the records of p in memory, or in the file, leaves.
Remembered(p) == Replayed(streams[p])
Written(p) == Replayed(lines[p])

\* A delivery waits on the shard of its key.
AtHome(d, s) ==
  /\ ShardOf[KeyOf(d.event)] = s
  /\ d.to = "workflow" => d.event.of \in Payments
  /\ d.event.name \in StatusEvents => d.event.of \in Payments

Home == \A s \in Shards : \A d \in Elems(queue[s]) : AtHome(d, s)

\* A worker in a Mark... handler has the status event of its delivery in hand.
WorkersMark ==
  \A s \in Shards : step[s] # "ready" =>
    /\ queue[s] # <<>> /\ Head(queue[s]).to = "workflow"
    /\ step[s] \in {"file", "publish"}
    /\ Head(queue[s]).event.name \in DOMAIN Marks
    /\ hand[s] = [name |-> Marks[Head(queue[s]).event.name], of |-> Head(queue[s]).event.of]

\* A request has its own events in hand, in the order of Create.
RequestsOwn ==
  \A r \in Requests : step[r] # "ready" =>
    /\ http[r] = "running"
    /\ hand[r].of = r
    /\ r \in Credits => hand[r].name = "wallet.credited"
    /\ r \in Payments => hand[r].name \in {"payment.created", "payment.initialized"}

\* The worker of p's shard is in a Mark... handler for p.
Marking(p) == step[ShardOf[p]] # "ready" /\ hand[ShardOf[p]].of = p

\* The order of the deliveries about p in q.
InOrder(q, p) ==
  /\ Before(q, Workflow(p), Workflow(p))
  /\ Before(q, Copy("payment.initialized", p), Copy("payment.initialized", p))
  /\ Before(q, Copy("payment.created", p), About(p))
  /\ Before(q, Copy("payment.pending", p),
            Copy("payment.completed", p) \union Copy("payment.failed", p))

Ordered(p) == InOrder(QueueOf(p), p)

\* Create has the whole beginning of p in the store before the workflow sees it.
CreateFirst(p) ==
  /\ http[p] = "start" => table[p] = "none" /\ lines[p] = <<>>
  /\ table[p] = "none" =>
       /\ step[p] = "ready"
       /\ Waiting(p) \intersect About(p) = {}
       /\ view[p] = Written(p) /\ lines[p] = streams[p]
  /\ step[p] \in {"file", "publish"} =>
       /\ table[p] = "initialized"
       /\ Waiting(p) \intersect Workflow(p) = {}
       /\ hand[p].name = "payment.created" =>
            view[p] = "none" /\ Waiting(p) \intersect About(p) = {}
       /\ hand[p].name = "payment.created" /\ step[p] = "file" => lines[p] = <<>>
  /\ step[p] = "announce" => hand[p].name = "payment.initialized"
  /\ Due("payment.initialized", p) => http[p] = "accepted"

\* Where the table stands when the workflow comes to an event of p.
TableAt(name) ==
  CASE name \in {"payment.initialized", "wallet.debit_requested",
                 "wallet.debited", "wallet.debit_rejected"} -> {"initialized"}
    [] name \in {"payment.charge_requested", "payment.charge_succeeded",
                 "payment.charge_failed"}                   -> {"pending"}
    [] name = "wallet.refund_requested"                     -> {"failed"}
    [] name = "recovery.requested"                          -> {"initialized", "pending"}
    [] OTHER                                                -> {}

\* The table is where the delivery of the workflow expects it, or where the
\* handler has just brought it.
TableInPosition(p) ==
  IF Marking(p)
  THEN table[p] = StatusOf[hand[ShardOf[p]].name] /\ view[p] # table[p]
  ELSE \A d \in Waiting(p) \intersect Workflow(p) : table[p] \in TableAt(d.event.name)

\* The statuses a view may show while the table is at status.
Behind(status) ==
  {"none", "initialized", status}
    \union (IF status \in {"succeeded", "failed"} THEN {"pending"} ELSE {})

\* The view is behind the table, and the events that lead it there are on their way.
ViewBehind(p) ==
  /\ table[p] # "none" => view[p] \in Behind(table[p])
  /\ Due("payment.created", p) => view[p] = "none" /\ table[p] = "initialized"
  /\ table[p] # "none" /\ view[p] = "none" =>
       \/ Due("payment.created", p)
       \/ step[p] \in {"file", "publish"} /\ hand[p].name = "payment.created"
  /\ Due("payment.pending", p) =>
       view[p] \in {"initialized", "pending"} /\ table[p] \in {"pending", "succeeded", "failed"}
  /\ \A name \in {"payment.rejected", "payment.completed", "payment.failed"} :
       Due(name, p) => table[p] = StatusOf[name]
  /\ /\ table[p] \in {"succeeded", "failed"}
     /\ view[p] = "pending" \/ Due("payment.pending", p)
     => Marking(p) \/ Due("payment.completed", p) \/ Due("payment.failed", p)

\* The status that the records before an event leave.
Earlier(name) ==
  CASE name = "payment.created"                                             -> "none"
    [] name \in {"payment.initialized", "payment.pending", "payment.rejected"} -> "initialized"
    [] OTHER                                                                -> "pending"

\* Thread t is between the halves of Append for p.
Writes(t, p) == step[t] = "file" /\ hand[t].of = p

\* The records of p: those in memory lead where the table is, and those in the
\* file are one behind while that one is being written.
RecordsInOrder(p) ==
  /\ Written(p) \in Statuses
  /\ table[p] # "none" => Remembered(p) = table[p]
  /\ p \notin unsaved =>
       /\ ~Writes(p, p) /\ ~Writes(ShardOf[p], p) => lines[p] = streams[p]
       /\ \A t \in {p, ShardOf[p]} : Writes(t, p) =>
            /\ streams[p] = Append(lines[p], hand[t])
            /\ Written(p) = Earlier(hand[t].name)

\* The same for a credit, wherever its record is among those of its user.
CreditInOrder(c) ==
  LET e == [name |-> "wallet.credited", of |-> c] IN
  c \notin unsaved =>
    Occurrences(streams[Owner[c]], e) =
      Occurrences(lines[Owner[c]], e) + (IF step[c] = "file" THEN 1 ELSE 0)

PaymentInv(p) ==
  Ordered(p) /\ CreateFirst(p) /\ TableInPosition(p) /\ ViewBehind(p) /\ RecordsInOrder(p)

\* The table, the view, the store and the deliveries of every payment are in step,
\* whatever the requests and the workers of other payments do between the steps of
\* its own, and after every crash: what FileFollowsMemory, ViewsAgree and
\* ImplementsReads need to be preserved by every step.  (handlers/payment.go,
\* the Mark... handlers, projector.go and kit/db/store.go together.)
ReadInv ==
  /\ TypeOK /\ Home /\ WorkersMark /\ RequestsOwn
  /\ \A p \in Payments : PaymentInv(p)
  /\ \A c \in Credits : CreditInOrder(c)

-----------------------------------------------------------------------------
(* The movements in the wallet views. *)

Debited(p) == [name |-> "wallet.debited", of |-> p]
Refunded(p) == [name |-> "wallet.refunded", of |-> p]
Credited(c) == [name |-> "wallet.credited", of |-> c]

\* The queue of a movement, the projector's delivery of it, whether that waits
\* there, and whether the movement is in the view or will be.
MovementQueue(m) == queue[ShardOf[KeyOf(m)]]
DeliveryOf(m) == To("projector", m.name, m.of)
Owed(m) == DeliveryOf(m) \in Elems(MovementQueue(m))
Known(m) == moved[m] = 1 \/ Owed(m)

\* A movement is applied, or waits to be, and that once.
MovementOnce(m) ==
  /\ Before(MovementQueue(m), {DeliveryOf(m)}, {DeliveryOf(m)})
  /\ moved[m] \in {0, 1}
  /\ Owed(m) => moved[m] = 0

\* The records of c in the file.
CreditLines(c) == Occurrences(lines[Owner[c]], Credited(c))

\* A credit is published once, and after its record was written, if it was.
CreditFollowed(c) ==
  /\ CreditLines(c) \in {0, 1}
  /\ http[c] = "start" \/ step[c] = "file" => CreditLines(c) = 0
  /\ http[c] = "running" => step[c] \in {"file", "publish"}
  /\ http[c] \in {"start", "running"} => ~Known(Credited(c))
  /\ c \notin unsaved =>
       /\ step[c] = "publish" \/ http[c] = "accepted" => CreditLines(c) = 1
       /\ http[c] = "accepted" => Known(Credited(c))

\* The debit of p is known from when the wallet reports it until a crash, and the
\* refund only when the workflow is done with a failed payment.  Neither leaves a
\* record that a restart could apply again.
PaymentMovements(p) ==
  /\ Known(Debited(p)) <=>
       \/ table[p] \in {"pending", "succeeded", "failed"}
       \/ To("workflow", "wallet.debited", p) \in Waiting(p)
  /\ Known(Refunded(p)) =>
       table[p] = "failed" /\ ~Marking(p) /\ Waiting(p) \intersect Workflow(p) = {}
  /\ \A m \in {Debited(p), Refunded(p)} : Occurrences(lines[p], m) = 0

\* Every movement is on its way to its wallet view or in it, at most once, and in
\* step with the request or the payment it comes from: what MovementsOnce needs,
\* beside ReadInv, to be preserved by every step.  (projector.go:237,
\* handlers/wallet.go, wallet/service.go and the Mark... handlers together.)
MovesInv ==
  /\ \A m \in Movement : MovementOnce(m)
  /\ \A c \in Credits : CreditFollowed(c)
  /\ \A p \in Payments : PaymentMovements(p)

-----------------------------------------------------------------------------
(* What a failed write costs. *)

\* What FailuresLoseTheirOwn needs, beside ReadInv, to be preserved by every step: the
\* record that is being written is the last one in memory.
LossInv(p) ==
  /\ AmongFirst(lines[p], streams[p], Past(p))
  /\ fileOpen => Past(p) <= Len(lines[p]) + writeFailures
  /\ \A t \in Threads : Writes(t, p) =>
       streams[p] # <<>> /\ streams[p][Len(streams[p])] = hand[t]

-----------------------------------------------------------------------------
(* The records that a restart replays. *)

\* Applying records one by one, as Replay does: the reference for Replayed.
AppliedInOrder(records) ==
  LET after[n \in 0 .. Len(records)] ==
        IF n = 0 THEN "none" ELSE Apply(records[n].name, after[n - 1])
  IN after[Len(records)]

\* The records of a payment are of its status events: no handler appends another
\* event under a payment's id.
StatusRecords(l) == \A i \in DOMAIN l : l[i].name \in StatusEvents

===============================================================================
