---------------------------- MODULE ReadModelProofs ----------------------------
(***************************************************************************)
(* Proofs about ReadModel: ReadInv is inductive, so the file follows the   *)
(* memory, the views come to agree with the table, and what GET /payments/ *)
(* answers goes forward as PaymentReads says.  For any number of payments, *)
(* credits, shards, failed writes and restarts.                            *)
(***************************************************************************)
EXTENDS ReadModelInvariant, FiniteSetTheorems, SequenceTheorems, TLAPS

-----------------------------------------------------------------------------
(* Queues. *)

\* What is in a queue after a delivery was taken from it.
LEMMA TailFacts ==
  ASSUME NEW M, NEW q \in Seq(M), q # <<>>
  PROVE  /\ Tail(q) \in Seq(M) /\ Head(q) \in M /\ Head(q) \in Elems(q)
         /\ \A d : d \in Elems(q) <=> d = Head(q) \/ d \in Elems(Tail(q))
<1>1. Tail(q) \in Seq(M) /\ Head(q) \in M /\ 1 \in DOMAIN q /\ Head(q) = q[1]
  OBVIOUS
<1>2. \A i \in DOMAIN Tail(q) : i + 1 \in DOMAIN q /\ Tail(q)[i] = q[i + 1]
  OBVIOUS
<1>3. ASSUME NEW i \in DOMAIN q, i # 1
      PROVE  i - 1 \in DOMAIN Tail(q) /\ Tail(q)[i - 1] = q[i]
  <2>1. i \in 2 .. Len(q) /\ DOMAIN Tail(q) = 1 .. Len(q) - 1
    BY <1>3
  <2>2. i - 1 \in DOMAIN Tail(q)
    BY <2>1
  <2> QED
    BY <2>1, <2>2
<1>4. ASSUME NEW d, d \in Elems(q) PROVE d = Head(q) \/ d \in Elems(Tail(q))
  <2>1. PICK i \in DOMAIN q : d = q[i]
    BY <1>4 DEF Elems
  <2> QED
    BY <1>1, <1>3, <2>1 DEF Elems
<1>5. ASSUME NEW d, d \in Elems(Tail(q)) PROVE d \in Elems(q)
  <2>1. PICK i \in DOMAIN Tail(q) : d = Tail(q)[i]
    BY <1>5 DEF Elems
  <2> QED
    BY <1>2, <2>1 DEF Elems
<1>6. Head(q) \in Elems(q)
  BY <1>1 DEF Elems
<1> QED
  BY <1>1, <1>4, <1>5, <1>6

\* And after deliveries were put behind it.
LEMMA ConcatFacts ==
  ASSUME NEW M, NEW q \in Seq(M), NEW n \in Seq(M)
  PROVE  /\ q \o n \in Seq(M)
         /\ \A d : d \in Elems(q \o n) <=> d \in Elems(q) \/ d \in Elems(n)
         /\ q # <<>> => q \o n # <<>> /\ Head(q \o n) = Head(q)
<1>1. q \o n \in Seq(M) /\ (q # <<>> => q \o n # <<>> /\ Head(q \o n) = Head(q))
  OBVIOUS
<1>2. \A i \in DOMAIN q : i \in DOMAIN (q \o n) /\ (q \o n)[i] = q[i]
  OBVIOUS
<1>3. \A i \in DOMAIN n : Len(q) + i \in DOMAIN (q \o n) /\ (q \o n)[Len(q) + i] = n[i]
  OBVIOUS
<1>4. \A i \in DOMAIN (q \o n) :
        \/ i \in DOMAIN q /\ (q \o n)[i] = q[i]
        \/ i - Len(q) \in DOMAIN n /\ (q \o n)[i] = n[i - Len(q)]
  OBVIOUS
<1>5. \A d : d \in Elems(q \o n) <=> d \in Elems(q) \/ d \in Elems(n)
  <2>1. ASSUME NEW d, d \in Elems(q \o n) PROVE d \in Elems(q) \/ d \in Elems(n)
    BY <1>4, <2>1 DEF Elems
  <2>2. ASSUME NEW d, d \in Elems(q) PROVE d \in Elems(q \o n)
    BY <1>2, <2>2 DEF Elems
  <2>3. ASSUME NEW d, d \in Elems(n) PROVE d \in Elems(q \o n)
    BY <1>3, <2>3 DEF Elems
  <2> QED
    BY <2>1, <2>2, <2>3
<1> QED
  BY <1>1, <1>5

\* Sequences of at most one delivery.
LEMMA ShortFacts ==
  ASSUME NEW M
  PROVE  /\ <<>> \in Seq(M) /\ Elems(<<>>) = {}
         /\ \A A, B : Before(<<>>, A, B)
         /\ \A a \in M : <<a>> \in Seq(M) /\ Elems(<<a>>) = {a}
         /\ \A a \in M : \A A, B : Before(<<a>>, A, B)
  BY DEF Elems, Before

\* Taking a delivery keeps the order.
LEMMA BeforeTail ==
  ASSUME NEW M, NEW q \in Seq(M), q # <<>>, NEW A, NEW B, Before(q, A, B)
  PROVE  /\ Before(Tail(q), A, B)
         /\ Head(q) \in B => \A d \in Elems(Tail(q)) : d \notin A
<1>1. \A i \in DOMAIN Tail(q) : i \in Nat \ {0} /\ i + 1 \in DOMAIN q /\ Tail(q)[i] = q[i + 1]
  OBVIOUS
<1>2. 1 \in DOMAIN q /\ Head(q) = q[1]
  OBVIOUS
<1>3. Before(Tail(q), A, B)
  <2> SUFFICES ASSUME NEW i \in DOMAIN Tail(q), NEW j \in DOMAIN Tail(q),
                      Tail(q)[i] \in A, Tail(q)[j] \in B
      PROVE  i <= j
    BY DEF Before
  <2>1. i + 1 <= j + 1
    BY <1>1 DEF Before
  <2> QED
    BY <1>1, <2>1
<1>4. ASSUME Head(q) \in B, NEW i \in DOMAIN Tail(q), Tail(q)[i] \in A PROVE FALSE
  <2>1. i + 1 <= 1
    BY <1>1, <1>2, <1>4 DEF Before
  <2> QED
    BY <1>1, <2>1
<1> QED
  BY <1>3, <1>4 DEF Elems

\* So does putting deliveries behind, if none of them must come before one that
\* is there.
LEMMA BeforeConcat ==
  ASSUME NEW M, NEW q \in Seq(M), NEW n \in Seq(M), NEW A, NEW B,
         Before(q, A, B), Before(n, A, B),
         (\E d \in Elems(n) : d \in A) => \A d \in Elems(q) : d \notin B
  PROVE  Before(q \o n, A, B)
<1>1. \A i \in DOMAIN (q \o n) :
        /\ i \in Nat
        /\ \/ i \in DOMAIN q /\ (q \o n)[i] = q[i] /\ i <= Len(q)
           \/ i - Len(q) \in DOMAIN n /\ (q \o n)[i] = n[i - Len(q)] /\ i > Len(q)
  OBVIOUS
<1>2. Len(q) \in Nat
  OBVIOUS
<1> SUFFICES ASSUME NEW i \in DOMAIN (q \o n), NEW j \in DOMAIN (q \o n),
                    (q \o n)[i] \in A, (q \o n)[j] \in B, ~(i <= j)
    PROVE  FALSE
  BY DEF Before
<1>3. CASE i \in DOMAIN q /\ (q \o n)[i] = q[i] /\ i <= Len(q)
  <2>1. j \in DOMAIN q /\ (q \o n)[j] = q[j]
    BY <1>1, <1>2, <1>3
  <2> QED
    BY <1>3, <2>1 DEF Before
<1>4. CASE i - Len(q) \in DOMAIN n /\ (q \o n)[i] = n[i - Len(q)] /\ i > Len(q)
  <2>1. CASE j \in DOMAIN q /\ (q \o n)[j] = q[j]
    BY <1>4, <2>1 DEF Elems
  <2>2. CASE j - Len(q) \in DOMAIN n /\ (q \o n)[j] = n[j - Len(q)]
    <3>1. i - Len(q) <= j - Len(q)
      BY <1>4, <2>2 DEF Before
    <3> QED
      BY <1>1, <1>2, <3>1
  <2> QED
    BY <1>1, <2>1, <2>2
<1> QED
  BY <1>1, <1>3, <1>4

-----------------------------------------------------------------------------
(* Events. *)

LEMMA NameFacts ==
  /\ DOMAIN Marks = {"wallet.debited", "wallet.debit_rejected",
                     "payment.charge_succeeded", "payment.charge_failed"}
  /\ Marks["wallet.debited"] = "payment.pending"
  /\ Marks["wallet.debit_rejected"] = "payment.rejected"
  /\ Marks["payment.charge_succeeded"] = "payment.completed"
  /\ Marks["payment.charge_failed"] = "payment.failed"
  /\ StatusOf["payment.created"] = "initialized"
  /\ StatusOf["payment.initialized"] = "initialized"
  /\ StatusOf["payment.pending"] = "pending"
  /\ StatusOf["payment.rejected"] = "rejected"
  /\ StatusOf["payment.completed"] = "succeeded"
  /\ StatusOf["payment.failed"] = "failed"
  BY DEF Marks, StatusOf, StatusEvents

\* The deliveries to a subscriber.
DeliveredTo(w) == {d \in Delivery : d.to = w}

\* The deliveries of one event: at most one for each subscriber.
LEMMA CopiesFacts ==
  ASSUME NEW name \in Handled \union Projected, NEW r \in Requests
  PROVE  /\ Copies(name, r) \in Seq(Delivery)
         /\ \A d : d \in Elems(Copies(name, r)) <=>
              \/ d = To("workflow", name, r) /\ name \in Handled
              \/ d = To("projector", name, r) /\ name \in Projected
         /\ \A w : Before(Copies(name, r), DeliveredTo(w), DeliveredTo(w))
<1> DEFINE a == To("workflow", name, r)
           b == To("projector", name, r)
           x == IF name \in Handled THEN <<a>> ELSE <<>>
           y == IF name \in Projected THEN <<b>> ELSE <<>>
<1>1. a \in Delivery /\ b \in Delivery /\ a.to = "workflow" /\ b.to = "projector"
  BY DEF To, Delivery, Event
<1>2. Copies(name, r) = x \o y
  BY DEF Copies
<1> HIDE DEF a, b
<1>3. /\ x \in Seq(Delivery) /\ \A d : d \in Elems(x) <=> d = a /\ name \in Handled
      /\ \A A, B : Before(x, A, B)
  BY <1>1, ShortFacts
<1>4. /\ y \in Seq(Delivery) /\ \A d : d \in Elems(y) <=> d = b /\ name \in Projected
      /\ \A A, B : Before(y, A, B)
  BY <1>1, ShortFacts
<1> HIDE DEF x, y
<1>5. x \o y \in Seq(Delivery) /\ \A d : d \in Elems(x \o y) <=> d \in Elems(x) \/ d \in Elems(y)
  BY <1>3, <1>4, ConcatFacts
<1>6. ASSUME NEW w PROVE Before(x \o y, DeliveredTo(w), DeliveredTo(w))
  <2>1. (\E d \in Elems(y) : d \in DeliveredTo(w)) => \A d \in Elems(x) : d \notin DeliveredTo(w)
    BY <1>1, <1>3, <1>4 DEF DeliveredTo
  <2> QED
    BY <1>3, <1>4, <2>1, BeforeConcat
<1> QED
  BY <1>2, <1>3, <1>4, <1>5, <1>6 DEF a, b

\* Taking a delivery keeps the deliveries about p in order.
LEMMA TakeInOrder ==
  ASSUME NEW q \in Seq(Delivery), q # <<>>, NEW p \in Payments, InOrder(q, p)
  PROVE  /\ InOrder(Tail(q), p)
         /\ Head(q) \in Workflow(p) =>
              \A d \in Elems(Tail(q)) : d \notin Workflow(p) /\ d # To("projector", "payment.created", p)
         /\ Head(q) = To("projector", "payment.initialized", p) =>
              \A d \in Elems(Tail(q)) : d # To("projector", "payment.initialized", p)
         /\ Head(q).event.of = p => \A d \in Elems(Tail(q)) : d # To("projector", "payment.created", p)
         /\ Head(q) \in {To("projector", "payment.completed", p), To("projector", "payment.failed", p)} =>
              \A d \in Elems(Tail(q)) : d # To("projector", "payment.pending", p)
<1>1. Head(q) \in Delivery
  BY TailFacts
<1>2. /\ Before(Tail(q), Workflow(p), Workflow(p))
      /\ Head(q) \in Workflow(p) => \A d \in Elems(Tail(q)) : d \notin Workflow(p)
  BY BeforeTail DEF InOrder
<1>3. /\ Before(Tail(q), Copy("payment.initialized", p), Copy("payment.initialized", p))
      /\ Head(q) = To("projector", "payment.initialized", p) =>
              \A d \in Elems(Tail(q)) : d # To("projector", "payment.initialized", p)
  BY BeforeTail DEF InOrder, Copy
<1>4. /\ Before(Tail(q), Copy("payment.created", p), About(p))
      /\ Head(q) \in About(p) => \A d \in Elems(Tail(q)) : d # To("projector", "payment.created", p)
  BY BeforeTail DEF InOrder, Copy
<1>5. /\ Before(Tail(q), Copy("payment.pending", p),
                Copy("payment.completed", p) \union Copy("payment.failed", p))
      /\ Head(q) \in {To("projector", "payment.completed", p), To("projector", "payment.failed", p)} =>
              \A d \in Elems(Tail(q)) : d # To("projector", "payment.pending", p)
  <2> DEFINE B == Copy("payment.completed", p) \union Copy("payment.failed", p)
  <2>1. B = {To("projector", "payment.completed", p), To("projector", "payment.failed", p)}
    BY DEF Copy
  <2>2. Before(q, Copy("payment.pending", p), B)
    BY DEF InOrder
  <2> HIDE DEF B
  <2>3. /\ Before(Tail(q), Copy("payment.pending", p), B)
        /\ Head(q) \in B => \A d \in Elems(Tail(q)) : d \notin Copy("payment.pending", p)
    BY <2>2, BeforeTail
  <2> QED
    BY <2>1, <2>3 DEF B, Copy
<1>6. /\ Head(q) \in Workflow(p) => Head(q) \in About(p)
      /\ Head(q).event.of = p => Head(q) \in About(p)
  BY <1>1 DEF Workflow, About
<1> QED
  BY <1>2, <1>3, <1>4, <1>5, <1>6 DEF InOrder

\* Putting deliveries n behind keeps them in order, if n is short and holds
\* nothing that must come first.
LEMMA PutInOrder ==
  ASSUME NEW q \in Seq(Delivery), NEW n \in Seq(Delivery), NEW p \in Payments, InOrder(q, p),
         \A w : Before(n, DeliveredTo(w), DeliveredTo(w)),
         (\E d \in Elems(n) : d \in Workflow(p)) => \A d \in Elems(q) : d \notin Workflow(p),
         To("projector", "payment.initialized", p) \in Elems(n) =>
           To("projector", "payment.initialized", p) \notin Elems(q),
         To("projector", "payment.created", p) \in Elems(n) =>
           /\ \A d \in Elems(n) : d.to = "projector"
           /\ \A d \in Elems(q) : d \notin About(p),
         To("projector", "payment.pending", p) \in Elems(n) =>
           /\ To("projector", "payment.completed", p) \notin Elems(q)
           /\ To("projector", "payment.failed", p) \notin Elems(q)
  PROVE  InOrder(q \o n, p)
<1>0. /\ \A name, r : To("projector", name, r).to = "projector"
      /\ \A d \in Elems(n) : d \in Delivery
      /\ \A i \in DOMAIN n : n[i] \in Elems(n)
  BY DEF To, Elems
<1>1. Before(q \o n, Workflow(p), Workflow(p))
  <2>1. Before(n, Workflow(p), Workflow(p))
    BY DEF Before, DeliveredTo, Workflow
  <2> QED
    BY <2>1, BeforeConcat DEF InOrder
<1>2. Before(q \o n, Copy("payment.initialized", p), Copy("payment.initialized", p))
  <2>1. Before(n, Copy("payment.initialized", p), Copy("payment.initialized", p))
    BY <1>0 DEF Before, DeliveredTo, Copy
  <2> QED
    BY <2>1, BeforeConcat DEF InOrder, Copy
<1>3. Before(q \o n, Copy("payment.created", p), About(p))
  <2>1. Before(n, Copy("payment.created", p), About(p))
    BY <1>0 DEF Before, DeliveredTo, Copy, About
  <2> QED
    BY <2>1, BeforeConcat DEF InOrder, Copy
<1>4. Before(q \o n, Copy("payment.pending", p),
             Copy("payment.completed", p) \union Copy("payment.failed", p))
  <2> DEFINE B == Copy("payment.completed", p) \union Copy("payment.failed", p)
  <2>1. B = {To("projector", "payment.completed", p), To("projector", "payment.failed", p)}
    BY DEF Copy
  <2>2. Before(q, Copy("payment.pending", p), B)
    BY DEF InOrder
  <2> HIDE DEF B
  <2>3. Before(n, Copy("payment.pending", p), B)
    BY <1>0, <2>1 DEF Before, DeliveredTo, Copy
  <2>4. (\E d \in Elems(n) : d \in Copy("payment.pending", p)) => \A d \in Elems(q) : d \notin B
    BY <2>1 DEF Copy
  <2>5. Before(q \o n, Copy("payment.pending", p), B)
    BY <2>2, <2>3, <2>4, BeforeConcat
  <2> QED
    BY <2>5 DEF B
<1> QED
  BY <1>1, <1>2, <1>3, <1>4 DEF InOrder

-----------------------------------------------------------------------------
(* Records. *)

\* What the last of a payment's records leaves.
LEMMA ReplayedFacts ==
  ASSUME NEW l \in Seq(Event), NEW e \in Event, e.name \in StatusEvents,
         e.name = "payment.created" => l = <<>>
  PROVE  Replayed(Append(l, e)) = StatusOf[e.name]
<1> DEFINE a == Append(l, e)
           over == {i \in DOMAIN a : a[i].name # "payment.created"}
<1>1. a # <<>> /\ Len(a) \in DOMAIN a /\ a[Len(a)] = e /\ \A i \in DOMAIN a : i <= Len(a) /\ i \in Nat
  OBVIOUS
<1>2. CASE e.name = "payment.created"
  <2>1. over = {}
    BY <1>2
  <2> QED
    BY <1>1, <1>2, <2>1, NameFacts DEF Replayed
<1>3. CASE e.name # "payment.created"
  <2>1. Len(a) \in over /\ Len(a) \in Nat
    BY <1>1, <1>3
  <2>2. \A i \in over : i <= Len(a) /\ i \in Nat
    BY <1>1
  <2> HIDE DEF a
  <2>3. ASSUME NEW i \in over, \A j \in over : j <= i PROVE i = Len(a)
    BY <2>1, <2>2, <2>3
  <2> DEFINE last == CHOOSE i \in over : \A j \in over : j <= i
  <2>4. last = Len(a)
    BY <2>1, <2>2, <2>3
  <2>5. Replayed(a) = StatusOf[a[last].name]
    BY <1>1, <2>1 DEF Replayed
  <2>6. Replayed(a) = StatusOf[e.name]
    BY <1>1, <2>4, <2>5
  <2> QED
    BY <2>6 DEF a
<1> QED
  BY <1>2, <1>3

LEMMA ReplayedNothing == Replayed(<<>>) = "none"
  BY DEF Replayed

\* How often an event is among records with one more behind them.
LEMMA OccurrencesFacts ==
  ASSUME NEW l \in Seq(Event), NEW x \in Event, NEW e \in Event
  PROVE  /\ Occurrences(l, e) \in Nat
         /\ x # e => /\ Occurrences(Append(l, x), e) >= Occurrences(l, e)
                     /\ Occurrences(Append(l, x), e) <= Occurrences(l, e)
         /\ x = e => /\ Occurrences(Append(l, x), e) >= Occurrences(l, e) + 1
                     /\ Occurrences(Append(l, x), e) <= Occurrences(l, e) + 1
<1> DEFINE a == Append(l, x)
           was == {i \in DOMAIN l : l[i] = e}
           now == {i \in DOMAIN a : a[i] = e}
<1>1. Len(l) \in Nat /\ DOMAIN l = 1 .. Len(l) /\ DOMAIN a = 1 .. Len(l) + 1
      /\ (\A i \in 1 .. Len(l) : a[i] = l[i]) /\ a[Len(l) + 1] = x
  OBVIOUS
<1>2. IsFiniteSet(was) /\ Cardinality(was) \in Nat
  <2>1. IsFiniteSet(1 .. Len(l))
    BY <1>1, FS_Interval
  <2>2. was \subseteq 1 .. Len(l)
    BY <1>1
  <2> QED
    BY <2>1, <2>2, FS_Subset, FS_CardinalityType
<1>3. CASE x # e
  <2>1. now = was
    BY <1>1, <1>3
  <2> HIDE DEF was, now
  <2>2. Occurrences(a, e) = Cardinality(now) /\ Occurrences(l, e) = Cardinality(was)
    BY DEF Occurrences, was, now
  <2> QED
    BY <1>2, <1>3, <2>1, <2>2
<1>4. CASE x = e
  <2>1. now = was \union {Len(l) + 1} /\ Len(l) + 1 \notin was
    BY <1>1, <1>4
  <2> HIDE DEF was, now
  <2>2. Cardinality(now) = Cardinality(was) + 1
    BY <1>2, <2>1, FS_AddElement
  <2>3. Occurrences(a, e) = Cardinality(now) /\ Occurrences(l, e) = Cardinality(was)
    BY DEF Occurrences, was, now
  <2> QED
    BY <1>2, <1>4, <2>2, <2>3
<1> QED
  BY <1>3, <1>4

-----------------------------------------------------------------------------
(* Steps that leave a payment alone. *)

\* Nothing that PaymentInv(p) speaks of changes, but for the queue.
Still(p) ==
  /\ http'[p] = http[p] /\ step'[p] = step[p] /\ hand'[p] = hand[p]
  /\ table'[p] = table[p] /\ view'[p] = view[p]
  /\ lines'[p] = lines[p] /\ streams'[p] = streams[p]
  /\ p \in unsaved' <=> p \in unsaved
  /\ Marking(p)' <=> Marking(p)
  /\ Marking(p) => /\ step'[ShardOf[p]] = step[ShardOf[p]]
                   /\ hand'[ShardOf[p]] = hand[ShardOf[p]]

\* Nor the queue, but for deliveries about p that neither the workflow nor the
\* projector's payment views are to have.
Frame(p) ==
  /\ Still(p)
  /\ Ordered(p)'
  /\ \A d \in About(p) : d \in Waiting(p)' => d \in Waiting(p)
  /\ \A name \in StatusEvents : Due(name, p) => Due(name, p)'

LEMMA FrameKeeps ==
  ASSUME NEW p \in Payments, PaymentInv(p), Frame(p)
  PROVE  PaymentInv(p)'
<1>1. \A name \in StatusEvents : Due(name, p)' <=> Due(name, p)
  <2>1. \A name \in StatusEvents : To("projector", name, p) \in About(p)
    BY DEF To, About, Delivery, Event, Projected, Requests
  <2> QED
    BY <2>1 DEF Frame, Still, Due
<1>2. \A name \in {"payment.created", "payment.initialized", "payment.pending",
                   "payment.rejected", "payment.completed", "payment.failed"} : name \in StatusEvents
  BY DEF StatusEvents
<1>3. /\ Waiting(p) \intersect About(p) = {} => Waiting(p)' \intersect About(p) = {}
      /\ Waiting(p) \intersect Workflow(p) = {} => Waiting(p)' \intersect Workflow(p) = {}
      /\ \A d \in Waiting(p)' \intersect Workflow(p) : d \in Waiting(p) \intersect Workflow(p)
  BY DEF Frame, Still, Workflow, About
<1>4. CreateFirst(p)'
  <2>1. Written(p) = view[p] => Written(p)' = view'[p]
    BY DEF Frame, Still, Written
  <2> QED
    BY <1>1, <1>2, <1>3, <2>1 DEF Frame, Still, PaymentInv, CreateFirst
<1>5. TableInPosition(p)'
  BY <1>3 DEF Frame, Still, PaymentInv, TableInPosition
<1>6. ViewBehind(p)'
  BY <1>1, <1>2 DEF Frame, Still, PaymentInv, ViewBehind
<1>7. RecordsInOrder(p)'
  <2>1. /\ Written(p) \in Statuses => Written(p)' \in Statuses
        /\ Remembered(p) = table[p] => Remembered(p)' = table'[p]
        /\ \A x : Written(p) = x => Written(p)' = x
    BY DEF Frame, Still, Written, Remembered
  <2>2. \A t \in {p, ShardOf[p]} :
          /\ Writes(t, p)' <=> Writes(t, p)
          /\ Writes(t, p) => hand'[t] = hand[t]
    BY DEF Frame, Still, Writes, Marking
  <2> QED
    BY <2>1, <2>2 DEF Frame, Still, PaymentInv, RecordsInOrder
<1> QED
  BY <1>4, <1>5, <1>6, <1>7 DEF Frame, Still, PaymentInv

\* Queue q2 has the same deliveries about p as q, and in order.
Passes(q, q2, p) ==
  InOrder(q, p) =>
    InOrder(q2, p) /\ \A d \in About(p) : d \in Elems(q2) <=> d \in Elems(q)

LEMMA TakePasses ==
  ASSUME NEW q \in Seq(Delivery), q # <<>>, NEW p \in Payments, Head(q).event.of # p
  PROVE  Passes(q, Tail(q), p)
<1>1. InOrder(q, p) => InOrder(Tail(q), p)
  BY TakeInOrder
<1>2. \A d : d \in Elems(q) <=> d = Head(q) \/ d \in Elems(Tail(q))
  BY TailFacts
<1> QED
  BY <1>1, <1>2 DEF Passes, About

LEMMA PutPasses ==
  ASSUME NEW q \in Seq(Delivery), NEW n \in Seq(Delivery), NEW p \in Payments,
         \A w : Before(n, DeliveredTo(w), DeliveredTo(w)),
         \A d \in Elems(n) : d.event.of # p
  PROVE  Passes(q, q \o n, p)
<1>1. \A d : d \in Elems(q \o n) <=> d \in Elems(q) \/ d \in Elems(n)
  BY ConcatFacts
<1>2. /\ \A name : To("projector", name, p) \notin Elems(n)
      /\ \A d \in Elems(n) : d \notin Workflow(p) /\ d \notin About(p)
  BY DEF To, Workflow, About
<1>3. InOrder(q, p) => InOrder(q \o n, p)
  BY <1>2, PutInOrder
<1> QED
  BY <1>1, <1>2, <1>3 DEF Passes

LEMMA PassesOn ==
  ASSUME NEW q, NEW q2, NEW q3, NEW p, Passes(q, q2, p), Passes(q2, q3, p)
  PROVE  Passes(q, q3, p)
  BY DEF Passes

\* A payment whose deliveries pass is left alone.
LEMMA PassesFrame ==
  ASSUME TypeOK, NEW s \in Shards, NEW q2, queue' = [queue EXCEPT ![s] = q2],
         NEW p \in Payments, PaymentInv(p), Still(p),
         NEW q, q = queue[s], Passes(q, q2, p)
  PROVE  PaymentInv(p)'
<1>1. ShardOf[p] \in Shards
  BY ReadModelAssumption
<1>2. PICK h : h = queue[ShardOf[p]]
  OBVIOUS
<1>3. PICK k : k = queue'[ShardOf[p]]
  OBVIOUS
<1>4. InOrder(h, p)
  BY <1>2 DEF PaymentInv, Ordered, QueueOf, InOrder, Before
<1>5. k = h \/ (h = q /\ k = q2)
  BY <1>1, <1>2, <1>3 DEF TypeOK
<1>6. InOrder(k, p) /\ \A d \in About(p) : d \in Elems(k) <=> d \in Elems(h)
  BY <1>4, <1>5 DEF Passes
<1>7. Ordered(p)'
  BY <1>3, <1>6 DEF Ordered, QueueOf, InOrder, Before
<1>8. /\ \A d : d \in Waiting(p) <=> d \in Elems(h)
      /\ \A d : d \in Waiting(p)' <=> d \in Elems(k)
  BY <1>2, <1>3 DEF Waiting, QueueOf, Elems
<1>9. \A name \in StatusEvents : To("projector", name, p) \in About(p)
  BY DEF To, About, Delivery, Event, Projected, Requests
<1>10. \A name \in StatusEvents : Due(name, p) => Due(name, p)'
  BY <1>6, <1>8, <1>9 DEF Due
<1> QED
  BY <1>6, <1>7, <1>8, <1>10, FrameKeeps DEF Frame

\* A delivery that is put or taken leaves the others where they belong.
LEMMA HomeKept ==
  ASSUME TypeOK, Home, NEW s \in Shards, NEW q, q = queue[s], NEW q2,
         queue' = [queue EXCEPT ![s] = q2],
         \A d \in Elems(q2) : d \in Elems(q) \/ AtHome(d, s)
  PROVE  Home'
<1> SUFFICES ASSUME NEW t \in Shards PROVE (\A d \in Elems(queue[t]) : AtHome(d, t))'
  BY DEF Home
<1>1. PICK h : h = queue[t]
  OBVIOUS
<1>2. PICK k : k = queue'[t]
  OBVIOUS
<1>3. \A d \in Elems(h) : AtHome(d, t)
  BY <1>1 DEF Home, Elems
<1>4. k = h \/ (t = s /\ h = q /\ k = q2)
  BY <1>1, <1>2 DEF TypeOK
<1>5. \A d \in Elems(k) : AtHome(d, t)
  BY <1>3, <1>4
<1> QED
  BY <1>2, <1>5 DEF Elems, AtHome

\* A credit's record keeps its place when other events are appended.
Appended(old, new, e) == new = old \/ \E x \in Event : x # e /\ new = Append(old, x)

LEMMA CreditKept ==
  ASSUME TypeOK, NEW c \in Credits, CreditInOrder(c),
         c \in unsaved => c \in unsaved', step'[c] = "file" <=> step[c] = "file",
         Appended(streams[Owner[c]], streams'[Owner[c]], Credited(c)),
         Appended(lines[Owner[c]], lines'[Owner[c]], Credited(c))
  PROVE  CreditInOrder(c)'
<1>1. PICK s0 : s0 = streams[Owner[c]]
  OBVIOUS
<1>2. PICK s1 : s1 = streams'[Owner[c]]
  OBVIOUS
<1>3. PICK l0 : l0 = lines[Owner[c]]
  OBVIOUS
<1>4. PICK l1 : l1 = lines'[Owner[c]]
  OBVIOUS
<1>5. PICK e \in Event : e = Credited(c)
  BY DEF Credited, Event, Projected, MovementEvents, Requests
<1>6. s0 \in Seq(Event) /\ l0 \in Seq(Event)
  BY <1>1, <1>3, ReadModelAssumption DEF TypeOK, StoreTypeOK
<1>7. /\ c \notin unsaved => Occurrences(s0, e) = Occurrences(l0, e) + (IF step[c] = "file" THEN 1 ELSE 0)
      /\ CreditInOrder(c)' <=> (c \notin unsaved' =>
           Occurrences(s1, e) = Occurrences(l1, e) + (IF step'[c] = "file" THEN 1 ELSE 0))
  BY <1>1, <1>2, <1>3, <1>4, <1>5 DEF CreditInOrder, Occurrences, Credited
<1>8. /\ Occurrences(s1, e) >= Occurrences(s0, e) /\ Occurrences(s1, e) <= Occurrences(s0, e)
      /\ Occurrences(s0, e) \in Nat /\ Occurrences(s1, e) \in Nat
  <2>1. s1 = s0 \/ \E x \in Event : x # e /\ s1 = Append(s0, x)
    BY <1>1, <1>2, <1>5 DEF Appended
  <2>2. Occurrences(s0, e) \in Nat
    BY <1>6, OccurrencesFacts
  <2>3. CASE s1 = s0
    BY <2>2, <2>3
  <2>4. ASSUME NEW x \in Event, x # e, s1 = Append(s0, x)
        PROVE  /\ Occurrences(s1, e) >= Occurrences(s0, e)
               /\ Occurrences(s1, e) <= Occurrences(s0, e)
               /\ Occurrences(s1, e) \in Nat
    <3>1. Append(s0, x) \in Seq(Event)
      BY <1>6
    <3>2. /\ Occurrences(Append(s0, x), e) >= Occurrences(s0, e)
          /\ Occurrences(Append(s0, x), e) <= Occurrences(s0, e)
          /\ Occurrences(Append(s0, x), e) \in Nat
      BY <1>6, <2>4, <3>1, OccurrencesFacts
    <3> QED
      BY <2>4, <3>2
  <2> QED
    BY <2>1, <2>2, <2>3, <2>4
<1>9. /\ Occurrences(l1, e) >= Occurrences(l0, e) /\ Occurrences(l1, e) <= Occurrences(l0, e)
      /\ Occurrences(l0, e) \in Nat /\ Occurrences(l1, e) \in Nat
  <2>1. l1 = l0 \/ \E x \in Event : x # e /\ l1 = Append(l0, x)
    BY <1>3, <1>4, <1>5 DEF Appended
  <2>2. Occurrences(l0, e) \in Nat
    BY <1>6, OccurrencesFacts
  <2>3. CASE l1 = l0
    BY <2>2, <2>3
  <2>4. ASSUME NEW x \in Event, x # e, l1 = Append(l0, x)
        PROVE  /\ Occurrences(l1, e) >= Occurrences(l0, e)
               /\ Occurrences(l1, e) <= Occurrences(l0, e)
               /\ Occurrences(l1, e) \in Nat
    <3>1. Append(l0, x) \in Seq(Event)
      BY <1>6
    <3>2. /\ Occurrences(Append(l0, x), e) >= Occurrences(l0, e)
          /\ Occurrences(Append(l0, x), e) <= Occurrences(l0, e)
          /\ Occurrences(Append(l0, x), e) \in Nat
      BY <1>6, <2>4, <3>1, OccurrencesFacts
    <3> QED
      BY <2>4, <3>2
  <2> QED
    BY <2>1, <2>2, <2>3, <2>4
<1> QED
  BY <1>7, <1>8, <1>9

-----------------------------------------------------------------------------
(* Where things are kept. *)

LEMMA Apart ==
  /\ \A p \in Payments : /\ p \in Requests /\ p \in Threads /\ p \in Aggregates
                         /\ p \notin Credits /\ p \notin Shards /\ p \notin Users
                         /\ ShardOf[p] \in Shards /\ ShardOf[p] # p
  /\ \A c \in Credits : /\ c \in Requests /\ c \in Threads /\ c \notin Payments /\ c \notin Shards
                        /\ Owner[c] \in Users /\ Owner[c] \notin Payments
                        /\ Owner[c] \in Aggregates /\ ShardOf[Owner[c]] \in Shards
  /\ \A s \in Shards : s \in Threads /\ s \notin Requests
  /\ \A p \in Payments : \A r \in Requests : ShardOf[p] # r
  BY ReadModelAssumption DEF Requests, Threads

\* A payment's events go to the payment's key, a credit's to its owner's.
LEMMA KeyFacts ==
  ASSUME NEW e \in Event
  PROVE  /\ e.of \in Requests
         /\ KeyOf(e) \in Aggregates /\ ShardOf[KeyOf(e)] \in Shards
         /\ e.of \in Payments => KeyOf(e) = e.of
         /\ e.of \in Credits => KeyOf(e) = Owner[e.of] /\ KeyOf(e) \notin Payments
         /\ \A p \in Payments : KeyOf(e) = p <=> e.of = p
  BY Apart DEF KeyOf, Event, Requests

LEMMA EventFacts ==
  /\ \A name \in StatusEvents \union MovementEvents \union Handled, r \in Requests :
       [name |-> name, of |-> r] \in Event
  /\ \A name \in StatusEvents : name \in Projected
  /\ \A name \in DOMAIN Marks : Marks[name] \in StatusEvents
  BY NameFacts DEF Event, Projected, StatusEvents

\* What the records leave, in terms of the records.
LEMMA Leaves ==
  ASSUME NEW p \in Payments, NEW l
  PROVE  /\ l = streams[p] => \A x : Remembered(p) = x <=> Replayed(l) = x
         /\ l = streams'[p] => \A x : Remembered(p)' = x <=> Replayed(l) = x
         /\ l = lines[p] => \A x : Written(p) = x <=> Replayed(l) = x
         /\ l = lines'[p] => \A x : Written(p)' = x <=> Replayed(l) = x
  BY DEF Remembered, Written, Replayed

\* A worker that marks p has a delivery about p for the workflow.
LEMMA MarkingHead ==
  ASSUME TypeOK, WorkersMark, NEW p \in Payments, Marking(p)
  PROVE  \E d \in Waiting(p) \intersect Workflow(p) :
           d \in About(p) /\ d = Head(QueueOf(p))
<1>1. PICK q : q = queue[ShardOf[p]]
  OBVIOUS
<1>2. q \in Seq(Delivery) /\ q # <<>>
  BY <1>1, Apart DEF Marking, WorkersMark, TypeOK
<1> DEFINE h == Head(q)
<1>4. /\ h.to = "workflow"
      /\ hand[ShardOf[p]] = [name |-> Marks[h.event.name], of |-> h.event.of]
      /\ hand[ShardOf[p]].of = p
  BY <1>1, Apart DEF Marking, WorkersMark
<1>5. h.to = "workflow" /\ h.event.of = p
  BY <1>4
<1>3. Head(q) \in Delivery /\ Head(q) \in Elems(q)
  BY <1>2, TailFacts
<1> QED
  BY <1>1, <1>2, <1>3, <1>5 DEF Waiting, QueueOf, About, Workflow

-----------------------------------------------------------------------------
(* The requests. *)

\* A request of its own leaves the payments of others alone.
LEMMA OtherStill ==
  ASSUME TypeOK, NEW r \in Requests, NEW p \in Payments, p # r,
         http'[p] = http[p], table'[p] = table[p], view'[p] = view[p],
         lines'[p] = lines[p], streams'[p] = streams[p], unsaved' = unsaved,
         \A t \in Threads : t # r => step'[t] = step[t] /\ hand'[t] = hand[t]
  PROVE  Still(p)
  BY Apart DEF Still, Marking

LEMMA CreateSaveKeeps ==
  ASSUME ReadInv, NEW p \in Payments, CreateSave(p)
  PROVE  ReadInv'
<1> DEFINE e == [name |-> "payment.created", of |-> p]
<1>1. e \in Event /\ KeyOf(e) = p /\ e.of = p /\ e.name = "payment.created"
  BY Apart, EventFacts, KeyFacts DEF StatusEvents
<1>2. /\ http[p] = "start" /\ http' = [http EXCEPT ![p] = "running"]
      /\ table' = [table EXCEPT ![p] = "initialized"]
      /\ streams' = [streams EXCEPT ![p] = Append(@, e)]
      /\ hand' = [hand EXCEPT ![p] = e] /\ step' = [step EXCEPT ![p] = "file"]
      /\ UNCHANGED <<lines, garbled, fileOpen, writeFailures>>
      /\ UNCHANGED <<queue, view, moved, restarts, unsaved>>
  BY <1>1 DEF CreateSave, BeginAppend, AppendToMemory
<1> HIDE DEF e
<1>3. TypeOK /\ Home /\ WorkersMark /\ RequestsOwn /\ PaymentInv(p)
  BY DEF ReadInv
<1>4. streams[p] \in Seq(Event) /\ Append(streams[p], e) \in Seq(Event)
  BY <1>1, <1>3, Apart, ReadModelAssumption DEF TypeOK, StoreTypeOK
<1>5. TypeOK'
  <2>1. streams' \in [Aggregates -> Seq(Records)]
    BY <1>2, <1>3, <1>4, ReadModelAssumption DEF TypeOK, StoreTypeOK
  <2> QED
    BY <1>1, <1>2, <1>3, <2>1, Apart DEF TypeOK, StoreTypeOK, Statuses
<1>6. Home' /\ WorkersMark'
  BY <1>2, <1>3, Apart DEF Home, Elems, AtHome, WorkersMark, TypeOK
<1>7. RequestsOwn'
  BY <1>1, <1>2, <1>3, Apart DEF RequestsOwn, TypeOK
<1>8. ASSUME NEW r \in Payments, r # p PROVE PaymentInv(r)'
  <2>1. Still(r)
    BY <1>2, <1>3, <1>8, Apart, OtherStill DEF TypeOK, StoreTypeOK
  <2>2. Frame(r)
    BY <1>2, <2>1, <1>8 DEF Frame, ReadInv, PaymentInv, Ordered, QueueOf, Waiting, Due, Elems, InOrder, Before
  <2> QED
    BY <2>2, FrameKeeps DEF ReadInv
<1>9. PaymentInv(p)'
  <2>1. /\ table[p] = "none" /\ lines[p] = <<>> /\ streams[p] = <<>> /\ step[p] = "ready"
        /\ Waiting(p) \intersect About(p) = {}
        /\ \A x : Written(p) = x => view[p] = x
    BY <1>2, <1>3 DEF PaymentInv, CreateFirst
  <2>2. Written(p) = "none" /\ Written(p)' = "none" /\ view[p] = "none" /\ view'[p] = "none"
    BY <1>2, <2>1, ReplayedNothing DEF Written
  <2>3. Remembered(p)' = "initialized"
    <3>1. streams'[p] = Append(<<>>, e)
      BY <1>2, <1>3, <2>1, Apart DEF TypeOK, StoreTypeOK
    <3>2. Replayed(Append(<<>>, e)) = StatusOf[e.name]
      <4>1. <<>> \in Seq(Event) /\ e.name \in StatusEvents
        BY <1>1 DEF StatusEvents
      <4> QED
        BY <1>1, <4>1, ReplayedFacts
    <3> QED
      BY <1>1, <3>1, <3>2, Leaves, NameFacts
  <2>4. ~Marking(p)
    BY <1>3, <2>1, MarkingHead
  <2>5. /\ http'[p] = "running" /\ table'[p] = "initialized" /\ step'[p] = "file" /\ hand'[p] = e
        /\ streams'[p] = Append(<<>>, e) /\ lines'[p] = <<>> /\ Marking(p)' = FALSE
        /\ step'[ShardOf[p]] = step[ShardOf[p]] /\ hand'[ShardOf[p]] = hand[ShardOf[p]]
    BY <1>2, <1>3, <2>1, <2>4, Apart DEF TypeOK, StoreTypeOK, Marking
  <2>6. Ordered(p)'
    BY <1>2, <1>3 DEF PaymentInv, Ordered, QueueOf, InOrder, Before
  <2>7. Waiting(p)' \intersect About(p) = {} /\ Waiting(p)' \intersect Workflow(p) = {}
    <3>1. \A d : d \in Waiting(p)' => d \in Waiting(p)
      BY <1>2 DEF Waiting, QueueOf, Elems
    <3> QED
      BY <2>1, <3>1 DEF About, Workflow
  <2>8. \A name \in StatusEvents : ~Due(name, p)'
    BY <2>7, Apart, EventFacts DEF Due, To, About, Delivery
  <2>9. CreateFirst(p)'
    BY <1>1, <2>2, <2>5, <2>7, <2>8 DEF CreateFirst, StatusEvents
  <2>10. TableInPosition(p)'
    BY <2>5, <2>7 DEF TableInPosition
  <2>11. ViewBehind(p)'
    BY <1>1, <2>2, <2>5, <2>8 DEF ViewBehind, Behind, StatusEvents
  <2>12. RecordsInOrder(p)'
    <3>1. ~Writes(ShardOf[p], p)'
      BY <2>4, <2>5 DEF Writes, Marking
    <3> QED
      BY <1>1, <2>2, <2>3, <2>5, <3>1 DEF RecordsInOrder, Writes, Earlier, Statuses
  <2> QED
    BY <2>6, <2>9, <2>10, <2>11, <2>12 DEF PaymentInv
<1>10. ASSUME NEW c \in Credits PROVE CreditInOrder(c)'
  BY <1>2, <1>3, <1>10, Apart, CreditKept DEF ReadInv, Appended, TypeOK, StoreTypeOK
<1> QED
  BY <1>5, <1>6, <1>7, <1>8, <1>9, <1>10 DEF ReadInv

-----------------------------------------------------------------------------
LEMMA AppendPuts ==
  ASSUME NEW M, NEW q \in Seq(M), NEW a \in M
  PROVE  Append(q, a) = q \o <<a>>
<1>1. Append(q, a) \in Seq(M) /\ q \o <<a>> \in Seq(M)
  OBVIOUS
<1>2. Len(Append(q, a)) = Len(q \o <<a>>)
  OBVIOUS
<1>3. \A i \in 1 .. Len(Append(q, a)) : Append(q, a)[i] = (q \o <<a>>)[i]
  OBVIOUS
<1> QED
  BY <1>1, <1>2, <1>3

-----------------------------------------------------------------------------
(* Publishing. *)

\* What waits for p, and its order, in terms of the queue.
LEMMA WaitingIs ==
  ASSUME NEW p \in Payments, NEW q
  PROVE  /\ q = queue[ShardOf[p]] =>
              (\A d : d \in Waiting(p) <=> d \in Elems(q)) /\ (Ordered(p) => InOrder(q, p))
         /\ q = queue'[ShardOf[p]] =>
              (\A d : d \in Waiting(p)' <=> d \in Elems(q)) /\ (InOrder(q, p) => Ordered(p)')
<1>1. q = queue[ShardOf[p]] =>
              (\A d : d \in Waiting(p) <=> d \in Elems(q)) /\ (Ordered(p) => InOrder(q, p))
  BY DEF Waiting, QueueOf, Elems, Ordered, InOrder, Before
<1>2. q = queue'[ShardOf[p]] =>
              (\A d : d \in Waiting(p)' <=> d \in Elems(q)) /\ (InOrder(q, p) => Ordered(p)')
  BY DEF Waiting, QueueOf, Elems, Ordered, InOrder, Before
<1> QED
  BY <1>1, <1>2

LEMMA OwnQueue ==
  ASSUME TypeOK, NEW p \in Payments, NEW q, q = queue[ShardOf[p]], NEW q2,
         queue' = [queue EXCEPT ![ShardOf[p]] = q2]
  PROVE  /\ q \in Seq(Delivery)
         /\ \A d : d \in Waiting(p) <=> d \in Elems(q)
         /\ \A d : d \in Waiting(p)' <=> d \in Elems(q2)
         /\ Ordered(p) => InOrder(q, p)
         /\ InOrder(q2, p) => Ordered(p)'
<1>1. q2 = queue'[ShardOf[p]] /\ q \in Seq(Delivery)
  BY Apart DEF TypeOK
<1> QED
  BY <1>1, WaitingIs

\* A request publishes: the heads of the queues stay.
LEMMA PutGlobals ==
  ASSUME TypeOK, Home, WorkersMark, NEW s \in Shards, NEW q, q = queue[s],
         NEW n \in Seq(Delivery), queue' = [queue EXCEPT ![s] = q \o n],
         \A d \in Elems(n) : AtHome(d, s),
         \A t \in Shards : step'[t] = step[t] /\ hand'[t] = hand[t]
  PROVE  q \in Seq(Delivery) /\ queue' \in [Shards -> Seq(Delivery)] /\ Home' /\ WorkersMark'
<1>1. /\ q \o n \in Seq(Delivery) /\ q \in Seq(Delivery)
      /\ \A d : d \in Elems(q \o n) <=> d \in Elems(q) \/ d \in Elems(n)
      /\ q # <<>> => q \o n # <<>> /\ Head(q \o n) = Head(q)
  BY ConcatFacts DEF TypeOK
<1> DEFINE q2 == q \o n
<1> HIDE DEF q2
<1>2. queue' = [queue EXCEPT ![s] = q2] /\ queue' \in [Shards -> Seq(Delivery)]
  BY <1>1 DEF q2, TypeOK
<1>3. Home'
  BY <1>1, <1>2, HomeKept DEF q2
<1>4. WorkersMark'
  <2> SUFFICES ASSUME NEW t \in Shards, step[t] # "ready"
      PROVE  /\ queue'[t] # <<>> /\ Head(queue'[t]).to = "workflow"
             /\ step[t] \in {"file", "publish"}
             /\ Head(queue'[t]).event.name \in DOMAIN Marks
             /\ hand[t] = [name |-> Marks[Head(queue'[t]).event.name], of |-> Head(queue'[t]).event.of]
    BY DEF WorkersMark
  <2>1. queue[t] # <<>> => queue'[t] # <<>> /\ Head(queue'[t]) = Head(queue[t])
    BY <1>1, <1>2 DEF q2, TypeOK
  <2> QED
    BY <2>1 DEF WorkersMark
<1> QED
  BY <1>1, <1>2, <1>3, <1>4

\* A worker takes a delivery, publishes or not, and is ready for the next one.
LEMMA TakeGlobals ==
  ASSUME TypeOK, Home, WorkersMark, NEW s \in Shards, NEW q, q = queue[s],
         NEW q2 \in Seq(Delivery), queue' = [queue EXCEPT ![s] = q2],
         \A d \in Elems(q2) : d \in Elems(q) \/ AtHome(d, s),
         step'[s] = "ready",
         \A t \in Shards : t # s => step'[t] = step[t] /\ hand'[t] = hand[t]
  PROVE  queue' \in [Shards -> Seq(Delivery)] /\ Home' /\ WorkersMark'
<1>1. queue' \in [Shards -> Seq(Delivery)]
  BY DEF TypeOK
<1>2. Home'
  BY HomeKept
<1>3. WorkersMark'
  <2>1. \A t \in Shards : t # s => queue'[t] = queue[t]
    BY DEF TypeOK
  <2> QED
    BY <2>1 DEF WorkersMark
<1> QED
  BY <1>1, <1>2, <1>3

\* The records of p when Append has begun with the event that brings the table
\* where it is now.
LEMMA RecordBegun ==
  ASSUME TypeOK, NEW p \in Payments, RecordsInOrder(p), NEW t \in {p, ShardOf[p]},
         NEW e \in Event, e.name \in StatusEvents, e.name # "payment.created",
         ~Writes(p, p), ~Writes(ShardOf[p], p),
         Writes(t, p)', \A u \in {p, ShardOf[p]} : Writes(u, p)' => u = t,
         table[p] # "none", table[p] = Earlier(e.name), table'[p] = StatusOf[e.name],
         streams'[p] = Append(streams[p], e), lines'[p] = lines[p],
         hand'[t] = e, unsaved' = unsaved
  PROVE  RecordsInOrder(p)'
<1>1. PICK l \in Seq(Event) : l = streams[p]
  BY Apart, ReadModelAssumption DEF TypeOK, StoreTypeOK
<1>2. PICK k : k = lines[p]
  OBVIOUS
<1>3. Remembered(p)' = StatusOf[e.name]
  <2>1. PICK m : m = Append(l, e)
    OBVIOUS
  <2>2. m = streams'[p] /\ Replayed(m) = StatusOf[e.name]
    BY <1>1, <2>1, ReplayedFacts
  <2> QED
    BY <2>2, Leaves
<1>4. /\ \A x : Written(p)' = x <=> Replayed(k) = x
      /\ \A x : Written(p) = x <=> Replayed(k) = x
      /\ \A x : Remembered(p) = x <=> Replayed(l) = x
  BY <1>1, <1>2, Leaves
<1>5. Written(p)' \in Statuses
  BY <1>4 DEF RecordsInOrder, Statuses
<1>6. ASSUME p \notin unsaved
      PROVE  streams'[p] = Append(lines'[p], e) /\ Written(p)' = Earlier(e.name)
  <2>1. k = l
    BY <1>1, <1>2, <1>6 DEF RecordsInOrder
  <2>2. Replayed(l) = Earlier(e.name)
    BY <1>4 DEF RecordsInOrder
  <2> QED
    BY <1>1, <1>2, <1>4, <2>1, <2>2
<1> QED
  BY <1>3, <1>5, <1>6 DEF RecordsInOrder

\* Create publishes payment.created.
LEMMA CreatePublishCreatedKeeps ==
  ASSUME ReadInv, NEW p \in Payments, CreatePublishCreated(p)
  PROVE  ReadInv'
<1> DEFINE e == [name |-> "payment.initialized", of |-> p]
           n == Copies("payment.created", p)
           s == ShardOf[p]
<1>1. e \in Event /\ KeyOf(e) = p /\ e.of = p /\ e.name = "payment.initialized"
  BY Apart, EventFacts, KeyFacts DEF StatusEvents
<1>2. /\ step[p] = "publish" /\ hand[p].name = "payment.created"
      /\ queue' = [queue EXCEPT ![s] = @ \o n]
      /\ streams' = [streams EXCEPT ![p] = Append(@, e)]
      /\ hand' = [hand EXCEPT ![p] = e] /\ step' = [step EXCEPT ![p] = "file"]
      /\ UNCHANGED <<lines, garbled, fileOpen, writeFailures>>
      /\ UNCHANGED <<http, table, view, moved, restarts, unsaved>>
  BY <1>1 DEF CreatePublishCreated, BeginAppend, AppendToMemory, AtPublish
<1> DEFINE a == To("projector", "payment.created", p)
<1>3. /\ n \in Seq(Delivery) /\ (\A d : d \in Elems(n) <=> d = a)
      /\ \A w : Before(n, DeliveredTo(w), DeliveredTo(w))
  <2>1. "payment.created" \in Projected /\ "payment.created" \notin Handled
    BY DEF Projected, StatusEvents, Handled
  <2> QED
    BY <2>1, CopiesFacts, Apart
<1>4. /\ a \in Delivery /\ a.to = "projector" /\ a.event.of = p /\ a.event.name = "payment.created"
      /\ KeyOf(a.event) = p /\ a \in About(p) /\ a \notin Workflow(p)
      /\ \A name \in StatusEvents : To("projector", name, p) = a <=> name = "payment.created"
  BY Apart, EventFacts, KeyFacts DEF To, About, Workflow, Delivery, Event, Projected, StatusEvents
<1> HIDE DEF e, n, a
<1>5. s \in Shards /\ s # p
  BY Apart
<1> HIDE DEF s
<1>6. TypeOK /\ Home /\ WorkersMark /\ RequestsOwn /\ PaymentInv(p)
  BY DEF ReadInv
<1>7. PICK q : q = queue[s]
  OBVIOUS
<1>8. \A t \in Threads : t # p => step'[t] = step[t] /\ hand'[t] = hand[t]
  BY <1>2, <1>6 DEF TypeOK
<1>9. /\ queue' = [queue EXCEPT ![s] = q \o n] /\ q \in Seq(Delivery)
      /\ queue' \in [Shards -> Seq(Delivery)] /\ Home' /\ WorkersMark'
  <2>1. \A d \in Elems(n) : AtHome(d, s)
    BY <1>3, <1>4 DEF AtHome, s
  <2>2. \A t \in Shards : step'[t] = step[t] /\ hand'[t] = hand[t]
    BY <1>8, Apart
  <2> QED
    BY <1>2, <1>3, <1>5, <1>6, <1>7, <2>1, <2>2, PutGlobals
<1>10. streams[p] \in Seq(Event) /\ Append(streams[p], e) \in Seq(Event)
  BY <1>1, <1>6, Apart, ReadModelAssumption DEF TypeOK, StoreTypeOK
<1>11. TypeOK'
  <2>1. streams' \in [Aggregates -> Seq(Records)]
    BY <1>2, <1>6, <1>10, ReadModelAssumption DEF TypeOK, StoreTypeOK
  <2> QED
    BY <1>1, <1>2, <1>6, <1>9, <2>1, Apart DEF TypeOK, StoreTypeOK, Statuses
<1>12. RequestsOwn'
  BY <1>1, <1>2, <1>6, Apart DEF RequestsOwn, TypeOK
<1>13. ASSUME NEW r \in Payments, r # p PROVE PaymentInv(r)'
  <2>1. Still(r)
    BY <1>2, <1>6, <1>8, <1>13, Apart, OtherStill DEF TypeOK, StoreTypeOK
  <2>2. Passes(q, q \o n, r)
    BY <1>3, <1>4, <1>9, <1>13, PutPasses
  <2> QED
    BY <1>5, <1>6, <1>7, <1>9, <2>1, <2>2, PassesFrame DEF ReadInv
<1>14. PaymentInv(p)'
  <2>1. /\ table[p] = "initialized" /\ view[p] = "none"
        /\ Waiting(p) \intersect About(p) = {}
    BY <1>2, <1>6 DEF PaymentInv, CreateFirst
  <2>2. ~Marking(p)
    BY <1>6, <2>1, MarkingHead
  <2>3. /\ table'[p] = "initialized" /\ view'[p] = "none" /\ step'[p] = "file" /\ hand'[p] = e
        /\ lines'[p] = lines[p] /\ streams'[p] = Append(streams[p], e)
        /\ http'[p] = "running" /\ Marking(p)' = FALSE
    BY <1>2, <1>5, <1>6, <1>8, <2>1, <2>2, Apart DEF TypeOK, StoreTypeOK, Marking, s, RequestsOwn
  <2>4. /\ \A d : d \in Waiting(p) <=> d \in Elems(q)
        /\ \A d : d \in Waiting(p)' <=> d \in Waiting(p) \/ d = a
        /\ InOrder(q, p)
        /\ InOrder(q \o n, p) => Ordered(p)'
    <3>1. \A d : d \in Elems(q \o n) <=> d \in Elems(q) \/ d \in Elems(n)
      BY <1>3, <1>9, ConcatFacts
    <3>2. /\ \A d : d \in Waiting(p) <=> d \in Elems(q)
          /\ \A d : d \in Waiting(p)' <=> d \in Elems(q \o n)
          /\ Ordered(p) => InOrder(q, p)
          /\ InOrder(q \o n, p) => Ordered(p)'
      BY <1>6, <1>7, <1>9, OwnQueue DEF s
    <3> QED
      BY <1>3, <1>6, <3>1, <3>2 DEF PaymentInv
  <2>5. Ordered(p)'
    <3>1. \A d \in Elems(n) : d = a /\ d \notin Workflow(p) /\ d.to = "projector"
      BY <1>3, <1>4
    <3>2. \A d \in Elems(q) : d \notin About(p)
      BY <2>1, <2>4
    <3>3. /\ To("projector", "payment.initialized", p) \notin Elems(n)
          /\ To("projector", "payment.pending", p) \notin Elems(n)
      BY <1>4, <3>1 DEF StatusEvents
    <3> QED
      BY <1>3, <1>9, <2>4, <3>1, <3>2, <3>3, PutInOrder
  <2>6. Waiting(p)' \intersect Workflow(p) = {}
    BY <1>4, <2>1, <2>4 DEF About, Workflow
  <2>7. \A name \in StatusEvents : name # "payment.created" => ~Due(name, p)'
    <3>1. \A name \in StatusEvents : To("projector", name, p) \in About(p)
      BY DEF To, About, Delivery, Event, Projected, Requests
    <3> QED
      BY <1>4, <2>1, <2>4, <3>1 DEF Due
  <2>8. Due("payment.created", p)'
    BY <2>4 DEF Due, a
  <2>9. CreateFirst(p)'
    <3>1. "payment.initialized" \in StatusEvents
      BY DEF StatusEvents
    <3> QED
      BY <1>1, <2>3, <2>6, <2>7, <3>1 DEF CreateFirst
  <2>10. TableInPosition(p)'
    BY <2>3, <2>6 DEF TableInPosition
  <2>11. ViewBehind(p)'
    BY <1>1, <2>3, <2>7, <2>8 DEF ViewBehind, Behind, StatusEvents
  <2>12. RecordsInOrder(p)'
    <3>1. /\ ~Writes(p, p) /\ ~Writes(ShardOf[p], p)
          /\ Writes(p, p)' /\ ~Writes(ShardOf[p], p)'
      BY <1>1, <1>2, <2>2, <2>3 DEF Writes, Marking
    <3>2. table[p] = Earlier(e.name) /\ table'[p] = StatusOf[e.name]
      BY <1>1, <2>1, <2>3, NameFacts DEF Earlier
    <3> QED
      BY <1>1, <1>2, <1>6, <2>1, <2>3, <3>1, <3>2, RecordBegun DEF PaymentInv, StatusEvents
  <2> QED
    BY <2>5, <2>9, <2>10, <2>11, <2>12 DEF PaymentInv
<1>15. ASSUME NEW c \in Credits PROVE CreditInOrder(c)'
  BY <1>2, <1>6, <1>15, Apart, CreditKept DEF ReadInv, Appended, TypeOK, StoreTypeOK
<1> QED
  BY <1>9, <1>11, <1>12, <1>13, <1>14, <1>15 DEF ReadInv

LEMMA NothingFacts == Requests # {} => Nothing \in Event
<1> SUFFICES ASSUME Requests # {} PROVE \E e \in Event : TRUE
  BY DEF Nothing
<1>1. PICK r \in Requests : TRUE
  OBVIOUS
<1>2. [name |-> "payment.created", of |-> r] \in Event
  BY EventFacts DEF StatusEvents
<1> QED
  BY <1>2

\* Request r publishes n on shard s: what holds of the others stays.
LEMMA PublisherKeeps ==
  ASSUME ReadInv, NEW r \in Requests, NEW s \in Shards, NEW q, q = queue[s],
         NEW n \in Seq(Delivery), queue' = [queue EXCEPT ![s] = q \o n],
         \A w : Before(n, DeliveredTo(w), DeliveredTo(w)),
         \A d \in Elems(n) : d.event.of = r /\ AtHome(d, s),
         NEW x \in {"running", "accepted"}, http' = [http EXCEPT ![r] = x],
         NEW y \in {"ready", "announce"}, step' = [step EXCEPT ![r] = y],
         NEW h \in Event, hand' = [hand EXCEPT ![r] = h],
         y = "announce" => x = http[r] /\ h = hand[r], step[r] # "ready",
         UNCHANGED <<storeVars, table, view, moved, restarts, unsaved>>
  PROVE  /\ TypeOK' /\ Home' /\ WorkersMark' /\ RequestsOwn'
         /\ \A p \in Payments : p # r => PaymentInv(p)'
         /\ \A c \in Credits : c # r => CreditInOrder(c)'
<1>1. TypeOK /\ Home /\ WorkersMark /\ RequestsOwn
  BY DEF ReadInv
<1>2. UNCHANGED <<lines, streams, garbled, fileOpen, writeFailures>>
  BY DEF storeVars
<1>3. \A t \in Threads : t # r => step'[t] = step[t] /\ hand'[t] = hand[t]
  BY <1>1 DEF TypeOK
<1>4. q \in Seq(Delivery) /\ queue' \in [Shards -> Seq(Delivery)] /\ Home' /\ WorkersMark'
  <2>1. \A t \in Shards : step'[t] = step[t] /\ hand'[t] = hand[t]
    BY <1>3, Apart
  <2> QED
    BY <1>1, <2>1, PutGlobals
<1>5. TypeOK'
  BY <1>1, <1>2, <1>4 DEF TypeOK, StoreTypeOK
<1>6. RequestsOwn'
  BY <1>1, <1>3, Apart DEF RequestsOwn, TypeOK, Threads
<1>7. ASSUME NEW p \in Payments, p # r PROVE PaymentInv(p)'
  <2>1. Still(p)
    BY <1>1, <1>2, <1>3, <1>7, Apart, OtherStill DEF TypeOK
  <2>2. Passes(q, q \o n, p)
    BY <1>4, <1>7, PutPasses
  <2> QED
    BY <1>1, <2>1, <2>2, PassesFrame DEF ReadInv
<1>8. ASSUME NEW c \in Credits, c # r PROVE CreditInOrder(c)'
  BY <1>1, <1>2, <1>3, <1>8, Apart, CreditKept DEF ReadInv, Appended
<1> QED
  BY <1>4, <1>5, <1>6, <1>7, <1>8

\* One delivery.
LEMMA OneDelivery ==
  ASSUME NEW a \in Delivery
  PROVE  /\ <<a>> \in Seq(Delivery)
         /\ \A d : d \in Elems(<<a>>) <=> d = a
         /\ \A w : Before(<<a>>, DeliveredTo(w), DeliveredTo(w))
         /\ \A q \in Seq(Delivery) : Append(q, a) = q \o <<a>>
  BY ShortFacts, AppendPuts

LEMMA PublishInitializedKeeps ==
  ASSUME ReadInv, NEW p \in Payments, CreatePublishInitialized(p)
  PROVE  ReadInv'
<1> DEFINE a == To("workflow", "payment.initialized", p)
           n == <<a>>
<1>1. PICK s \in Shards : s = ShardOf[p]
  BY Apart
<1>2. /\ a \in Delivery /\ a.to = "workflow" /\ a.event.of = p /\ a.event.name = "payment.initialized"
      /\ a \in About(p) /\ a \in Workflow(p) /\ AtHome(a, s)
      /\ \A name : To("projector", name, p) # a
  BY <1>1, Apart, EventFacts, KeyFacts
     DEF To, About, Workflow, Delivery, Event, Projected, StatusEvents, AtHome
<1> HIDE DEF a
<1>3. /\ n \in Seq(Delivery) /\ (\A d : d \in Elems(n) <=> d = a)
      /\ \A w : Before(n, DeliveredTo(w), DeliveredTo(w))
      /\ \A q \in Seq(Delivery) : Append(q, a) = q \o n
  BY <1>2, OneDelivery
<1> HIDE DEF n
<1>4. TypeOK /\ Home /\ WorkersMark /\ RequestsOwn /\ PaymentInv(p)
  BY DEF ReadInv
<1>5. PICK q \in Seq(Delivery) : q = queue[s]
  BY <1>4 DEF TypeOK
<1>6. /\ step[p] = "publish" /\ hand[p].name = "payment.initialized"
      /\ queue' = [queue EXCEPT ![s] = q \o n]
      /\ step' = [step EXCEPT ![p] = "announce"]
      /\ UNCHANGED <<http, hand, table, view, moved, restarts, unsaved, storeVars>>
  BY <1>1, <1>3, <1>5 DEF CreatePublishInitialized, AtPublish, a
<1>7. UNCHANGED <<lines, streams>>
  BY <1>6 DEF storeVars
<1>8. http[p] = "running" /\ table[p] = "initialized" /\ s # p
  BY <1>1, <1>4, <1>6, Apart DEF RequestsOwn, PaymentInv, CreateFirst
<1>9. /\ TypeOK' /\ Home' /\ WorkersMark' /\ RequestsOwn'
      /\ \A r \in Payments : r # p => PaymentInv(r)'
      /\ \A c \in Credits : c # p => CreditInOrder(c)'
  <2>1. http' = [http EXCEPT ![p] = "running"] /\ hand' = [hand EXCEPT ![p] = hand[p]] /\ hand[p] \in Event
    BY <1>4, <1>6, <1>8, Apart DEF TypeOK
  <2>2. \A d \in Elems(n) : d.event.of = p /\ AtHome(d, s)
    BY <1>2, <1>3
  <2> QED
    BY <1>3, <1>5, <1>6, <1>8, <2>1, <2>2, Apart, PublisherKeeps
<1>10. PaymentInv(p)'
  <2>1. /\ \A d : d \in Waiting(p) <=> d \in Elems(q)
        /\ \A d : d \in Waiting(p)' <=> d \in Waiting(p) \/ d = a
        /\ InOrder(q, p)
        /\ InOrder(q \o n, p) => Ordered(p)'
    <3>1. \A d : d \in Elems(q \o n) <=> d \in Elems(q) \/ d \in Elems(n)
      BY <1>3, <1>5, ConcatFacts
    <3>2. /\ \A d : d \in Waiting(p) <=> d \in Elems(q)
          /\ \A d : d \in Waiting(p)' <=> d \in Elems(q \o n)
          /\ Ordered(p) => InOrder(q, p)
          /\ InOrder(q \o n, p) => Ordered(p)'
      BY <1>1, <1>4, <1>5, <1>6, OwnQueue
    <3> QED
      BY <1>3, <1>4, <3>1, <3>2 DEF PaymentInv
  <2>2. Waiting(p) \intersect Workflow(p) = {}
    BY <1>4, <1>6 DEF PaymentInv, CreateFirst
  <2>3. Ordered(p)'
    <3>1. \A d \in Elems(n) : d = a
      BY <1>3
    <3>2. \A d \in Elems(q) : d \notin Workflow(p)
      BY <2>1, <2>2
    <3>3. \A name : To("projector", name, p) \notin Elems(n)
      BY <1>2, <3>1
    <3> QED
      BY <1>3, <1>5, <2>1, <3>2, <3>3, PutInOrder
  <2>4. \A name : Due(name, p)' <=> Due(name, p)
    BY <1>2, <2>1 DEF Due
  <2>5. ~Marking(p) /\ Marking(p)' = FALSE
    <3>1. ~Marking(p)
      BY <1>4, <2>2, MarkingHead
    <3> QED
      BY <1>1, <1>4, <1>6, <1>8, <3>1 DEF Marking, TypeOK
  <2>6. step'[p] = "announce" /\ hand'[p] = hand[p]
    BY <1>4, <1>6, Apart DEF TypeOK
  <2>7. CreateFirst(p)'
    BY <1>4, <1>6, <1>8, <2>4, <2>6 DEF PaymentInv, CreateFirst
  <2>8. TableInPosition(p)'
    <3>1. \A d \in Waiting(p)' \intersect Workflow(p) : d = a
      BY <2>1, <2>2
    <3> QED
      BY <1>2, <1>6, <1>8, <2>5, <3>1 DEF TableInPosition, TableAt
  <2>9. ViewBehind(p)'
    BY <1>4, <1>6, <1>8, <2>4, <2>6 DEF PaymentInv, ViewBehind
  <2>10. RecordsInOrder(p)'
    <3>1. ~Writes(p, p) /\ ~Writes(ShardOf[p], p) /\ ~Writes(p, p)' /\ ~Writes(ShardOf[p], p)'
      BY <1>6, <2>5, <2>6 DEF Writes, Marking
    <3>2. /\ Written(p) \in Statuses => Written(p)' \in Statuses
          /\ Remembered(p) = table[p] => Remembered(p)' = table'[p]
      BY <1>6, <1>7 DEF Written, Remembered
    <3> QED
      BY <1>4, <1>6, <1>7, <3>1, <3>2 DEF PaymentInv, RecordsInOrder
  <2> QED
    BY <2>3, <2>7, <2>8, <2>9, <2>10 DEF PaymentInv
<1> QED
  BY <1>9, <1>10, Apart DEF ReadInv

LEMMA CreateAnnounceKeeps ==
  ASSUME ReadInv, NEW p \in Payments, CreateAnnounce(p)
  PROVE  ReadInv'
<1> DEFINE a == To("projector", "payment.initialized", p)
           n == <<a>>
<1>1. PICK s \in Shards : s = ShardOf[p]
  BY Apart
<1>2. /\ a \in Delivery /\ a.to = "projector" /\ a.event.of = p /\ a.event.name = "payment.initialized"
      /\ a \in About(p) /\ a \notin Workflow(p) /\ AtHome(a, s)
      /\ \A name : To("projector", name, p) = a <=> name = "payment.initialized"
  BY <1>1, Apart, EventFacts, KeyFacts
     DEF To, About, Workflow, Delivery, Event, Projected, StatusEvents, AtHome
<1> HIDE DEF a
<1>3. /\ n \in Seq(Delivery) /\ (\A d : d \in Elems(n) <=> d = a)
      /\ \A w : Before(n, DeliveredTo(w), DeliveredTo(w))
      /\ \A q \in Seq(Delivery) : Append(q, a) = q \o n
  BY <1>2, OneDelivery
<1> HIDE DEF n
<1>4. TypeOK /\ Home /\ WorkersMark /\ RequestsOwn /\ PaymentInv(p)
  BY DEF ReadInv
<1>5. PICK q \in Seq(Delivery) : q = queue[s]
  BY <1>4 DEF TypeOK
<1>6. /\ step[p] = "announce"
      /\ queue' = [queue EXCEPT ![s] = q \o n]
      /\ http' = [http EXCEPT ![p] = "accepted"]
      /\ step' = [step EXCEPT ![p] = "ready"]
      /\ hand' = [hand EXCEPT ![p] = Nothing]
      /\ UNCHANGED <<table, view, moved, restarts, unsaved, storeVars>>
  BY <1>1, <1>3, <1>5 DEF CreateAnnounce, PutDown, a
<1>7. UNCHANGED <<lines, streams>>
  BY <1>6 DEF storeVars
<1>8. http[p] = "running" /\ table[p] # "none" /\ s # p /\ hand[p].name = "payment.initialized"
  BY <1>1, <1>4, <1>6, Apart DEF RequestsOwn, PaymentInv, CreateFirst
<1>9. /\ TypeOK' /\ Home' /\ WorkersMark' /\ RequestsOwn'
      /\ \A r \in Payments : r # p => PaymentInv(r)'
      /\ \A c \in Credits : c # p => CreditInOrder(c)'
  <2>1. Nothing \in Event
    BY Apart, NothingFacts
  <2>2. \A d \in Elems(n) : d.event.of = p /\ AtHome(d, s)
    BY <1>2, <1>3
  <2> QED
    BY <1>3, <1>5, <1>6, <2>1, <2>2, Apart, PublisherKeeps
<1>10. PaymentInv(p)'
  <2>1. /\ \A d : d \in Waiting(p) <=> d \in Elems(q)
        /\ \A d : d \in Waiting(p)' <=> d \in Waiting(p) \/ d = a
        /\ InOrder(q, p)
        /\ InOrder(q \o n, p) => Ordered(p)'
    <3>1. \A d : d \in Elems(q \o n) <=> d \in Elems(q) \/ d \in Elems(n)
      BY <1>3, <1>5, ConcatFacts
    <3>2. /\ \A d : d \in Waiting(p) <=> d \in Elems(q)
          /\ \A d : d \in Waiting(p)' <=> d \in Elems(q \o n)
          /\ Ordered(p) => InOrder(q, p)
          /\ InOrder(q \o n, p) => Ordered(p)'
      BY <1>1, <1>4, <1>5, <1>6, OwnQueue
    <3> QED
      BY <1>3, <1>4, <3>1, <3>2 DEF PaymentInv
  <2>2. ~Due("payment.initialized", p)
    BY <1>4, <1>8 DEF PaymentInv, CreateFirst
  <2>3. Ordered(p)'
    <3>1. \A d \in Elems(n) : d = a
      BY <1>3
    <3>2. a \notin Elems(q)
      BY <2>1, <2>2 DEF Due, a
    <3>3. \A d \in Elems(n) : d \notin Workflow(p)
      BY <1>2, <3>1
    <3>4. /\ To("projector", "payment.created", p) \notin Elems(n)
          /\ To("projector", "payment.pending", p) \notin Elems(n)
          /\ To("projector", "payment.initialized", p) = a
      BY <1>2, <3>1
    <3> QED
      BY <1>3, <1>5, <2>1, <3>2, <3>3, <3>4, PutInOrder
  <2>4. \A name : name # "payment.initialized" => (Due(name, p)' <=> Due(name, p))
    BY <1>2, <2>1 DEF Due
  <2>5. /\ Marking(p)' <=> Marking(p)
        /\ hand'[s] = hand[s] /\ step'[s] = step[s]
    BY <1>1, <1>4, <1>6, <1>8, Apart DEF Marking, TypeOK
  <2>6. step'[p] = "ready" /\ http'[p] = "accepted"
    BY <1>4, <1>6, Apart DEF TypeOK
  <2>7. CreateFirst(p)'
    BY <1>4, <1>6, <1>8, <2>4, <2>6 DEF PaymentInv, CreateFirst
  <2>8. TableInPosition(p)'
    <3>1. \A d \in Waiting(p)' \intersect Workflow(p) : d \in Waiting(p) \intersect Workflow(p)
      BY <1>2, <2>1
    <3> QED
      BY <1>1, <1>4, <1>6, <2>5, <3>1 DEF PaymentInv, TableInPosition
  <2>9. ViewBehind(p)'
    BY <1>4, <1>6, <1>8, <2>4, <2>5, <2>6 DEF PaymentInv, ViewBehind
  <2>10. RecordsInOrder(p)'
    <3>1. ~Writes(p, p) /\ ~Writes(p, p)' /\ (Writes(ShardOf[p], p)' <=> Writes(ShardOf[p], p))
      BY <1>1, <1>6, <2>5, <2>6 DEF Writes
    <3>2. /\ Written(p) \in Statuses => Written(p)' \in Statuses
          /\ Remembered(p) = table[p] => Remembered(p)' = table'[p]
          /\ \A x : Written(p) = x => Written(p)' = x
      BY <1>6, <1>7 DEF Written, Remembered
    <3> QED
      BY <1>1, <1>4, <1>6, <1>7, <2>5, <3>1, <3>2 DEF PaymentInv, RecordsInOrder
  <2> QED
    BY <2>3, <2>7, <2>8, <2>9, <2>10 DEF PaymentInv
<1> QED
  BY <1>9, <1>10, Apart DEF ReadInv

LEMMA CreditSaveKeeps ==
  ASSUME ReadInv, NEW c \in Credits, CreditSave(c)
  PROVE  ReadInv'
<1> DEFINE e == Credited(c)
<1>0. PICK u \in Users : u = Owner[c]
  BY Apart
<1>1. e \in Event /\ KeyOf(e) = u /\ e.of = c /\ e.name = "wallet.credited" /\ u \in Aggregates /\ u \notin Payments
  BY <1>0, Apart, EventFacts, KeyFacts DEF MovementEvents, Credited
<1>2. /\ http[c] = "start" /\ http' = [http EXCEPT ![c] = "running"]
      /\ streams' = [streams EXCEPT ![u] = Append(@, e)]
      /\ hand' = [hand EXCEPT ![c] = e] /\ step' = [step EXCEPT ![c] = "file"]
      /\ UNCHANGED <<lines, garbled, fileOpen, writeFailures>>
      /\ UNCHANGED <<table, queue, view, moved, restarts, unsaved>>
  BY <1>1 DEF CreditSave, BeginAppend, AppendToMemory, Credited
<1> HIDE DEF e
<1>3. TypeOK /\ Home /\ WorkersMark /\ RequestsOwn
  BY DEF ReadInv
<1>4. streams[u] \in Seq(Event) /\ Append(streams[u], e) \in Seq(Event)
  BY <1>1, <1>3, ReadModelAssumption DEF TypeOK, StoreTypeOK
<1>5. TypeOK'
  <2>1. streams' \in [Aggregates -> Seq(Records)]
    BY <1>2, <1>3, <1>4, ReadModelAssumption DEF TypeOK, StoreTypeOK
  <2> QED
    BY <1>1, <1>2, <1>3, <2>1, Apart DEF TypeOK, StoreTypeOK
<1>6. Home' /\ WorkersMark'
  BY <1>2, <1>3, Apart DEF Home, Elems, AtHome, WorkersMark, TypeOK
<1>7. RequestsOwn'
  BY <1>1, <1>2, <1>3, Apart DEF RequestsOwn, TypeOK
<1>8. ASSUME NEW r \in Payments PROVE PaymentInv(r)'
  <2>1. Still(r)
    <3>1. c \in Requests /\ r # c /\ r # u /\ r \in Aggregates /\ r \in Requests
      BY <1>1, Apart
    <3>2. /\ http'[r] = http[r] /\ streams'[r] = streams[r]
          /\ \A t \in Threads : t # c => step'[t] = step[t] /\ hand'[t] = hand[t]
      BY <1>2, <1>3, <3>1 DEF TypeOK, StoreTypeOK
    <3> QED
      BY <1>2, <1>3, <3>1, <3>2, OtherStill
  <2>2. Frame(r)
    BY <1>2, <2>1, <1>8 DEF Frame, ReadInv, PaymentInv, Ordered, QueueOf, Waiting, Due, Elems, InOrder, Before
  <2> QED
    BY <2>2, FrameKeeps DEF ReadInv
<1>9. ASSUME NEW d \in Credits, d # c PROVE CreditInOrder(d)'
  <2>1. e # Credited(d)
    BY <1>1, <1>9 DEF Credited
  <2>2. Appended(streams[Owner[d]], streams'[Owner[d]], Credited(d))
    <3>1. Owner[d] \in Aggregates
      BY Apart
    <3>2. \/ streams'[Owner[d]] = streams[Owner[d]]
          \/ streams'[Owner[d]] = Append(streams[Owner[d]], e)
      BY <1>2, <1>3, <3>1 DEF TypeOK, StoreTypeOK
    <3> QED
      BY <1>1, <2>1, <3>2 DEF Appended
  <2>3. step'[d] = step[d]
    BY <1>2, <1>3, <1>9, Apart DEF TypeOK
  <2> QED
    BY <1>2, <1>3, <2>2, <2>3, CreditKept DEF ReadInv, Appended
<1>10. CreditInOrder(c)'
  <2>1. PICK m : m = streams[u]
    OBVIOUS
  <2>2. PICK m2 : m2 = streams'[u]
    OBVIOUS
  <2>3. PICK l : l = lines[u]
    OBVIOUS
  <2>4. /\ c \notin unsaved => Occurrences(m, e) = Occurrences(l, e) + (IF step[c] = "file" THEN 1 ELSE 0)
        /\ CreditInOrder(c)' <=> (c \notin unsaved' =>
             Occurrences(m2, e) = Occurrences(l, e) + (IF step'[c] = "file" THEN 1 ELSE 0))
    BY <1>0, <1>2, <2>1, <2>2, <2>3 DEF ReadInv, CreditInOrder, Occurrences, e, Credited
  <2>5. m2 = Append(m, e) /\ step'[c] = "file" /\ step[c] = "ready"
    BY <1>1, <1>2, <1>3, <2>1, <2>2, Apart DEF TypeOK, StoreTypeOK, RequestsOwn
  <2>6. m \in Seq(Event) /\ l \in Seq(Event)
    BY <1>1, <1>3, <2>1, <2>3, ReadModelAssumption DEF TypeOK, StoreTypeOK
  <2>7. Occurrences(l, e) \in Nat
    BY <1>1, <2>6, OccurrencesFacts
  <2>8. /\ Occurrences(m, e) \in Nat /\ Occurrences(m2, e) \in Nat
        /\ Occurrences(m2, e) >= Occurrences(m, e) + 1
        /\ Occurrences(m2, e) <= Occurrences(m, e) + 1
    <3>1. m2 \in Seq(Event)
      BY <1>1, <2>5, <2>6
    <3> QED
      BY <1>1, <2>5, <2>6, <3>1, OccurrencesFacts
  <2> QED
    BY <1>2, <2>4, <2>5, <2>7, <2>8
<1> QED
  BY <1>5, <1>6, <1>7, <1>8, <1>9, <1>10 DEF ReadInv

LEMMA CreditPublishKeeps ==
  ASSUME ReadInv, NEW c \in Credits, CreditPublish(c)
  PROVE  ReadInv'
<1> DEFINE n == Copies("wallet.credited", c)
           a == To("projector", "wallet.credited", c)
<1>1. PICK s \in Shards : s = ShardOf[Owner[c]]
  BY Apart
<1>2. /\ n \in Seq(Delivery) /\ \A d : d \in Elems(n) <=> d = a
      /\ \A w : Before(n, DeliveredTo(w), DeliveredTo(w))
  <2>1. "wallet.credited" \in Projected /\ "wallet.credited" \notin Handled
    BY DEF Projected, MovementEvents, Handled
  <2> QED
    BY <2>1, CopiesFacts, Apart
<1>3. a.event.of = c /\ AtHome(a, s)
  BY <1>1, Apart, EventFacts, KeyFacts DEF To, AtHome, MovementEvents, StatusEvents
<1>4. \A d \in Elems(n) : d.event.of = c /\ AtHome(d, s)
  BY <1>2, <1>3
<1> HIDE DEF n, a
<1>5. TypeOK /\ RequestsOwn
  BY DEF ReadInv
<1>6. PICK q \in Seq(Delivery) : q = queue[s]
  BY <1>5 DEF TypeOK
<1>7. /\ step[c] = "publish"
      /\ queue' = [queue EXCEPT ![s] = q \o n]
      /\ http' = [http EXCEPT ![c] = "accepted"]
      /\ step' = [step EXCEPT ![c] = "ready"]
      /\ hand' = [hand EXCEPT ![c] = Nothing]
      /\ UNCHANGED <<table, view, moved, restarts, unsaved, storeVars>>
  BY <1>1, <1>6 DEF CreditPublish, AtPublish, PutDown, n
<1>8. /\ TypeOK' /\ Home' /\ WorkersMark' /\ RequestsOwn'
      /\ \A r \in Payments : r # c => PaymentInv(r)'
      /\ \A d \in Credits : d # c => CreditInOrder(d)'
  <2>1. Nothing \in Event
    BY Apart, NothingFacts
  <2> QED
    BY <1>2, <1>4, <1>6, <1>7, <2>1, Apart, PublisherKeeps
<1>9. CreditInOrder(c)'
  <2>1. step'[c] # "file" /\ step[c] # "file"
    BY <1>5, <1>7, Apart DEF TypeOK
  <2> QED
    BY <1>5, <1>7, <2>1, CreditKept DEF ReadInv, Appended, storeVars
<1> QED
  BY <1>8, <1>9, Apart DEF ReadInv

-----------------------------------------------------------------------------
(* The workers. *)

\* The worker of s takes the head of its queue q and puts m behind.
TookAndPut(s, q, m) == queue' = [queue EXCEPT ![s] = Tail(q) \o m]

\* The worker of s is done with a delivery about r and has published m: what
\* holds of the others stays.
LEMMA WorkerKeeps ==
  ASSUME ReadInv, NEW s \in Shards, NEW q \in Seq(Delivery), q = queue[s], q # <<>>,
         NEW r, r = Head(q).event.of,
         NEW m \in Seq(Delivery), TookAndPut(s, q, m),
         \A w : Before(m, DeliveredTo(w), DeliveredTo(w)),
         \A d \in Elems(m) : d.event.of = r /\ AtHome(d, s),
         step'[s] = "ready",
         \A t \in Threads : t # s => step'[t] = step[t] /\ hand'[t] = hand[t],
         \A p \in Payments : p # r => view'[p] = view[p],
         UNCHANGED <<storeVars, http, table, unsaved>>
  PROVE  /\ queue' \in [Shards -> Seq(Delivery)] /\ Home' /\ WorkersMark' /\ RequestsOwn'
         /\ \A p \in Payments : p # r => PaymentInv(p)'
         /\ \A c \in Credits : CreditInOrder(c)'
<1>1. TypeOK /\ Home /\ WorkersMark /\ RequestsOwn
  BY DEF ReadInv
<1>2. UNCHANGED <<lines, streams>>
  BY DEF storeVars
<1>3. /\ Tail(q) \in Seq(Delivery)
      /\ \A d : d \in Elems(q) <=> d = Head(q) \/ d \in Elems(Tail(q))
  BY TailFacts
<1> DEFINE t1 == Tail(q)
<1> HIDE DEF t1
<1>4. /\ t1 \in Seq(Delivery) /\ t1 \o m \in Seq(Delivery)
      /\ \A d : d \in Elems(t1 \o m) <=> d \in Elems(t1) \/ d \in Elems(m)
      /\ queue' = [queue EXCEPT ![s] = t1 \o m]
  BY <1>3, ConcatFacts DEF t1, TookAndPut
<1>5. \A d \in Elems(t1 \o m) : d \in Elems(q) \/ AtHome(d, s)
  BY <1>3, <1>4 DEF t1
<1>6. queue' \in [Shards -> Seq(Delivery)] /\ Home' /\ WorkersMark'
  <2>1. \A t \in Shards : t # s => step'[t] = step[t] /\ hand'[t] = hand[t]
    BY Apart
  <2> QED
    BY <1>1, <1>4, <1>5, <2>1, TakeGlobals
<1>7. RequestsOwn'
  BY <1>1, Apart DEF RequestsOwn, Threads
<1>8. ASSUME NEW p \in Payments, p # r PROVE PaymentInv(p)'
  <2>1. ~(ShardOf[p] = s /\ Marking(p))
    <3> SUFFICES ASSUME ShardOf[p] = s, Marking(p) PROVE FALSE
      OBVIOUS
    <3>1. Head(q).event.of = p
      BY <1>1, MarkingHead DEF About, QueueOf
    <3> QED
      BY <1>8, <3>1
  <2>2. /\ Marking(p)' <=> Marking(p)
        /\ Marking(p) => /\ step'[ShardOf[p]] = step[ShardOf[p]]
                         /\ hand'[ShardOf[p]] = hand[ShardOf[p]]
    BY <2>1, Apart DEF Marking
  <2>3. step'[p] = step[p] /\ hand'[p] = hand[p]
    BY Apart
  <2>4. Still(p)
    BY <1>2, <1>8, <2>2, <2>3 DEF Still
  <2>5. Passes(q, t1 \o m, p)
    <3>1. Passes(q, t1, p)
      BY <1>8, TakePasses DEF t1
    <3>2. Passes(t1, t1 \o m, p)
      BY <1>4, <1>8, PutPasses
    <3> QED
      BY <3>1, <3>2, PassesOn
  <2> QED
    BY <1>1, <1>4, <2>4, <2>5, PassesFrame DEF ReadInv
<1>9. ASSUME NEW c \in Credits PROVE CreditInOrder(c)'
  <2>1. step'[c] = step[c]
    BY Apart
  <2> QED
    BY <1>1, <1>2, <2>1, CreditKept DEF ReadInv, Appended
<1> QED
  BY <1>6, <1>7, <1>8, <1>9

\* What waits for p after the worker has taken a delivery about p and published m.
LEMMA OwnTake ==
  ASSUME ReadInv, NEW s \in Shards, NEW q \in Seq(Delivery), q = queue[s], q # <<>>,
         NEW p \in Payments, p = Head(q).event.of,
         NEW m \in Seq(Delivery), TookAndPut(s, q, m)
  PROVE  /\ s = ShardOf[p]
         /\ \A d : d \in Waiting(p) <=> d \in Elems(q)
         /\ \A d : d \in Waiting(p)' <=> d \in Elems(Tail(q)) \/ d \in Elems(m)
         /\ Head(q) \in About(p)
         /\ Tail(q) \in Seq(Delivery)
         /\ InOrder(q, p) /\ InOrder(Tail(q), p)
         /\ InOrder(Tail(q) \o m, p) => Ordered(p)'
<1>1. TypeOK /\ Home /\ Ordered(p)
  BY DEF ReadInv, PaymentInv
<1>2. /\ Tail(q) \in Seq(Delivery) /\ Head(q) \in Delivery /\ Head(q) \in Elems(q)
      /\ \A d : d \in Elems(q) <=> d = Head(q) \/ d \in Elems(Tail(q))
  BY TailFacts
<1>3. s = ShardOf[p]
  <2>1. AtHome(Head(q), s) /\ Head(q).event \in Event
    BY <1>1, <1>2 DEF Home, Delivery
  <2> QED
    BY <2>1, KeyFacts DEF AtHome
<1> DEFINE t1 == Tail(q)
<1> HIDE DEF t1
<1>4. \A d : d \in Elems(t1 \o m) <=> d \in Elems(t1) \/ d \in Elems(m)
  BY <1>2, ConcatFacts DEF t1
<1>5. queue' = [queue EXCEPT ![s] = t1 \o m]
  BY DEF t1, TookAndPut
<1>6. /\ \A d : d \in Waiting(p) <=> d \in Elems(q)
      /\ \A d : d \in Waiting(p)' <=> d \in Elems(t1 \o m)
      /\ Ordered(p) => InOrder(q, p)
      /\ InOrder(t1 \o m, p) => Ordered(p)'
  BY <1>1, <1>3, <1>5, OwnQueue
<1>7. InOrder(Tail(q), p)
  BY <1>1, <1>6, TakeInOrder
<1> QED
  BY <1>1, <1>2, <1>3, <1>4, <1>6, <1>7 DEF About, t1

\* The workflow is at p only when Create has published all of p's beginning that
\* comes before, and the projector knows of p.
LEMMA AtWork ==
  ASSUME ReadInv, NEW p \in Payments, NEW d \in Waiting(p), d \in Workflow(p)
  PROVE  /\ step[p] \in {"ready", "announce"} /\ table[p] # "none" /\ ~Writes(p, p)
         /\ http[p] # "start"
<1>1. PaymentInv(p) /\ TypeOK
  BY DEF ReadInv
<1>2. d \in About(p)
  BY DEF Workflow, About
<1>3. step[p] \in {"ready", "file", "publish", "announce"}
  BY <1>1, Apart DEF TypeOK
<1>4. step[p] \notin {"file", "publish"} /\ table[p] # "none"
  BY <1>1, <1>2 DEF PaymentInv, CreateFirst
<1>5. http[p] # "start"
  BY <1>1, <1>4 DEF PaymentInv, CreateFirst
<1> QED
  BY <1>3, <1>4, <1>5 DEF Writes

\* A money handler, or the recovery handler, publishes an event for which the
\* table is where it should be.
LEMMA MoneyKeeps ==
  ASSUME ReadInv, NEW s \in Shards, NEW q \in Seq(Delivery), q = queue[s],
         Takes(s, "workflow"), NEW p, p = Head(q).event.of,
         NEW name \in Handled \union Projected, name \notin StatusEvents,
         name \in Handled => table[p] \in TableAt(name),
         NEW m, m = Copies(name, p), TookAndPut(s, q, m),
         UNCHANGED <<http, step, hand, table, view, moved, restarts, unsaved, storeVars>>
  PROVE  ReadInv'
<1> DEFINE h == Head(q)
<1>1. TypeOK /\ Home
  BY DEF ReadInv
<1>2. q # <<>> /\ step[s] = "ready" /\ h.to = "workflow"
  BY DEF Takes
<1>3. h \in Delivery /\ h \in Elems(q)
  BY <1>2, TailFacts
<1>4. AtHome(h, s) /\ h.event \in Event
  BY <1>1, <1>3 DEF Home, Delivery
<1>5. p \in Payments /\ ShardOf[p] = s /\ h \in Workflow(p)
  BY <1>2, <1>3, <1>4, KeyFacts DEF AtHome, Workflow
<1>6. /\ m \in Seq(Delivery)
      /\ \A d : d \in Elems(m) <=>
              \/ d = To("workflow", name, p) /\ name \in Handled
              \/ d = To("projector", name, p) /\ name \in Projected
      /\ \A w : Before(m, DeliveredTo(w), DeliveredTo(w))
  BY <1>5, Apart, CopiesFacts
<1>7. \A to \in {"workflow", "projector"} :
        /\ To(to, name, p).event.of = p /\ To(to, name, p).event.name = name
        /\ AtHome(To(to, name, p), s)
  <2>1. [name |-> name, of |-> p] \in Event
    BY <1>5, Apart DEF Event
  <2> QED
    BY <1>5, <2>1, KeyFacts DEF To, AtHome
<1>8. \A d \in Elems(m) : d.event.of = p /\ d.event.name = name /\ AtHome(d, s)
  BY <1>6, <1>7
<1>13. /\ step'[s] = "ready" /\ UNCHANGED <<storeVars, http, table, unsaved>>
       /\ \A t \in Threads : t # s => step'[t] = step[t] /\ hand'[t] = hand[t]
       /\ \A r \in Payments : r # p => view'[r] = view[r]
  BY <1>2
<1>9. /\ queue' \in [Shards -> Seq(Delivery)] /\ Home' /\ WorkersMark' /\ RequestsOwn'
      /\ \A r \in Payments : r # p => PaymentInv(r)'
      /\ \A c \in Credits : CreditInOrder(c)'
  <2>1. \A d \in Elems(m) : d.event.of = p /\ AtHome(d, s)
    BY <1>8
  <2>2. m \in Seq(Delivery) /\ \A w : Before(m, DeliveredTo(w), DeliveredTo(w))
    BY <1>6
  <2>3. q # <<>>
    BY <1>2
  <2> QED
    BY <1>13, <2>1, <2>2, <2>3, WorkerKeeps
<1>10. TypeOK'
  BY <1>1, <1>9 DEF TypeOK, StoreTypeOK, storeVars
<1>11. PaymentInv(p)'
  <2>1. /\ h \in Waiting(p)
        /\ \A d \in Elems(Tail(q)) : d \in Waiting(p)
        /\ \A d \in Waiting(p) : d # h => d \in Elems(Tail(q))
        /\ \A d : d \in Waiting(p)' <=> d \in Elems(Tail(q)) \/ d \in Elems(m)
        /\ Tail(q) \in Seq(Delivery)
        /\ InOrder(q, p) /\ InOrder(Tail(q), p)
        /\ InOrder(Tail(q) \o m, p) => Ordered(p)'
    <3>1. q # <<>> /\ m \in Seq(Delivery) /\ p \in Payments
      BY <1>2, <1>5, <1>6
    <3>4. \A d : d \in Waiting(p) <=> d \in Elems(q)
      BY <1>5, <3>1, WaitingIs
    <3>5. \A d : d \in Waiting(p)' <=> d \in Elems(Tail(q)) \/ d \in Elems(m)
      BY <3>1, OwnTake
    <3>2. /\ Tail(q) \in Seq(Delivery)
          /\ InOrder(q, p) /\ InOrder(Tail(q), p)
          /\ InOrder(Tail(q) \o m, p) => Ordered(p)'
      BY <3>1, OwnTake
    <3>3. \A d : d \in Elems(q) <=> d = h \/ d \in Elems(Tail(q))
      BY <3>1, TailFacts
    <3> QED
      BY <3>2, <3>3, <3>4, <3>5
  <2>2. \A d \in Elems(Tail(q)) : d \notin Workflow(p)
    BY <1>2, <1>5, <2>1, TakeInOrder
  <2>3. \A x \in StatusEvents : To("projector", x, p) \notin Elems(m) /\ To("projector", x, p) # h
    BY <1>2, <1>8 DEF To
  <2>4. Ordered(p)'
    <3>1. /\ To("projector", "payment.initialized", p) \notin Elems(m)
          /\ To("projector", "payment.created", p) \notin Elems(m)
          /\ To("projector", "payment.pending", p) \notin Elems(m)
      BY <2>3 DEF StatusEvents
    <3> DEFINE t1 == Tail(q)
    <3>2. /\ t1 \in Seq(Delivery) /\ InOrder(t1, p) /\ \A d \in Elems(t1) : d \notin Workflow(p)
          /\ InOrder(t1 \o m, p) => Ordered(p)'
      BY <2>1, <2>2
    <3> HIDE DEF t1
    <3> QED
      BY <1>5, <1>6, <3>1, <3>2, PutInOrder
  <2>5. \A x \in StatusEvents : Due(x, p)' <=> Due(x, p)
    BY <2>1, <2>3 DEF Due
  <2>6. \A x \in {"payment.created", "payment.initialized", "payment.pending",
                  "payment.rejected", "payment.completed", "payment.failed"} : Due(x, p)' <=> Due(x, p)
    BY <2>5 DEF StatusEvents
  <2>7. /\ step[p] \in {"ready", "announce"} /\ table[p] # "none" /\ ~Writes(p, p)
        /\ http[p] # "start"
    BY <1>5, <2>1, AtWork
  <2>8. PaymentInv(p) /\ ~Marking(p) /\ Marking(p)' = FALSE
    BY <1>2, <1>5 DEF ReadInv, Marking
  <2>9. CreateFirst(p)'
    BY <2>6, <2>7, <2>8 DEF PaymentInv, CreateFirst
  <2>10. TableInPosition(p)'
    <3>1. \A d \in Waiting(p)' \intersect Workflow(p) : d.event.name = name /\ name \in Handled
      <4>1. \A d \in Elems(m) \intersect Workflow(p) : name \in Handled
        BY <1>6 DEF Workflow, To
      <4> QED
        BY <1>8, <2>1, <2>2, <4>1
    <3> QED
      BY <2>8, <3>1 DEF TableInPosition
  <2>11. ViewBehind(p)'
    BY <2>6, <2>7, <2>8 DEF PaymentInv, ViewBehind
  <2>12. RecordsInOrder(p)'
    <3>1. ~Writes(ShardOf[p], p) /\ ~Writes(p, p)' /\ ~Writes(ShardOf[p], p)'
      BY <2>7, <2>8 DEF Writes, Marking
    <3>2. /\ Written(p) \in Statuses => Written(p)' \in Statuses
          /\ Remembered(p) = table[p] => Remembered(p)' = table'[p]
      BY DEF Written, Remembered, storeVars
    <3> QED
      BY <2>7, <2>8, <3>1, <3>2 DEF PaymentInv, RecordsInOrder, storeVars
  <2> QED
    BY <2>4, <2>9, <2>10, <2>11, <2>12 DEF PaymentInv
<1> QED
  BY <1>9, <1>10, <1>11 DEF ReadInv

\* The delivery that a worker of the workflow takes.
LEMMA WorkAhead ==
  ASSUME ReadInv, NEW s \in Shards, NEW q \in Seq(Delivery), q = queue[s],
         Takes(s, "workflow"), NEW p, p = Head(q).event.of
  PROVE  /\ p \in Payments /\ ShardOf[p] = s /\ Head(q) \in Delivery
         /\ Head(q) \in Workflow(p) /\ Head(q) \in Waiting(p)
         /\ table[p] \in TableAt(Head(q).event.name)
<1> DEFINE h == Head(q)
<1>1. q # <<>> /\ step[s] = "ready" /\ h.to = "workflow"
  BY DEF Takes
<1>2. h \in Delivery /\ h \in Elems(q)
  BY <1>1, TailFacts
<1>3. AtHome(h, s) /\ h.event \in Event
  BY <1>2 DEF ReadInv, Home, Delivery
<1>4. p \in Payments /\ ShardOf[p] = s /\ h \in Workflow(p)
  BY <1>1, <1>2, <1>3, KeyFacts DEF AtHome, Workflow
<1>5. h \in Waiting(p)
  BY <1>2, <1>4, WaitingIs
<1>6. ~Marking(p)
  BY <1>1, <1>4 DEF Marking
<1>7. table[p] \in TableAt(h.event.name)
  BY <1>4, <1>5, <1>6 DEF ReadInv, PaymentInv, TableInPosition
<1> QED
  BY <1>2, <1>4, <1>5, <1>7

LEMMA HandleMoneyKeeps ==
  ASSUME ReadInv, NEW s \in Shards, NEW outcome, HandleMoney(s, outcome)
  PROVE  ReadInv'
<1>1. PICK q \in Seq(Delivery) : q = queue[s]
  BY DEF ReadInv, TypeOK
<1>2. PICK p : p = Head(q).event.of
  OBVIOUS
<1>3. /\ Takes(s, "workflow") /\ outcome \in Outcomes(Head(q).event.name)
      /\ queue' = [queue EXCEPT ![s] = Tail(q) \o Copies(outcome, p)]
      /\ UNCHANGED <<http, step, hand, table, view, moved, restarts, unsaved, storeVars>>
  BY <1>1, <1>2 DEF HandleMoney
<1>4. table[p] \in TableAt(Head(q).event.name)
  BY <1>1, <1>2, <1>3, WorkAhead
<1>6. PICK m : m = Copies(outcome, p)
  OBVIOUS
<1>7. TookAndPut(s, q, m)
  BY <1>3, <1>6 DEF TookAndPut
<1>5. /\ outcome \in Handled \union Projected /\ outcome \notin StatusEvents
      /\ outcome \in Handled => table[p] \in TableAt(outcome)
  BY <1>3, <1>4 DEF Outcomes, TableAt, Handled, Projected, MovementEvents, StatusEvents
<1> QED
  BY <1>1, <1>2, <1>3, <1>5, <1>6, <1>7, MoneyKeeps

LEMMA RecoverKeeps ==
  ASSUME ReadInv, NEW s \in Shards, Recover(s)
  PROVE  ReadInv'
<1>1. PICK q \in Seq(Delivery) : q = queue[s]
  BY DEF ReadInv, TypeOK
<1>2. PICK p : p = Head(q).event.of
  OBVIOUS
<1>3. PICK name : name = IF table[p] = "pending" THEN "payment.charge_requested"
                                                 ELSE "wallet.debit_requested"
  OBVIOUS
<1>4. /\ Takes(s, "workflow") /\ Head(q).event.name = "recovery.requested"
      /\ queue' = [queue EXCEPT ![s] = Tail(q) \o Copies(name, p)]
      /\ UNCHANGED <<http, step, hand, table, view, moved, restarts, unsaved, storeVars>>
  BY <1>1, <1>2, <1>3 DEF Recover
<1>5. table[p] \in {"initialized", "pending"}
  BY <1>1, <1>2, <1>4, WorkAhead DEF TableAt
<1>7. PICK m : m = Copies(name, p)
  OBVIOUS
<1>8. TookAndPut(s, q, m)
  BY <1>4, <1>7 DEF TookAndPut
<1>6. /\ name \in Handled \union Projected /\ name \notin StatusEvents
      /\ table[p] \in TableAt(name)
  BY <1>3, <1>5 DEF TableAt, Handled, StatusEvents
<1> QED
  BY <1>1, <1>2, <1>4, <1>6, <1>7, <1>8, MoneyKeeps

\* A Mark... handler begins.
LEMMA MarkSaveKeeps ==
  ASSUME ReadInv, NEW s \in Shards, MarkSave(s)
  PROVE  ReadInv'
<1>1. PICK q \in Seq(Delivery) : q = queue[s]
  BY DEF ReadInv, TypeOK
<1>2. PICK p : p = Head(q).event.of
  OBVIOUS
<1>3. PICK name : name = Head(q).event.name
  OBVIOUS
<1>4. TypeOK /\ Home /\ WorkersMark /\ RequestsOwn
  BY DEF ReadInv
<1>5. Takes(s, "workflow") /\ name \in DOMAIN Marks /\ step[s] = "ready" /\ q # <<>>
      /\ Head(q).to = "workflow"
  BY <1>1, <1>3 DEF MarkSave, Takes
<1>6. /\ p \in Payments /\ ShardOf[p] = s /\ Head(q) \in Workflow(p) /\ Head(q) \in Waiting(p)
      /\ table[p] \in TableAt(name)
  BY <1>1, <1>2, <1>3, <1>5, WorkAhead
<1>7. PICK e : e = [name |-> Marks[name], of |-> p]
  OBVIOUS
<1>8. /\ e \in Event /\ KeyOf(e) = p /\ e.of = p /\ e.name = Marks[name]
      /\ e.name \in {"payment.pending", "payment.rejected", "payment.completed", "payment.failed"}
      /\ e.name \in StatusEvents
  BY <1>5, <1>6, <1>7, Apart, EventFacts, KeyFacts, NameFacts DEF StatusEvents
<1>9. /\ table' = [table EXCEPT ![p] = StatusOf[e.name]]
      /\ streams' = [streams EXCEPT ![p] = Append(@, e)]
      /\ hand' = [hand EXCEPT ![s] = e] /\ step' = [step EXCEPT ![s] = "file"]
      /\ UNCHANGED <<lines, garbled, fileOpen, writeFailures>>
      /\ UNCHANGED <<http, queue, view, moved, restarts, unsaved>>
  BY <1>1, <1>2, <1>3, <1>7, <1>8 DEF MarkSave, BeginAppend, AppendToMemory
<1>10. streams[p] \in Seq(Event) /\ Append(streams[p], e) \in Seq(Event)
  BY <1>4, <1>6, <1>8, Apart, ReadModelAssumption DEF TypeOK, StoreTypeOK
<1>11. StatusOf[e.name] \in Statuses /\ StatusOf[e.name] # "none"
  BY <1>8, NameFacts DEF Statuses
<1>12. TypeOK'
  <2>1. streams' \in [Aggregates -> Seq(Records)]
    BY <1>4, <1>9, <1>10, ReadModelAssumption DEF TypeOK, StoreTypeOK
  <2> QED
    BY <1>4, <1>8, <1>9, <1>11, <2>1, Apart DEF TypeOK, StoreTypeOK
<1>13. \A t \in Threads : t # s => step'[t] = step[t] /\ hand'[t] = hand[t]
  BY <1>4, <1>9 DEF TypeOK
<1>14. step'[s] = "file" /\ hand'[s] = e
  BY <1>4, <1>9, Apart DEF TypeOK
<1>15. Home'
  BY <1>4, <1>9 DEF Home, Elems, AtHome
<1>16. WorkersMark'
  <2> SUFFICES ASSUME NEW t \in Shards, step'[t] # "ready"
      PROVE  /\ queue[t] # <<>> /\ Head(queue[t]).to = "workflow"
             /\ step'[t] \in {"file", "publish"}
             /\ Head(queue[t]).event.name \in DOMAIN Marks
             /\ hand'[t] = [name |-> Marks[Head(queue[t]).event.name], of |-> Head(queue[t]).event.of]
    BY <1>9 DEF WorkersMark
  <2>1. CASE t = s
    BY <1>1, <1>2, <1>3, <1>5, <1>7, <1>14, <2>1
  <2>2. CASE t # s
    BY <1>4, <1>13, <2>2, Apart DEF WorkersMark
  <2> QED
    BY <2>1, <2>2
<1>17. RequestsOwn'
  BY <1>4, <1>9, <1>13, Apart DEF RequestsOwn
<1>18. ASSUME NEW r \in Payments, r # p PROVE PaymentInv(r)'
  <2>1. step'[r] = step[r] /\ hand'[r] = hand[r] /\ table'[r] = table[r] /\ streams'[r] = streams[r]
    BY <1>4, <1>9, <1>13, <1>18, Apart DEF TypeOK, StoreTypeOK
  <2>2. /\ Marking(r)' <=> Marking(r)
        /\ Marking(r) => /\ step'[ShardOf[r]] = step[ShardOf[r]]
                         /\ hand'[ShardOf[r]] = hand[ShardOf[r]]
    <3>1. CASE ShardOf[r] = s
      BY <1>5, <1>8, <1>14, <1>18, <3>1 DEF Marking
    <3>2. CASE ShardOf[r] # s
      BY <1>13, <3>2, Apart DEF Marking
    <3> QED
      BY <3>1, <3>2
  <2>3. Still(r)
    BY <1>9, <2>1, <2>2 DEF Still
  <2>4. Frame(r)
    BY <1>9, <2>3 DEF Frame, ReadInv, PaymentInv, Ordered, QueueOf, Waiting, Due, Elems, InOrder, Before
  <2> QED
    BY <2>4, FrameKeeps DEF ReadInv
<1>19. PaymentInv(p)'
  <2>1. PaymentInv(p) /\ ~Marking(p) /\ Head(q) \in About(p)
    BY <1>5, <1>6 DEF ReadInv, Marking, Workflow, About
  <2>2. /\ step[p] \in {"ready", "announce"} /\ table[p] # "none" /\ ~Writes(p, p)
        /\ http[p] # "start"
    BY <1>6, AtWork
  <2>3. /\ Marking(p)' /\ step'[p] = step[p] /\ hand'[p] = hand[p]
        /\ table'[p] = StatusOf[e.name] /\ streams'[p] = Append(streams[p], e)
        /\ hand'[ShardOf[p]] = e /\ step'[ShardOf[p]] = "file" /\ ShardOf[p] # p
    BY <1>4, <1>6, <1>8, <1>9, <1>13, <1>14, Apart DEF Marking, TypeOK, StoreTypeOK
  <2>4. Ordered(p)'
    BY <1>9, <2>1 DEF PaymentInv, Ordered, QueueOf, InOrder, Before
  <2>5. /\ \A x : Due(x, p)' <=> Due(x, p)
        /\ \A d : d \in Waiting(p)' <=> d \in Waiting(p)
    BY <1>9 DEF Due, Waiting, QueueOf, Elems
  <2>6. ~Due("payment.created", p)
    <3>1. InOrder(q, p) /\ Head(q).event.of = p
      BY <1>1, <1>2, <1>6, <2>1, WaitingIs DEF PaymentInv
    <3>2. \A d \in Elems(Tail(q)) : d # To("projector", "payment.created", p)
      BY <1>5, <1>6, <3>1, TakeInOrder
    <3>3. \A d : d \in Elems(q) <=> d = Head(q) \/ d \in Elems(Tail(q))
      BY <1>5, TailFacts
    <3>4. \A d : d \in Waiting(p) <=> d \in Elems(q)
      BY <1>1, <1>6, WaitingIs
    <3>5. Head(q) # To("projector", "payment.created", p)
      BY <1>5 DEF To
    <3> QED
      BY <3>2, <3>3, <3>4, <3>5 DEF Due
  <2>7. /\ table[p] = Earlier(e.name)
        /\ e.name \in {"payment.pending", "payment.rejected"} => table[p] = "initialized"
        /\ e.name \in {"payment.completed", "payment.failed"} => table[p] = "pending"
    BY <1>5, <1>6, <1>8, NameFacts DEF TableAt, Earlier
  <2>8. CreateFirst(p)'
    BY <1>9, <1>11, <2>1, <2>2, <2>3, <2>5 DEF PaymentInv, CreateFirst
  <2>9. view[p] \in Behind(table[p]) /\ view[p] # "none"
    BY <2>1, <2>2, <2>6 DEF PaymentInv, ViewBehind
  <2>10. TableInPosition(p)'
    BY <1>8, <1>9, <2>3, <2>7, <2>9, NameFacts DEF TableInPosition, Behind
  <2>11. ViewBehind(p)'
    <3>1. view[p] \in Behind(StatusOf[e.name])
      BY <1>8, <2>7, <2>9, NameFacts DEF Behind
    <3>2. Due("payment.pending", p) =>
            view[p] \in {"initialized", "pending"} /\ StatusOf[e.name] \in {"pending", "succeeded", "failed"}
      BY <1>8, <2>1, <2>7, NameFacts DEF PaymentInv, ViewBehind
    <3>3. \A x \in {"payment.rejected", "payment.completed", "payment.failed"} : ~Due(x, p)
      BY <1>8, <2>1, <2>7, NameFacts DEF PaymentInv, ViewBehind
    <3> QED
      BY <1>9, <2>3, <2>5, <2>6, <2>9, <3>1, <3>2, <3>3 DEF ViewBehind
  <2>12. RecordsInOrder(p)'
    <3>1. /\ ~Writes(ShardOf[p], p) /\ Writes(ShardOf[p], p)' /\ ~Writes(p, p)'
      BY <1>8, <2>1, <2>2, <2>3 DEF Writes, Marking
    <3> QED
      BY <1>4, <1>6, <1>8, <1>9, <2>1, <2>2, <2>3, <2>7, <3>1, RecordBegun DEF PaymentInv
  <2> QED
    BY <2>4, <2>8, <2>10, <2>11, <2>12 DEF PaymentInv
<1>20. ASSUME NEW c \in Credits PROVE CreditInOrder(c)'
  <2>1. streams'[Owner[c]] = streams[Owner[c]] /\ step'[c] = step[c]
    BY <1>4, <1>6, <1>9, <1>13, Apart DEF TypeOK, StoreTypeOK
  <2> QED
    BY <1>4, <1>9, <2>1, CreditKept DEF ReadInv, Appended
<1> QED
  BY <1>12, <1>15, <1>16, <1>17, <1>18, <1>19, <1>20 DEF ReadInv

\* What the deliveries that a Mark... handler publishes look like.
Follows(d, mark, p) ==
  /\ d.event.of = p
  /\ \/ d.to = "projector" /\ d.event.name = mark
     \/ d.to = "workflow" /\ d.event.name = "payment.charge_requested" /\ mark = "payment.pending"
     \/ d.to = "workflow" /\ d.event.name = "wallet.refund_requested" /\ mark = "payment.failed"

\* What a Mark... handler's step publishes: the status event for the projector,
\* and perhaps one event for the workflow.
LEMMA FollowFacts ==
  ASSUME NEW e \in Event, e.name \in DOMAIN Marks, e.of \in Payments,
         NEW mark, mark = Marks[e.name],
         NEW c, c = Copies(mark, e.of), NEW f, f = FollowUps(e)
  PROVE  /\ c \in Seq(Delivery) /\ f \in Seq(Delivery) /\ c \o f \in Seq(Delivery)
         /\ \A w : Before(c \o f, DeliveredTo(w), DeliveredTo(w))
         /\ To("projector", mark, e.of) \in Elems(c \o f)
         /\ \A d \in Elems(c \o f) : Follows(d, mark, e.of)
<1>1. e.of \in Requests /\ mark \in StatusEvents /\ mark # "payment.initialized"
      /\ mark \in {"payment.pending", "payment.rejected", "payment.completed", "payment.failed"}
  BY Apart, EventFacts, NameFacts
<1>2. mark \in Projected /\ mark \notin Handled
  BY <1>1, EventFacts DEF Handled
<1>3. /\ c \in Seq(Delivery)
      /\ \A d : d \in Elems(c) <=> d = To("projector", mark, e.of)
      /\ \A w : Before(c, DeliveredTo(w), DeliveredTo(w))
  BY <1>1, <1>2, CopiesFacts
<1>4. /\ f \in Seq(Delivery)
      /\ \A d \in Elems(f) :
              \/ d = To("workflow", "payment.charge_requested", e.of) /\ mark = "payment.pending"
              \/ d = To("workflow", "wallet.refund_requested", e.of) /\ mark = "payment.failed"
      /\ \A w : Before(f, DeliveredTo(w), DeliveredTo(w))
  <2>1. CASE e.name = "wallet.debited"
    <3>1. f = Copies("payment.charge_requested", e.of) /\ mark = "payment.pending"
      BY <2>1, NameFacts DEF FollowUps
    <3>2. "payment.charge_requested" \in Handled /\ "payment.charge_requested" \notin Projected
      BY DEF Handled, Projected, StatusEvents, MovementEvents
    <3> QED
      BY <1>1, <3>1, <3>2, CopiesFacts
  <2>2. CASE e.name = "payment.charge_failed"
    <3>1. f = Copies("wallet.refund_requested", e.of) /\ mark = "payment.failed"
      BY <2>2, NameFacts DEF FollowUps
    <3>2. "wallet.refund_requested" \in Handled /\ "wallet.refund_requested" \notin Projected
      BY DEF Handled, Projected, StatusEvents, MovementEvents
    <3> QED
      BY <1>1, <3>1, <3>2, CopiesFacts
  <2>3. CASE e.name \notin {"wallet.debited", "payment.charge_failed"}
    <3>1. f = <<>>
      BY <2>3 DEF FollowUps
    <3>2. <<>> \in Seq(Delivery) /\ Elems(<<>>) = {} /\ \A A, B : Before(<<>>, A, B)
      BY ShortFacts
    <3> QED
      BY <3>1, <3>2
  <2> QED
    BY <2>1, <2>2, <2>3
<1>5. c \o f \in Seq(Delivery) /\ \A d : d \in Elems(c \o f) <=> d \in Elems(c) \/ d \in Elems(f)
  BY <1>3, <1>4, ConcatFacts
<1>6. ASSUME NEW w PROVE Before(c \o f, DeliveredTo(w), DeliveredTo(w))
  <2>1. /\ \A d \in Elems(c) : d.to = "projector"
        /\ \A d \in Elems(f) : d.to = "workflow"
    BY <1>3, <1>4 DEF To
  <2>2. (\E d \in Elems(f) : d \in DeliveredTo(w)) => \A d \in Elems(c) : d \notin DeliveredTo(w)
    BY <2>1 DEF DeliveredTo
  <2> QED
    BY <1>3, <1>4, <2>2, BeforeConcat
<1>7. ASSUME NEW d \in Elems(c \o f) PROVE Follows(d, mark, e.of)
  BY <1>3, <1>4, <1>5 DEF Follows, To
<1> QED
  BY <1>3, <1>4, <1>5, <1>6, <1>7

\* A Mark... handler publishes and returns.
LEMMA MarkPublishKeeps ==
  ASSUME ReadInv, NEW s \in Shards, MarkPublish(s)
  PROVE  ReadInv'
<1>1. PICK q \in Seq(Delivery) : q = queue[s]
  BY DEF ReadInv, TypeOK
<1>2. PICK p : p = Head(q).event.of
  OBVIOUS
<1>3. PICK e : e = Head(q).event
  OBVIOUS
<1>4. TypeOK /\ Home /\ WorkersMark
  BY DEF ReadInv
<1>5. /\ step[s] = "publish" /\ q # <<>> /\ Head(q).to = "workflow" /\ e.name \in DOMAIN Marks
      /\ hand[s] = [name |-> Marks[e.name], of |-> p] /\ e.of = p
  BY <1>1, <1>2, <1>3, <1>4 DEF MarkPublish, WorkersMark
<1>6. PICK mark : mark = Marks[e.name]
  OBVIOUS
<1>7. hand[s].name = mark /\ hand[s].of = p
  BY <1>5, <1>6
<1>8. Head(q) \in Delivery /\ Head(q) \in Elems(q) /\ e \in Event
  <2>1. Head(q) \in Delivery /\ Head(q) \in Elems(q)
    BY <1>5, TailFacts
  <2> QED
    BY <1>3, <2>1 DEF Delivery
<1>9. p \in Payments /\ ShardOf[p] = s /\ Head(q) \in Workflow(p)
  <2>1. AtHome(Head(q), s)
    BY <1>1, <1>4, <1>8 DEF Home
  <2> QED
    BY <1>2, <1>3, <1>5, <1>8, <2>1, KeyFacts DEF AtHome, Workflow
<1>10. PICK c : c = Copies(mark, e.of)
  OBVIOUS
<1>11. PICK f : f = FollowUps(e)
  OBVIOUS
<1>12. /\ c \in Seq(Delivery) /\ f \in Seq(Delivery) /\ c \o f \in Seq(Delivery)
       /\ \A w : Before(c \o f, DeliveredTo(w), DeliveredTo(w))
       /\ To("projector", mark, p) \in Elems(c \o f)
       /\ \A d \in Elems(c \o f) : Follows(d, mark, p)
  <2>1. e.of = p /\ e.of \in Payments /\ e.name \in DOMAIN Marks
    BY <1>5, <1>9
  <2>2. c \in Seq(Delivery) /\ f \in Seq(Delivery) /\ c \o f \in Seq(Delivery)
    BY <1>6, <1>8, <1>10, <1>11, <2>1, FollowFacts
  <2>3. \A w : Before(c \o f, DeliveredTo(w), DeliveredTo(w))
    BY <1>6, <1>8, <1>10, <1>11, <2>1, FollowFacts
  <2>4. To("projector", mark, e.of) \in Elems(c \o f)
    BY <1>6, <1>8, <1>10, <1>11, <2>1, FollowFacts
  <2>5. \A d \in Elems(c \o f) : Follows(d, mark, e.of)
    BY <1>6, <1>8, <1>10, <1>11, <2>1, FollowFacts
  <2> QED
    BY <2>1, <2>2, <2>3, <2>4, <2>5
<1>13. PICK m \in Seq(Delivery) : m = c \o f
  BY <1>12
<1>14. /\ TookAndPut(s, q, m)
       /\ step' = [step EXCEPT ![s] = "ready"] /\ hand' = [hand EXCEPT ![s] = Nothing]
       /\ UNCHANGED <<http, table, view, moved, restarts, unsaved, storeVars>>
  <2>1. queue' = [queue EXCEPT ![s] = Tail(q) \o c \o f]
        /\ step' = [step EXCEPT ![s] = "ready"] /\ hand' = [hand EXCEPT ![s] = Nothing]
        /\ UNCHANGED <<http, table, view, moved, restarts, unsaved, storeVars>>
    BY <1>1, <1>3, <1>5, <1>7, <1>10, <1>11 DEF MarkPublish, PutDown
  <2>2. Tail(q) \in Seq(Delivery)
    BY <1>5, TailFacts
  <2>3. Tail(q) \o c \o f = Tail(q) \o m
    <3>1. PICK t \in Seq(Delivery) : t = Tail(q)
      BY <2>2
    <3>2. c \in Seq(Delivery) /\ f \in Seq(Delivery)
      BY <1>12
    <3>3. t \o c \o f = t \o (c \o f)
      BY <3>2, ConcatAssociative
    <3> QED
      BY <1>13, <3>1, <3>3
  <2> QED
    BY <2>1, <2>3 DEF TookAndPut
<1>15. /\ mark \in {"payment.pending", "payment.rejected", "payment.completed", "payment.failed"}
       /\ \A x \in StatusEvents : To("projector", x, p) = To("projector", mark, p) <=> x = mark
       /\ mark \in StatusEvents
  BY <1>5, <1>6, NameFacts, EventFacts DEF To
<1>16. \A d \in Elems(m) : Follows(d, mark, p)
  BY <1>12, <1>13
<1>18. \A d \in Elems(m) : d.event.of = p /\ AtHome(d, s)
  <2>1. \A d \in Elems(m) : d \in Delivery
    BY DEF Elems
  <2>2. \A d \in Elems(m) : d.event \in Event /\ d.event.of = p
    BY <1>16, <2>1 DEF Follows, Delivery
  <2> QED
    BY <1>9, <2>2, KeyFacts DEF AtHome
<1>19. /\ \A t \in Threads : t # s => step'[t] = step[t] /\ hand'[t] = hand[t]
       /\ step'[s] = "ready"
  BY <1>4, <1>14, Apart DEF TypeOK
<1>20. /\ queue' \in [Shards -> Seq(Delivery)] /\ Home' /\ WorkersMark' /\ RequestsOwn'
       /\ \A r \in Payments : r # p => PaymentInv(r)'
       /\ \A r \in Credits : CreditInOrder(r)'
  <2>1. \A w : Before(m, DeliveredTo(w), DeliveredTo(w))
    BY <1>12, <1>13
  <2>2. UNCHANGED <<storeVars, http, table, unsaved>> /\ \A r \in Payments : r # p => view'[r] = view[r]
    BY <1>14
  <2> QED
    BY <1>1, <1>2, <1>5, <1>14, <1>18, <1>19, <2>1, <2>2, WorkerKeeps
<1>21. TypeOK'
  <2>1. Nothing \in Event
    BY <1>9, Apart, NothingFacts
  <2> QED
    BY <1>4, <1>14, <1>20, <2>1 DEF TypeOK, StoreTypeOK, storeVars
<1>22. PaymentInv(p)'
  <2>1. PaymentInv(p) /\ Marking(p) /\ Marking(p)' = FALSE /\ Head(q) \in About(p) /\ ShardOf[p] # p
    BY <1>5, <1>7, <1>9, <1>19, Apart DEF ReadInv, Marking, Workflow, About
  <2>2. /\ \A d : d \in Waiting(p)' <=> d \in Elems(Tail(q)) \/ d \in Elems(m)
        /\ Tail(q) \in Seq(Delivery)
        /\ InOrder(q, p) /\ InOrder(Tail(q), p)
        /\ InOrder(Tail(q) \o m, p) => Ordered(p)'
    <3>0. /\ q \in Seq(Delivery) /\ q = queue[s] /\ q # <<>> /\ m \in Seq(Delivery)
          /\ p = Head(q).event.of /\ p \in Payments /\ TookAndPut(s, q, m)
      BY <1>1, <1>2, <1>5, <1>9, <1>13, <1>14
    <3>1. \A d : d \in Waiting(p)' <=> d \in Elems(Tail(q)) \/ d \in Elems(m)
      <4> DEFINE t1 == Tail(q)
      <4>1. t1 \in Seq(Delivery)
        BY <3>0, TailFacts
      <4>2. queue'[ShardOf[p]] = t1 \o m
        BY <1>4, <1>9, <3>0 DEF TookAndPut, TypeOK
      <4> HIDE DEF t1
      <4>3. \A d : d \in Elems(t1 \o m) <=> d \in Elems(t1) \/ d \in Elems(m)
        BY <3>0, <4>1, ConcatFacts
      <4>4. \A d : d \in Waiting(p)' <=> d \in Elems(t1 \o m)
        BY <3>0, <4>2, WaitingIs
      <4> QED
        BY <4>3, <4>4 DEF t1
    <3>2. /\ Tail(q) \in Seq(Delivery)
          /\ InOrder(q, p) /\ InOrder(Tail(q), p)
          /\ InOrder(Tail(q) \o m, p) => Ordered(p)'
      BY <3>0, OwnTake
    <3> QED
      BY <3>1, <3>2
  <2>3. \A d : d \in Waiting(p) <=> d = Head(q) \/ d \in Elems(Tail(q))
    <3>1. \A d : d \in Waiting(p) <=> d \in Elems(q)
      BY <1>1, <1>9, WaitingIs
    <3>2. \A d : d \in Elems(q) <=> d = Head(q) \/ d \in Elems(Tail(q))
      BY <1>5, TailFacts
    <3> QED
      BY <3>1, <3>2
  <2>4. /\ \A d \in Elems(Tail(q)) : d \notin Workflow(p) /\ d # To("projector", "payment.created", p)
        /\ Head(q) \in Waiting(p)
    BY <1>5, <1>9, <2>2, <2>3, TakeInOrder
  <2>5. /\ step[p] \in {"ready", "announce"} /\ table[p] # "none" /\ ~Writes(p, p)
        /\ http[p] # "start"
    BY <1>9, <2>4, AtWork
  <2>6. \A x \in StatusEvents : To("projector", x, p) # Head(q) /\ To("projector", x, p).to = "projector"
    BY <1>5 DEF To
  <2>7. \A x \in StatusEvents : Due(x, p)' <=> Due(x, p) \/ x = mark
    <3>1. \A x \in StatusEvents : To("projector", x, p) \in Elems(m) <=> x = mark
      <4>1. \A x : To("projector", x, p).to = "projector" /\ To("projector", x, p).event.name = x
        BY DEF To
      <4>2. To("projector", mark, p) \in Elems(m)
        BY <1>12, <1>13
      <4>3. \A x : To("projector", x, p) \in Elems(m) => x = mark
        BY <1>16, <4>1 DEF Follows
      <4> QED
        BY <4>2, <4>3
    <3> QED
      BY <2>2, <2>3, <2>6, <3>1 DEF Due
  <2>8. ~Due("payment.created", p)
    BY <2>3, <2>4, <2>6 DEF Due, StatusEvents
  <2>9. /\ table[p] = StatusOf[mark] /\ view[p] # table[p]
        /\ view[p] \in Behind(table[p]) /\ view[p] # "none"
    BY <1>7, <1>9, <2>1, <2>5, <2>8 DEF PaymentInv, TableInPosition, ViewBehind
  <2>10. \A x \in {"payment.rejected", "payment.completed", "payment.failed"} :
           Due(x, p) => table[p] = StatusOf[x]
    BY <2>1 DEF PaymentInv, ViewBehind
  <2>11. Ordered(p)'
    <3> DEFINE t1 == Tail(q)
    <3>1. /\ t1 \in Seq(Delivery) /\ InOrder(t1, p) /\ \A d \in Elems(t1) : d \notin Workflow(p)
          /\ InOrder(t1 \o m, p) => Ordered(p)'
          /\ \A d \in Elems(t1) : d \in Waiting(p)
      BY <2>2, <2>3, <2>4
    <3> HIDE DEF t1
    <3>2. \A x \in StatusEvents : To("projector", x, p) \in Elems(m) => x = mark
      <4>1. \A x : To("projector", x, p).to = "projector" /\ To("projector", x, p).event.name = x
        BY DEF To
      <4> QED
        BY <1>16, <4>1 DEF Follows
    <3>3. /\ To("projector", "payment.initialized", p) \notin Elems(m)
          /\ To("projector", "payment.created", p) \notin Elems(m)
          /\ To("projector", "payment.pending", p) \in Elems(m) => mark = "payment.pending"
      BY <1>15, <3>2 DEF StatusEvents
    <3>4. ASSUME mark = "payment.pending"
          PROVE  /\ To("projector", "payment.completed", p) \notin Elems(t1)
                 /\ To("projector", "payment.failed", p) \notin Elems(t1)
      <4>1. ~Due("payment.completed", p) /\ ~Due("payment.failed", p)
        BY <2>9, <2>10, <3>4, NameFacts
      <4> QED
        BY <3>1, <4>1 DEF Due
    <3>5. \A w : Before(m, DeliveredTo(w), DeliveredTo(w))
      BY <1>12, <1>13
    <3>6. InOrder(t1 \o m, p)
      BY <1>9, <1>13, <3>1, <3>3, <3>4, <3>5, PutInOrder
    <3> QED
      BY <3>1, <3>6
  <2>12. CreateFirst(p)'
    <3>1. Due("payment.initialized", p)' => Due("payment.initialized", p)
      BY <1>15, <2>7 DEF StatusEvents
    <3>2. step'[p] = step[p] /\ hand'[p] = hand[p]
      BY <1>9, <1>19, <2>1, Apart
    <3> QED
      BY <1>14, <2>1, <2>5, <3>1, <3>2 DEF PaymentInv, CreateFirst
  <2>13. TableInPosition(p)'
    <3>1. ASSUME NEW d \in Waiting(p)', d \in Workflow(p) PROVE table[p] \in TableAt(d.event.name)
      <4>1. d \in Elems(m) /\ d.to = "workflow"
        BY <2>2, <2>4, <3>1 DEF Workflow
      <4>2. \/ d.event.name = "payment.charge_requested" /\ mark = "payment.pending"
            \/ d.event.name = "wallet.refund_requested" /\ mark = "payment.failed"
        BY <1>16, <4>1 DEF Follows
      <4> QED
        BY <2>9, <4>2, NameFacts DEF TableAt
    <3> QED
      BY <1>14, <2>1, <3>1 DEF TableInPosition
  <2>14. ViewBehind(p)'
    <3>1. /\ ~Due("payment.created", p)'
          /\ \A x \in {"payment.rejected", "payment.completed", "payment.failed"} :
               Due(x, p)' => Due(x, p) \/ x = mark
          /\ Due("payment.pending", p)' => Due("payment.pending", p) \/ mark = "payment.pending"
          /\ mark = "payment.completed" => Due("payment.completed", p)'
          /\ mark = "payment.failed" => Due("payment.failed", p)'
      BY <1>15, <2>7, <2>8 DEF StatusEvents
    <3>2. Due("payment.pending", p)' =>
            view[p] \in {"initialized", "pending"} /\ table[p] \in {"pending", "succeeded", "failed"}
      BY <2>1, <2>9, <3>1, NameFacts DEF PaymentInv, ViewBehind, Behind
    <3>3. \A x \in {"payment.rejected", "payment.completed", "payment.failed"} :
            Due(x, p)' => table[p] = StatusOf[x]
      BY <2>9, <2>10, <3>1
    <3>4. /\ table[p] = "succeeded" => Due("payment.completed", p)'
          /\ table[p] = "failed" => Due("payment.failed", p)'
      BY <1>15, <2>9, <3>1, NameFacts
    <3> QED
      BY <1>14, <2>9, <3>1, <3>2, <3>3, <3>4 DEF ViewBehind
  <2>15. RecordsInOrder(p)'
    <3>1. ~Writes(ShardOf[p], p) /\ ~Writes(p, p)' /\ ~Writes(ShardOf[p], p)'
      BY <1>5, <1>9, <1>19, <2>1, <2>5, Apart DEF Writes
    <3>2. /\ Written(p) \in Statuses => Written(p)' \in Statuses
          /\ Remembered(p) = table[p] => Remembered(p)' = table'[p]
      BY <1>14 DEF Written, Remembered, storeVars
    <3> QED
      BY <1>14, <2>1, <2>5, <3>1, <3>2 DEF PaymentInv, RecordsInOrder, storeVars
  <2> QED
    BY <2>11, <2>12, <2>13, <2>14, <2>15 DEF PaymentInv
<1> QED
  BY <1>20, <1>21, <1>22 DEF ReadInv

-----------------------------------------------------------------------------
(* The projector. *)

\* The worker of s takes the head of its queue q.
Took(s, q) == queue' = [queue EXCEPT ![s] = Tail(q)]

\* The worker of s runs the projector on a delivery: what holds of the other
\* payments stays.
LEMMA ProjectorTakes ==
  ASSUME ReadInv, NEW s \in Shards, NEW q \in Seq(Delivery), q = queue[s],
         Takes(s, "projector"), NEW r, r = Head(q).event.of, Took(s, q),
         UNCHANGED <<http, step, hand, table, unsaved, storeVars>>,
         \A p \in Payments : p # r => view'[p] = view[p]
  PROVE  /\ queue' \in [Shards -> Seq(Delivery)] /\ Home' /\ WorkersMark' /\ RequestsOwn'
         /\ \A p \in Payments : p # r => PaymentInv(p)'
         /\ \A c \in Credits : CreditInOrder(c)'
<1>1. q # <<>> /\ step[s] = "ready"
  BY DEF Takes
<1>2. Tail(q) \in Seq(Delivery)
  BY <1>1, TailFacts
<1>3. PICK m \in Seq(Delivery) : m = <<>>
  BY ShortFacts
<1>4. (\A d : d \notin Elems(m)) /\ \A w : Before(m, DeliveredTo(w), DeliveredTo(w))
  BY <1>3, ShortFacts
<1>5. Tail(q) \o m = Tail(q)
  BY <1>2, <1>3, ConcatEmptySeq
<1>6. TookAndPut(s, q, m)
  BY <1>5 DEF TookAndPut, Took
<1>7. /\ step'[s] = "ready" /\ UNCHANGED <<storeVars, http, table, unsaved>>
      /\ \A t \in Threads : t # s => step'[t] = step[t] /\ hand'[t] = hand[t]
      /\ \A d \in Elems(m) : d.event.of = r /\ AtHome(d, s)
  BY <1>1, <1>4
<1> QED
  BY <1>1, <1>4, <1>6, <1>7, WorkerKeeps

\* Of its own payment only that delivery is gone.
LEMMA ProjectorOwn ==
  ASSUME ReadInv, NEW s \in Shards, NEW q \in Seq(Delivery), q = queue[s],
         Takes(s, "projector"), NEW p \in Payments, p = Head(q).event.of, Took(s, q)
  PROVE  /\ ShardOf[p] = s /\ Head(q) \in About(p)
         /\ \A d : d \in Waiting(p) <=> d = Head(q) \/ d \in Waiting(p)'
         /\ \A d : d \in Waiting(p)' <=> d \in Elems(Tail(q))
         /\ InOrder(q, p) /\ Ordered(p)'
<1>1. q # <<>>
  BY DEF Takes
<1>2. /\ Tail(q) \in Seq(Delivery) /\ Head(q) \in Delivery /\ Head(q) \in Elems(q)
      /\ \A d : d \in Elems(q) <=> d = Head(q) \/ d \in Elems(Tail(q))
  BY <1>1, TailFacts
<1>3. ShardOf[p] = s /\ Head(q) \in About(p)
  <2>1. AtHome(Head(q), s)
    BY <1>2 DEF ReadInv, Home
  <2> QED
    BY <1>2, <2>1, KeyFacts DEF AtHome, Delivery, About
<1>4. /\ \A d : d \in Waiting(p) <=> d \in Elems(q)
      /\ Ordered(p) => InOrder(q, p)
  BY <1>3, WaitingIs
<1> DEFINE t1 == Tail(q)
<1>5. t1 = queue'[ShardOf[p]]
  BY <1>3 DEF ReadInv, TypeOK, Took
<1> HIDE DEF t1
<1>6. /\ \A d : d \in Waiting(p)' <=> d \in Elems(t1)
      /\ InOrder(t1, p) => Ordered(p)'
  BY <1>5, WaitingIs
<1>7. Ordered(p)
  BY DEF ReadInv, PaymentInv
<1>8. InOrder(t1, p)
  BY <1>1, <1>4, <1>7, TakeInOrder DEF t1
<1> QED
  BY <1>2, <1>3, <1>4, <1>6, <1>7, <1>8 DEF t1

LEMMA ProjectMovementKeeps ==
  ASSUME ReadInv, NEW s \in Shards, ProjectMovement(s)
  PROVE  ReadInv'
<1>1. PICK q \in Seq(Delivery) : q = queue[s]
  BY DEF ReadInv, TypeOK
<1>2. PICK e : e = Head(q).event
  OBVIOUS
<1>3. PICK r : r = Head(q).event.of
  OBVIOUS
<1>4. /\ Takes(s, "projector") /\ e.name \in MovementEvents
      /\ moved' = [moved EXCEPT ![e] = @ + 1]
      /\ Took(s, q)
      /\ UNCHANGED <<http, step, hand, table, view, restarts, unsaved, storeVars>>
  BY <1>1, <1>2 DEF ProjectMovement, Took
<1>5. /\ queue' \in [Shards -> Seq(Delivery)] /\ Home' /\ WorkersMark' /\ RequestsOwn'
      /\ \A p \in Payments : p # r => PaymentInv(p)'
      /\ \A c \in Credits : CreditInOrder(c)'
  <2>1. /\ Takes(s, "projector") /\ Took(s, q)
        /\ UNCHANGED <<http, step, hand, table, unsaved, storeVars>>
        /\ \A p \in Payments : p # r => view'[p] = view[p]
    BY <1>4
  <2> QED
    BY <1>1, <1>3, <2>1, ProjectorTakes
<1>6. TypeOK'
  <2>0. PICK k : k = moved[e] + 1
    OBVIOUS
  <2>2. moved \in [Movement -> Nat] /\ (e \in Movement => k \in Nat)
    BY <2>0 DEF ReadInv, TypeOK
  <2>3. moved' = [moved EXCEPT ![e] = k]
    BY <1>4, <2>0
  <2>1. moved' \in [Movement -> Nat]
    BY <2>2, <2>3
  <2> QED
    BY <1>4, <1>5, <2>1 DEF ReadInv, TypeOK, StoreTypeOK, storeVars
<1>7. ASSUME NEW p \in Payments, p = r PROVE PaymentInv(p)'
  <2>0. /\ ShardOf[p] = s /\ Ordered(p)'
        /\ \A d : d \in Waiting(p) <=> d = Head(q) \/ d \in Waiting(p)'
    <3>1. Takes(s, "projector") /\ Took(s, q) /\ p = Head(q).event.of
      BY <1>3, <1>4, <1>7
    <3> QED
      BY <1>1, <3>1, ProjectorOwn
  <2>1. ShardOf[p] = s /\ step[s] = "ready"
    BY <1>4, <2>0 DEF Takes
  <2>2. Still(p)
    BY <1>4, <2>1 DEF Still, Marking, storeVars
  <2>3. \A x \in StatusEvents : To("projector", x, p) # Head(q)
    BY <1>2, <1>4 DEF To, StatusEvents, MovementEvents
  <2>4. \A x \in StatusEvents : Due(x, p) => Due(x, p)'
    BY <2>0, <2>3 DEF Due
  <2>5. Frame(p)
    BY <2>0, <2>2, <2>4 DEF Frame
  <2> QED
    BY <2>5, FrameKeeps DEF ReadInv
<1> QED
  BY <1>5, <1>6, <1>7 DEF ReadInv

\* The projector applies a status event.
LEMMA ProjectStatusKeeps ==
  ASSUME ReadInv, NEW s \in Shards, ProjectStatus(s)
  PROVE  ReadInv'
<1>1. PICK q \in Seq(Delivery) : q = queue[s]
  BY DEF ReadInv, TypeOK
<1>2. PICK name : name = Head(q).event.name
  OBVIOUS
<1>3. PICK p : p = Head(q).event.of
  OBVIOUS
<1>4. /\ Takes(s, "projector") /\ name \in StatusEvents
      /\ view' = [view EXCEPT ![p] = Apply(name, @)]
      /\ Took(s, q)
      /\ UNCHANGED <<http, step, hand, table, moved, restarts, unsaved, storeVars>>
  BY <1>1, <1>2, <1>3 DEF ProjectStatus, Took
<1>5. /\ \A r \in Payments : r # p => view'[r] = view[r]
      /\ Takes(s, "projector") /\ Took(s, q)
      /\ UNCHANGED <<http, step, hand, table, unsaved, storeVars>>
  BY <1>4 DEF ReadInv, TypeOK
<1>6. /\ queue' \in [Shards -> Seq(Delivery)] /\ Home' /\ WorkersMark' /\ RequestsOwn'
      /\ \A r \in Payments : r # p => PaymentInv(r)'
      /\ \A c \in Credits : CreditInOrder(c)'
  BY <1>1, <1>3, <1>5, ProjectorTakes
<1>7. p \in Payments /\ Head(q) \in Delivery
  <2>1. q # <<>>
    BY <1>1, <1>4 DEF Takes
  <2>2. Head(q) \in Delivery /\ Head(q) \in Elems(q)
    BY <2>1, TailFacts
  <2>3. AtHome(Head(q), s)
    BY <1>1, <2>2 DEF ReadInv, Home
  <2> QED
    BY <1>2, <1>3, <1>4, <2>2, <2>3 DEF AtHome
<1>8. /\ ShardOf[p] = s /\ Head(q) \in About(p)
      /\ \A d : d \in Waiting(p) <=> d = Head(q) \/ d \in Waiting(p)'
      /\ \A d : d \in Waiting(p)' <=> d \in Elems(Tail(q))
      /\ InOrder(q, p) /\ Ordered(p)'
  BY <1>1, <1>3, <1>5, <1>7, ProjectorOwn
<1>9. q # <<>> /\ step[s] = "ready" /\ Head(q).to = "projector"
  BY <1>1, <1>4 DEF Takes
<1>10. Head(q) = To("projector", name, p)
  <2>1. Head(q).event \in Event
    BY <1>7 DEF Delivery
  <2>2. Head(q).event = [name |-> name, of |-> p]
    BY <1>2, <1>3, <2>1 DEF Event
  <2> QED
    BY <1>7, <1>9, <2>2 DEF To, Delivery
<1>11. /\ Due(name, p)
       /\ \A x : Due(x, p)' => Due(x, p)
       /\ \A x : Due(x, p) /\ x # name => Due(x, p)'
       /\ ~Due("payment.created", p)'
       /\ name \in {"payment.completed", "payment.failed"} => ~Due("payment.pending", p)'
  <2>1. \A x : To("projector", x, p) = To("projector", name, p) => x = name
    BY DEF To
  <2>2. ~Due("payment.created", p)'
    BY <1>3, <1>7, <1>8, <1>9, TakeInOrder DEF Due
  <2>3. name \in {"payment.completed", "payment.failed"} => ~Due("payment.pending", p)'
    BY <1>7, <1>8, <1>9, <1>10, TakeInOrder DEF Due
  <2> QED
    BY <1>8, <1>10, <2>1, <2>2, <2>3 DEF Due
<1>12. /\ PaymentInv(p) /\ RequestsOwn /\ TypeOK /\ table[p] # "none"
       /\ ~Marking(p) /\ Marking(p)' = FALSE
  <2>1. Head(q) \in Waiting(p) \intersect About(p)
    BY <1>8
  <2> QED
    BY <1>4, <1>7, <1>8, <1>9, <2>1 DEF ReadInv, PaymentInv, CreateFirst, Marking
<1>13. view'[p] = Apply(name, view[p])
  BY <1>4, <1>7, <1>12 DEF TypeOK
<1>14. view'[p] \in Statuses
  <2>1. StatusOf[name] \in Statuses
    BY <1>4, NameFacts DEF StatusEvents, Statuses
  <2> QED
    BY <1>7, <1>12, <1>13, <2>1 DEF Apply, TypeOK
<1>15. TypeOK'
  <2>1. view' \in [Payments -> Statuses]
    BY <1>4, <1>7, <1>12, <1>13, <1>14 DEF TypeOK
  <2> QED
    BY <1>4, <1>6, <1>12, <2>1 DEF TypeOK, StoreTypeOK, storeVars
<1>16. PaymentInv(p)'
  <2>1. CreateFirst(p)'
    <3>1. Waiting(p) \intersect Workflow(p) = {} => Waiting(p)' \intersect Workflow(p) = {}
      BY <1>8
    <3>2. http[p] # "start"
      BY <1>12 DEF PaymentInv, CreateFirst
    <3>3. step[p] \in {"file", "publish"} => hand[p].name # "payment.created"
      BY <1>8, <1>12 DEF PaymentInv, CreateFirst
    <3> QED
      BY <1>4, <1>11, <1>12, <3>1, <3>2, <3>3 DEF PaymentInv, CreateFirst
  <2>2. TableInPosition(p)'
    BY <1>4, <1>8, <1>12 DEF PaymentInv, TableInPosition
  <2>3. ViewBehind(p)'
    <3>1. /\ \A x \in {"payment.rejected", "payment.completed", "payment.failed"} :
               Due(x, p) => table[p] = StatusOf[x]
          /\ Due("payment.pending", p) =>
               view[p] \in {"initialized", "pending"} /\ table[p] \in {"pending", "succeeded", "failed"}
          /\ Due("payment.created", p) => view[p] = "none" /\ table[p] = "initialized"
          /\ /\ table[p] \in {"succeeded", "failed"}
             /\ view[p] = "pending" \/ Due("payment.pending", p)
             => Due("payment.completed", p) \/ Due("payment.failed", p)
      BY <1>12 DEF PaymentInv, ViewBehind
    <3> SUFFICES /\ view'[p] \in Behind(table[p]) /\ view'[p] # "none"
                 /\ Due("payment.pending", p)' => view'[p] \in {"initialized", "pending"}
                 /\ /\ table[p] \in {"succeeded", "failed"}
                    /\ view'[p] = "pending" \/ Due("payment.pending", p)'
                    => Due("payment.completed", p)' \/ Due("payment.failed", p)'
      BY <1>4, <1>11, <1>12, <3>1 DEF ViewBehind
    <3>2. CASE name = "payment.created"
      BY <1>11, <1>13, <3>1, <3>2, NameFacts DEF Apply, Behind
    <3>3. CASE name = "payment.initialized"
      BY <1>11, <1>13, <3>1, <3>3, NameFacts DEF Apply, Behind
    <3>4. CASE name = "payment.pending"
      BY <1>11, <1>13, <3>1, <3>4, NameFacts DEF Apply, Behind
    <3>5. CASE name = "payment.rejected"
      BY <1>11, <1>13, <3>1, <3>5, NameFacts DEF Apply, Behind
    <3>6. CASE name \in {"payment.completed", "payment.failed"}
      BY <1>11, <1>13, <3>1, <3>6, NameFacts DEF Apply, Behind
    <3> QED
      BY <1>4, <3>2, <3>3, <3>4, <3>5, <3>6 DEF StatusEvents
  <2>4. RecordsInOrder(p)'
    <3>1. /\ Written(p) \in Statuses => Written(p)' \in Statuses
          /\ Remembered(p) = table[p] => Remembered(p)' = table'[p]
          /\ \A x : Written(p) = x => Written(p)' = x
      BY <1>4 DEF Written, Remembered, storeVars
    <3>2. \A t : Writes(t, p)' <=> Writes(t, p)
      BY <1>4 DEF Writes
    <3> QED
      BY <1>4, <1>12, <3>1, <3>2 DEF PaymentInv, RecordsInOrder, storeVars
  <2> QED
    BY <1>8, <2>1, <2>2, <2>3, <2>4 DEF PaymentInv
<1> QED
  BY <1>6, <1>15, <1>16 DEF ReadInv

-----------------------------------------------------------------------------
(* The second half of Append. *)

\* Who is between the halves of Append, and with what.
LEMMA WriterFacts ==
  ASSUME ReadInv, NEW t \in Threads, step[t] = "file"
  PROVE  /\ hand[t] \in Event
         /\ t \in Payments => hand[t].of = t /\ hand[t].name \in {"payment.created", "payment.initialized"}
         /\ t \in Credits => hand[t] = Credited(t)
         /\ t \in Shards =>
              /\ hand[t].of \in Payments /\ ShardOf[hand[t].of] = t /\ Marking(hand[t].of)
              /\ hand[t].name \in StatusEvents \ {"payment.created"}
<1>1. hand[t] \in Event
  BY DEF ReadInv, TypeOK
<1>2. t \in Payments => hand[t].of = t /\ hand[t].name \in {"payment.created", "payment.initialized"}
  BY Apart DEF ReadInv, RequestsOwn
<1>3. t \in Credits => hand[t] = Credited(t)
  <2>1. t \in Credits => hand[t].of = t /\ hand[t].name = "wallet.credited"
    BY Apart DEF ReadInv, RequestsOwn
  <2>2. \A e \in Event : e = [name |-> e.name, of |-> e.of]
    BY DEF Event
  <2> QED
    BY <1>1, <2>1, <2>2 DEF Credited
<1>4. ASSUME t \in Shards
      PROVE  /\ hand[t].of \in Payments /\ ShardOf[hand[t].of] = t /\ Marking(hand[t].of)
             /\ hand[t].name \in StatusEvents \ {"payment.created"}
  <2>1. PICK q \in Seq(Delivery) : q = queue[t]
    BY <1>4 DEF ReadInv, TypeOK
  <2>2. PICK e : e = Head(q).event
    OBVIOUS
  <2>3. /\ q # <<>> /\ Head(q).to = "workflow" /\ e.name \in DOMAIN Marks
        /\ hand[t] = [name |-> Marks[e.name], of |-> e.of]
    BY <1>4, <2>1, <2>2 DEF ReadInv, WorkersMark
  <2>4. Head(q) \in Delivery /\ Head(q) \in Elems(q)
    BY <2>3, TailFacts
  <2>5. AtHome(Head(q), t) /\ e \in Event
    BY <1>4, <2>1, <2>2, <2>4 DEF ReadInv, Home, Delivery
  <2>6. e.of \in Payments /\ ShardOf[e.of] = t
    BY <2>2, <2>3, <2>5, KeyFacts DEF AtHome
  <2>7. hand[t].of = e.of /\ hand[t].name = Marks[e.name]
    BY <2>3
  <2>8. Marks[e.name] \in StatusEvents \ {"payment.created"}
    BY <2>3, NameFacts DEF StatusEvents
  <2> QED
    BY <2>6, <2>7, <2>8 DEF Marking
<1> QED
  BY <1>1, <1>2, <1>3, <1>4

\* Only one goroutine at a time is between the halves of Append for a payment.
LEMMA OneWriter ==
  ASSUME ReadInv, NEW p \in Payments
  PROVE  ~(Writes(p, p) /\ Marking(p)) /\ (Writes(ShardOf[p], p) => Marking(p))
<1>1. ASSUME Marking(p) PROVE ~Writes(p, p)
  <2>1. PICK d \in Waiting(p) : d \in Workflow(p)
    BY <1>1, MarkingHead DEF ReadInv
  <2> QED
    BY <2>1, AtWork
<1> QED
  BY <1>1 DEF Writes, Marking

\* What the second half of Append does, whichever way it goes.
Finishes(t, e) ==
  /\ step[t] = "file" /\ e = hand[t]
  /\ step' = [step EXCEPT ![t] = "publish"]
  /\ UNCHANGED <<streams, http, hand, table, queue, view, moved, restarts>>
  /\ \/ lines' = [lines EXCEPT ![KeyOf(e)] = Append(@, e)] /\ unsaved' = unsaved
     \/ lines' = lines /\ unsaved' = unsaved \union {e.of}

LEMMA FinishAppendKeeps ==
  ASSUME ReadInv, NEW t \in Threads, FinishAppend(t)
  PROVE  ReadInv'
<1>1. PICK e \in Event : e = hand[t]
  BY DEF ReadInv, TypeOK
<1>2. Finishes(t, e)
  BY <1>1 DEF FinishAppend, Finishes, AppendToFile, FileIsClosed, WriteFails, storeVars
<1>3. PICK r \in Requests : r = e.of
  BY KeyFacts
<1>4. PICK k \in Aggregates : k = KeyOf(e)
  BY KeyFacts
<1>5. /\ step[t] = "file" /\ step' = [step EXCEPT ![t] = "publish"]
      /\ UNCHANGED <<streams, http, hand, table, queue, view, moved, restarts>>
      /\ \/ lines' = [lines EXCEPT ![k] = Append(@, e)] /\ unsaved' = unsaved
         \/ lines' = lines /\ unsaved' = unsaved \union {r}
  BY <1>2, <1>3, <1>4 DEF Finishes
<1>6. TypeOK /\ Home /\ WorkersMark /\ RequestsOwn
  BY DEF ReadInv
<1>7. /\ t \in Payments => r = t /\ e.name \in {"payment.created", "payment.initialized"}
      /\ t \in Credits => e = Credited(t)
      /\ t \in Shards => /\ r \in Payments /\ ShardOf[r] = t /\ Marking(r)
                         /\ e.name \in StatusEvents \ {"payment.created"}
  BY <1>1, <1>3, <1>5, WriterFacts
<1>8. t \in Payments \/ t \in Credits \/ t \in Shards
  BY DEF Threads, Requests
<1>9. /\ \A u \in Threads : u # t => step'[u] = step[u]
      /\ step'[t] = "publish"
      /\ \A u \in Threads : step'[u] # "ready" <=> step[u] # "ready"
  BY <1>5, <1>6 DEF TypeOK
<1>10. PICK l \in Seq(Event) : l = lines[k]
  BY <1>4, <1>6, ReadModelAssumption DEF TypeOK, StoreTypeOK
<1>11. /\ \A a \in Aggregates : a # k => lines'[a] = lines[a]
       /\ \/ lines'[k] = Append(l, e) /\ unsaved' = unsaved
          \/ lines'[k] = l /\ r \in unsaved'
       /\ unsaved \subseteq unsaved' /\ \A x : x # r => (x \in unsaved' <=> x \in unsaved)
       /\ unsaved' \subseteq Requests
  <2>1. lines \in [Aggregates -> Seq(Records)] /\ unsaved \subseteq Requests
    BY <1>6 DEF TypeOK, StoreTypeOK
  <2> QED
    BY <1>4, <1>5, <1>10, <2>1
<1>12. lines' \in [Aggregates -> Seq(Records)]
  <2>1. lines \in [Aggregates -> Seq(Records)] /\ Append(l, e) \in Seq(Records)
    BY <1>6, <1>10, ReadModelAssumption DEF TypeOK, StoreTypeOK
  <2> QED
    BY <1>5, <1>10, <2>1
<1>13. TypeOK'
  <2>1. garbled' \in BOOLEAN /\ fileOpen' \in BOOLEAN /\ writeFailures' \in 0 .. MaxWriteFailures
    BY <1>6, EventStoreAssumption
       DEF FinishAppend, AppendToFile, FileIsClosed, WriteFails, storeVars, TypeOK, StoreTypeOK
  <2>2. step' \in [Threads -> {"ready", "file", "publish", "announce"}]
    BY <1>5, <1>6 DEF TypeOK
  <2> QED
    BY <1>5, <1>6, <1>11, <1>12, <2>1, <2>2 DEF TypeOK, StoreTypeOK
<1>14. Home'
  BY <1>5, <1>6 DEF Home, Elems, AtHome
<1>15. WorkersMark' /\ RequestsOwn'
  <2>1. WorkersMark'
    BY <1>5, <1>6, <1>9, Apart DEF WorkersMark
  <2>2. RequestsOwn'
    BY <1>5, <1>6, <1>9 DEF RequestsOwn, Threads
  <2> QED
    BY <2>1, <2>2
<1>16. \A p \in Payments : Marking(p)' <=> Marking(p)
  BY <1>5, <1>9, Apart DEF Marking
<1>17. ASSUME NEW p \in Payments, p # r PROVE PaymentInv(p)'
  <2>1. p # t /\ p # k /\ p \in Aggregates /\ p \in Threads
    BY <1>3, <1>4, <1>7, <1>8, <1>17, Apart, KeyFacts
  <2>2. Marking(p) => ShardOf[p] # t
    BY <1>1, <1>3, <1>17 DEF Marking
  <2>3. Still(p)
    BY <1>5, <1>9, <1>11, <1>16, <1>17, <2>1, <2>2, Apart DEF Still
  <2>4. Frame(p)
    BY <1>5, <2>3, <1>17 DEF Frame, ReadInv, PaymentInv, Ordered, QueueOf, Waiting, Due, Elems, InOrder, Before
  <2> QED
    BY <2>4, FrameKeeps DEF ReadInv
<1>18. ASSUME NEW p \in Payments, p = r PROVE PaymentInv(p)'
  <2>1. /\ t \in {p, ShardOf[p]} /\ k = p /\ Writes(t, p)
        /\ t = p => e.name \in {"payment.created", "payment.initialized"}
        /\ t # p => e.name \in StatusEvents \ {"payment.created"}
    BY <1>1, <1>3, <1>4, <1>5, <1>7, <1>8, <1>18, Apart, KeyFacts DEF Writes, Credited
  <2>2. PaymentInv(p) /\ e.name \in StatusEvents
    BY <2>1 DEF ReadInv, StatusEvents
  <2>3. /\ table[p] # "none" /\ http[p] # "start"
        /\ t = p => ~Marking(p) /\ Waiting(p) \intersect Workflow(p) = {}
        /\ t # p => step[p] \in {"ready", "announce"} /\ step'[p] = step[p] /\ Marking(p)
    <3>1. CASE t = p
      <4>1. table[p] # "none" /\ http[p] # "start" /\ Waiting(p) \intersect Workflow(p) = {}
        BY <1>5, <2>2, <3>1 DEF PaymentInv, CreateFirst
      <4>2. ~Marking(p)
        BY <2>1, <3>1, OneWriter
      <4> QED
        BY <3>1, <4>1, <4>2
    <3>2. CASE t # p
      <4>1. Marking(p)
        BY <2>1, <3>2, OneWriter
      <4>2. PICK d \in Waiting(p) : d \in Workflow(p)
        BY <1>6, <4>1, MarkingHead
      <4>3. table[p] # "none" /\ http[p] # "start" /\ step[p] \in {"ready", "announce"}
        BY <4>2, AtWork
      <4> QED
        BY <1>9, <3>2, <4>1, <4>3, Apart
    <3> QED
      BY <3>1, <3>2
  <2>4. ~Writes(p, p)' /\ ~Writes(ShardOf[p], p)'
    BY <1>5, <1>9, <1>16, <2>1, <2>3, Apart DEF Writes, Marking
  <2>5. Ordered(p)' /\ \A d : d \in Waiting(p)' <=> d \in Waiting(p)
    BY <1>5, <2>2 DEF PaymentInv, Ordered, QueueOf, Waiting, Elems, InOrder, Before
  <2>6. \A x : Due(x, p)' <=> Due(x, p)
    BY <2>5 DEF Due
  <2>7. step[p] \in {"file", "publish"} <=> step'[p] \in {"file", "publish"}
    BY <1>5, <1>9, <2>1, <2>3
  <2>8. CreateFirst(p)'
    <3>1. step'[p] # "file"
      BY <1>9, <2>1, <2>3
    <3>2. step'[p] = "announce" => step[p] = "announce"
      BY <1>9, <2>1, <2>3
    <3>3. /\ Waiting(p) \intersect Workflow(p) = {} => Waiting(p)' \intersect Workflow(p) = {}
          /\ Waiting(p) \intersect About(p) = {} => Waiting(p)' \intersect About(p) = {}
      BY <2>5
    <3> QED
      BY <1>5, <2>2, <2>3, <2>6, <2>7, <3>1, <3>2, <3>3 DEF PaymentInv, CreateFirst
  <2>9. TableInPosition(p)'
    BY <1>5, <1>16, <2>2, <2>5 DEF PaymentInv, TableInPosition
  <2>10. ViewBehind(p)'
    BY <1>5, <1>16, <2>2, <2>6, <2>7 DEF PaymentInv, ViewBehind
  <2>11. RecordsInOrder(p)'
    <3>1. e.name = "payment.created" => l = <<>>
      BY <1>1, <1>5, <1>10, <2>1, <2>2 DEF PaymentInv, CreateFirst
    <3>2. PICK n : n = Append(l, e)
      OBVIOUS
    <3>3. Replayed(n) \in Statuses
      <4>1. Replayed(n) = StatusOf[e.name]
        BY <2>2, <3>1, <3>2, ReplayedFacts
      <4> QED
        BY <2>2, <4>1, NameFacts DEF StatusEvents, Statuses
    <3>4. /\ \A x : Written(p) = x <=> Replayed(l) = x
          /\ lines'[p] = n => \A x : Written(p)' = x <=> Replayed(n) = x
          /\ lines'[p] = l => \A x : Written(p)' = x <=> Replayed(l) = x
      BY <1>10, <2>1, Leaves
    <3>5. Written(p)' \in Statuses
      <4>1. Replayed(l) \in Statuses
        BY <2>2, <3>4 DEF PaymentInv, RecordsInOrder
      <4>2. CASE lines'[p] = n
        BY <3>3, <3>4, <4>2
      <4>3. CASE lines'[p] = l
        BY <3>4, <4>1, <4>3
      <4> QED
        BY <1>11, <2>1, <3>2, <4>2, <4>3
    <3>6. Remembered(p)' = table'[p]
      BY <1>5, <2>2, <2>3 DEF PaymentInv, RecordsInOrder, Remembered
    <3>7. p \notin unsaved' => lines'[p] = streams'[p]
      BY <1>1, <1>5, <1>10, <1>11, <1>18, <2>1, <2>2 DEF PaymentInv, RecordsInOrder
    <3> QED
      BY <2>4, <3>5, <3>6, <3>7 DEF RecordsInOrder
  <2> QED
    BY <2>5, <2>8, <2>9, <2>10, <2>11 DEF PaymentInv
<1>19. ASSUME NEW c \in Credits, c # t PROVE CreditInOrder(c)'
  <2>1. e # Credited(c)
    BY <1>3, <1>7, <1>8, <1>19, Apart DEF Credited
  <2>2. step'[c] = step[c] /\ Owner[c] \in Aggregates
    BY <1>9, <1>19, Apart
  <2>3. Appended(lines[Owner[c]], lines'[Owner[c]], Credited(c))
    BY <1>10, <1>11, <2>1, <2>2 DEF Appended
  <2>4. Appended(streams[Owner[c]], streams'[Owner[c]], Credited(c))
    BY <1>5 DEF Appended
  <2>5. c \in unsaved => c \in unsaved'
    BY <1>11
  <2> QED
    BY <1>6, <2>2, <2>3, <2>4, <2>5, CreditKept DEF ReadInv
<1>20. ASSUME NEW c \in Credits, c = t PROVE CreditInOrder(c)'
  <2>1. e = Credited(c) /\ r = c /\ k = Owner[c]
    BY <1>3, <1>4, <1>7, <1>20, Apart, KeyFacts DEF Credited
  <2>2. PICK m : m = streams[k]
    OBVIOUS
  <2>3. PICK l2 : l2 = lines'[k]
    OBVIOUS
  <2>4. /\ c \notin unsaved => Occurrences(m, e) = Occurrences(l, e) + (IF step[c] = "file" THEN 1 ELSE 0)
        /\ CreditInOrder(c)' <=> (c \notin unsaved' =>
             Occurrences(m, e) = Occurrences(l2, e) + (IF step'[c] = "file" THEN 1 ELSE 0))
    BY <1>5, <1>10, <2>1, <2>2, <2>3 DEF ReadInv, CreditInOrder, Occurrences, Credited
  <2>5. step[c] = "file" /\ step'[c] = "publish"
    BY <1>5, <1>9, <1>20
  <2>6. ASSUME c \notin unsaved' PROVE l2 = Append(l, e) /\ c \notin unsaved
    BY <1>11, <2>1, <2>3, <2>6
  <2>7. /\ Occurrences(l, e) \in Nat /\ Occurrences(Append(l, e), e) \in Nat
        /\ Occurrences(Append(l, e), e) >= Occurrences(l, e) + 1
        /\ Occurrences(Append(l, e), e) <= Occurrences(l, e) + 1
    <3>1. Append(l, e) \in Seq(Event)
      BY <1>10
    <3> QED
      BY <1>10, <3>1, OccurrencesFacts
  <2>8. ASSUME c \notin unsaved'
        PROVE  Occurrences(m, e) = Occurrences(l2, e) + (IF step'[c] = "file" THEN 1 ELSE 0)
    <3>1. l2 = Append(l, e) /\ Occurrences(m, e) = Occurrences(l, e) + 1
      BY <2>4, <2>5, <2>6, <2>8
    <3>2. Occurrences(l2, e) = Occurrences(l, e) + 1
      BY <2>7, <3>1
    <3>3. Occurrences(l2, e) \in Nat
      BY <2>7, <3>1
    <3> QED
      BY <2>5, <3>1, <3>2, <3>3
  <2> QED
    BY <2>4, <2>8
<1> QED
  BY <1>13, <1>14, <1>15, <1>17, <1>18, <1>19, <1>20 DEF ReadInv

-----------------------------------------------------------------------------
(* Beginning, end, and the steps between. *)

\* A step that changes at most whether the file is open.
LEMMA NothingMoves ==
  ASSUME ReadInv, UNCHANGED readVars, UNCHANGED <<streams, lines, garbled, writeFailures>>,
         fileOpen' \in BOOLEAN
  PROVE  ReadInv'
<1>1. /\ UNCHANGED <<http, step, hand, table, queue, view, moved, restarts, unsaved>>
      /\ TypeOK /\ Home /\ WorkersMark /\ RequestsOwn
  BY DEF ReadInv, readVars
<1>2. TypeOK'
  BY <1>1 DEF TypeOK, StoreTypeOK
<1>3. Home' /\ WorkersMark' /\ RequestsOwn'
  BY <1>1 DEF Home, Elems, AtHome, WorkersMark, RequestsOwn
<1>4. ASSUME NEW p \in Payments PROVE PaymentInv(p)'
  <2>1. Still(p)
    BY <1>1 DEF Still, Marking
  <2>2. Frame(p)
    BY <1>1, <2>1 DEF Frame, ReadInv, PaymentInv, Ordered, QueueOf, Waiting, Due, Elems, InOrder, Before
  <2> QED
    BY <2>2, FrameKeeps DEF ReadInv
<1>5. ASSUME NEW c \in Credits PROVE CreditInOrder(c)'
  BY <1>1, CreditKept DEF ReadInv, Appended
<1> QED
  BY <1>2, <1>3, <1>4, <1>5 DEF ReadInv

LEMMA ShutdownKeeps ==
  ASSUME ReadInv, Shutdown
  PROVE  ReadInv'
  BY NothingMoves DEF Shutdown, CloseStore

\* A process in which nothing has happened: the views are what the file leaves.
Fresh ==
  /\ \A t \in Threads : step[t] = "ready"
  /\ \A s \in Shards : queue[s] = <<>>
  /\ \A r \in Requests : http[r] # "running"
  /\ \A p \in Payments : /\ table[p] = "none" /\ view[p] = Written(p) /\ Written(p) \in Statuses
                         /\ lines[p] = streams[p] /\ (http[p] = "start" => lines[p] = <<>>)
  /\ \A c \in Credits : CreditInOrder(c)

LEMMA FreshFacts ==
  ASSUME TypeOK, Fresh
  PROVE  ReadInv
<1>1. \A d : d \notin Elems(<<>>)
  BY DEF Elems
<1>2. Home
  BY <1>1 DEF Fresh, Home
<1>3. WorkersMark /\ RequestsOwn
  BY Apart DEF Fresh, WorkersMark, RequestsOwn, Threads
<1>4. ASSUME NEW p \in Payments PROVE PaymentInv(p)
  <2>1. /\ step[p] = "ready" /\ step[ShardOf[p]] = "ready" /\ queue[ShardOf[p]] = <<>>
        /\ table[p] = "none" /\ view[p] = Written(p) /\ Written(p) \in Statuses
        /\ lines[p] = streams[p] /\ (http[p] = "start" => lines[p] = <<>>)
    BY Apart DEF Fresh
  <2>2. Ordered(p) /\ Waiting(p) = {}
    BY <2>1 DEF Ordered, QueueOf, InOrder, Before, Waiting, Elems
  <2>3. (\A x : ~Due(x, p)) /\ ~Marking(p) /\ ~Writes(p, p) /\ ~Writes(ShardOf[p], p)
    BY <2>1, <2>2 DEF Due, Marking, Writes
  <2>4. CreateFirst(p)
    BY <2>1, <2>2, <2>3 DEF CreateFirst
  <2>5. TableInPosition(p)
    BY <2>2, <2>3 DEF TableInPosition
  <2>6. ViewBehind(p)
    BY <2>1, <2>3 DEF ViewBehind
  <2>7. RecordsInOrder(p)
    <3>1. \A t \in {p, ShardOf[p]} : ~Writes(t, p)
      BY <2>3
    <3>2. Written(p) \in Statuses
      BY <2>1
    <3>3. lines[p] = streams[p] /\ table[p] = "none"
      BY <2>1
    <3> QED
      BY <3>1, <3>2, <3>3 DEF RecordsInOrder
  <2> QED
    BY <2>2, <2>4, <2>5, <2>6, <2>7 DEF PaymentInv
<1> QED
  BY <1>2, <1>3, <1>4 DEF Fresh, ReadInv

LEMMA InitFacts ==
  ASSUME Requests # {}, Init
  PROVE  ReadInv
<1>1. TypeOK
  <2>1. Nothing \in Event
    BY NothingFacts
  <2>2. <<>> \in Seq(Records) /\ <<>> \in Seq(Delivery)
    OBVIOUS
  <2>3. StoreTypeOK
    <3>1. /\ streams = [k \in Aggregates |-> <<>>]
          /\ lines = [k \in Aggregates |-> <<>>]
          /\ garbled = FALSE /\ fileOpen = TRUE /\ writeFailures = 0
      BY DEF Init, StoreInit
    <3>2. streams \in [Aggregates -> Seq(Records)] /\ lines \in [Aggregates -> Seq(Records)]
      BY <2>2, <3>1
    <3>3. garbled \in BOOLEAN /\ fileOpen \in BOOLEAN
      BY <3>1
    <3>4. writeFailures \in 0 .. MaxWriteFailures
      BY <3>1, EventStoreAssumption
    <3> QED
      BY <3>2, <3>3, <3>4 DEF StoreTypeOK
  <2>4. /\ queue \in [Shards -> Seq(Delivery)] /\ restarts \in 0 .. MaxRestarts
        /\ moved \in [Movement -> Nat] /\ unsaved \subseteq Requests
    BY <2>2, ReadModelAssumption DEF Init
  <2>5. /\ http \in [Requests -> {"start", "running", "accepted", "cut"}]
        /\ step \in [Threads -> {"ready", "file", "publish", "announce"}]
        /\ hand \in [Threads -> Event]
        /\ table \in [Payments -> Statuses] /\ view \in [Payments -> Statuses]
    BY <2>1 DEF Init, Statuses
  <2> QED
    BY <2>3, <2>4, <2>5 DEF TypeOK
<1>2. Fresh
  <2>1. ASSUME NEW p \in Payments
        PROVE  /\ table[p] = "none" /\ view[p] = Written(p) /\ Written(p) \in Statuses
               /\ lines[p] = streams[p] /\ lines[p] = <<>>
    <3>1. /\ table[p] = "none" /\ view[p] = "none" /\ lines[p] = <<>> /\ streams[p] = <<>>
      BY Apart DEF Init, StoreInit
    <3>2. Written(p) = "none"
      BY <3>1, ReplayedNothing DEF Written
    <3> QED
      BY <3>1, <3>2 DEF Statuses
  <2>2. ASSUME NEW c \in Credits PROVE CreditInOrder(c)
    <3>1. step[c] = "ready" /\ lines[Owner[c]] = <<>> /\ streams[Owner[c]] = <<>>
      BY Apart DEF Init, StoreInit
    <3>2. PICK e \in Event : e = [name |-> "wallet.credited", of |-> c]
      BY Apart, EventFacts DEF MovementEvents
    <3>3. Occurrences(<<>>, e) \in Nat
      <4>1. <<>> \in Seq(Event)
        BY ShortFacts
      <4> QED
        BY <4>1, OccurrencesFacts
    <3> QED
      BY <3>1, <3>2, <3>3 DEF CreditInOrder
  <2>3. /\ \A t \in Threads : step[t] = "ready"
        /\ \A s \in Shards : queue[s] = <<>>
        /\ \A r \in Requests : http[r] # "running"
    BY DEF Init
  <2> QED
    BY <2>1, <2>2, <2>3 DEF Fresh
<1> QED
  BY <1>1, <1>2, FreshFacts

\* The next process starts.
LEMMA RestartKeeps ==
  ASSUME ReadInv, Restart, Requests # {}
  PROVE  ReadInv'
<1>1. TypeOK
  BY DEF ReadInv
<1>2. /\ streams' = lines /\ lines' = lines
      /\ http' = [r \in Requests |-> IF http[r] = "running" THEN "cut" ELSE http[r]]
      /\ step' = [t \in Threads |-> "ready"]
      /\ hand' = [t \in Threads |-> Nothing]
      /\ table' = [p \in Payments |-> "none"]
      /\ queue' = [s \in Shards |-> <<>>]
      /\ view' = [p \in Payments |-> Replayed(lines[p])]
      /\ moved' = [m \in Movement |-> Occurrences(lines[KeyOf(m)], m)]
      /\ restarts < MaxRestarts /\ restarts' = restarts + 1
      /\ unsaved' = unsaved
      /\ fileOpen' = TRUE /\ garbled' = garbled /\ writeFailures' = writeFailures
  BY DEF Restart, ReopenStore
<1>3. ASSUME NEW p \in Payments
      PROVE  /\ Replayed(lines[p]) \in Statuses
             /\ \A x : Written(p)' = x <=> Replayed(lines[p]) = x
             /\ http[p] = "start" => lines[p] = <<>>
  <2>1. PICK l : l = lines[p]
    OBVIOUS
  <2>2. /\ \A x : Written(p) = x <=> Replayed(l) = x
        /\ \A x : Written(p)' = x <=> Replayed(l) = x
    BY <1>2, <2>1, Leaves
  <2>3. Written(p) \in Statuses /\ (http[p] = "start" => lines[p] = <<>>)
    BY DEF ReadInv, PaymentInv, RecordsInOrder, CreateFirst
  <2> QED
    BY <2>1, <2>2, <2>3
<1>4. TypeOK'
  <2>1. moved' \in [Movement -> Nat]
    <3> SUFFICES ASSUME NEW m \in Movement PROVE Occurrences(lines[KeyOf(m)], m) \in Nat
      BY <1>2
    <3>1. m \in Event
      BY Apart DEF Movement, Event, Projected, MovementEvents
    <3>2. KeyOf(m) \in Aggregates
      BY <3>1, KeyFacts
    <3>3. lines[KeyOf(m)] \in Seq(Event)
      BY <1>1, <3>2, ReadModelAssumption DEF TypeOK, StoreTypeOK
    <3> QED
      BY <3>1, <3>3, OccurrencesFacts
  <2>2. view' \in [Payments -> Statuses]
    BY <1>2, <1>3
  <2>3. http' \in [Requests -> {"start", "running", "accepted", "cut"}]
    BY <1>1, <1>2 DEF TypeOK
  <2>4. hand' \in [Threads -> Event]
    BY <1>2, NothingFacts
  <2>5. restarts' \in 0 .. MaxRestarts
    BY <1>1, <1>2, ReadModelAssumption DEF TypeOK
  <2>6. StoreTypeOK'
    BY <1>1, <1>2 DEF TypeOK, StoreTypeOK
  <2>7. /\ step' \in [Threads -> {"ready", "file", "publish", "announce"}]
        /\ table' \in [Payments -> Statuses]
        /\ queue' \in [Shards -> Seq(Delivery)]
        /\ unsaved' \subseteq Requests
    BY <1>1, <1>2 DEF TypeOK, Statuses
  <2> QED
    BY <2>1, <2>2, <2>3, <2>4, <2>5, <2>6, <2>7 DEF TypeOK
<1>5. Fresh'
  <2>1. ASSUME NEW p \in Payments
        PROVE  (/\ table[p] = "none" /\ view[p] = Written(p) /\ Written(p) \in Statuses
                /\ lines[p] = streams[p] /\ (http[p] = "start" => lines[p] = <<>>))'
    <3>1. view'[p] = Replayed(lines[p]) /\ table'[p] = "none" /\ lines'[p] = streams'[p]
      BY <1>2
    <3>2. http'[p] = "start" => lines'[p] = <<>>
      BY <1>2, <1>3, Apart
    <3>3. view'[p] = Written(p)' /\ Written(p)' \in Statuses
      BY <1>3, <3>1
    <3> QED
      BY <3>1, <3>2, <3>3
  <2>2. ASSUME NEW c \in Credits PROVE CreditInOrder(c)'
    <3>1. PICK l \in Seq(Event) : l = lines[Owner[c]]
      BY <1>1, Apart, ReadModelAssumption DEF TypeOK, StoreTypeOK
    <3>2. PICK e \in Event : e = Credited(c)
      BY Apart, EventFacts DEF MovementEvents, Credited
    <3>3. Occurrences(l, e) \in Nat
      BY OccurrencesFacts
    <3>4. CreditInOrder(c)' <=> (c \notin unsaved =>
            Occurrences(l, e) = Occurrences(l, e) + (IF step'[c] = "file" THEN 1 ELSE 0))
      BY <1>2, <3>1, <3>2 DEF CreditInOrder, Occurrences, Credited
    <3>5. step'[c] = "ready"
      BY <1>2, Apart
    <3> QED
      BY <3>3, <3>4, <3>5
  <2>3. /\ \A t \in Threads : step'[t] = "ready"
        /\ \A s \in Shards : queue'[s] = <<>>
        /\ \A r \in Requests : http'[r] # "running"
    BY <1>2
  <2> QED
    BY <2>1, <2>2, <2>3 DEF Fresh
<1>6. (TypeOK /\ Fresh => ReadInv)'
  BY FreshFacts, PTL
<1> QED
  BY <1>4, <1>5, <1>6

LEMMA NextKeeps ==
  ASSUME ReadInv, Next, Requests # {}
  PROVE  ReadInv'
<1>1. ASSUME NEW p \in Payments, CreateSave(p) \/ CreateGoesOn(p) PROVE ReadInv'
  BY <1>1, CreateSaveKeeps, CreatePublishCreatedKeeps, PublishInitializedKeeps, CreateAnnounceKeeps
     DEF CreateGoesOn
<1>2. ASSUME NEW c \in Credits, CreditSave(c) \/ CreditPublish(c) PROVE ReadInv'
  BY <1>2, CreditSaveKeeps, CreditPublishKeeps
<1>3. ASSUME NEW s \in Shards, Worker(s) \/ Recover(s) PROVE ReadInv'
  BY <1>3, HandleMoneyKeeps, MarkSaveKeeps, MarkPublishKeeps, ProjectStatusKeeps,
     ProjectMovementKeeps, RecoverKeeps
     DEF Worker
<1>4. ASSUME NEW t \in Threads, FinishAppend(t) PROVE ReadInv'
  BY <1>4, FinishAppendKeeps
<1>5. CASE Shutdown
  BY <1>5, ShutdownKeeps
<1>6. CASE Restart
  BY <1>6, RestartKeeps
<1> QED
  BY <1>1, <1>2, <1>3, <1>4, <1>5, <1>6 DEF Next

LEMMA StutterKeeps ==
  ASSUME ReadInv, UNCHANGED vars
  PROVE  ReadInv'
<1>1. UNCHANGED readVars /\ UNCHANGED <<streams, lines, garbled, writeFailures>> /\ fileOpen' = fileOpen
  BY DEF vars, storeVars
<1>2. fileOpen' \in BOOLEAN
  BY <1>1 DEF ReadInv, TypeOK, StoreTypeOK
<1> QED
  BY <1>1, <1>2, NothingMoves

\* ReadInv is an invariant: the table, the views, the records and the deliveries
\* are in step in every state that the requests, the workers, failed writes,
\* shutdowns and restarts can reach (cmd/web's handlers, projector.go, store.go).
THEOREM InStep ==
  ASSUME Requests # {}
  PROVE  Spec => []ReadInv
<1>1. Init => ReadInv
  BY InitFacts
<1>2. ReadInv /\ [Next]_vars => ReadInv'
  BY NextKeeps, StutterKeeps
<1> QED
  BY <1>1, <1>2, PTL DEF Spec

\* The state has its type.
THEOREM ReadTypeCorrect ==
  ASSUME Requests # {}
  PROVE  Spec => []TypeOK
<1>1. ReadInv => TypeOK
  BY DEF ReadInv
<1> QED
  BY <1>1, InStep, PTL

-----------------------------------------------------------------------------
(* The file and the memory. *)

LEMMA InvFileFollows == ReadInv => FileFollowsMemory
<1> SUFFICES ASSUME ReadInv PROVE FileFollowsMemory
  OBVIOUS
<1>1. ASSUME NEW p \in Payments \ unsaved
      PROVE  \/ lines[p] = streams[p]
             \/ /\ streams[p] # <<>>
                /\ Writing(streams[p][Len(streams[p])])
                /\ lines[p] = SubSeq(streams[p], 1, Len(streams[p]) - 1)
  <2>1. CASE ~Writes(p, p) /\ ~Writes(ShardOf[p], p)
    BY <2>1 DEF ReadInv, PaymentInv, RecordsInOrder
  <2>2. ASSUME NEW t \in {p, ShardOf[p]}, Writes(t, p)
        PROVE  /\ streams[p] # <<>>
               /\ Writing(streams[p][Len(streams[p])])
               /\ lines[p] = SubSeq(streams[p], 1, Len(streams[p]) - 1)
    <3>1. PICK l \in Seq(Event) : l = lines[p]
      BY Apart, ReadModelAssumption DEF ReadInv, TypeOK, StoreTypeOK
    <3>2. PICK e \in Event : e = hand[t]
      BY Apart DEF ReadInv, TypeOK
    <3>3. streams[p] = Append(l, e)
      BY <2>2, <3>1, <3>2 DEF ReadInv, PaymentInv, RecordsInOrder
    <3>4. /\ Append(l, e) # <<>> /\ Append(l, e)[Len(Append(l, e))] = e
          /\ SubSeq(Append(l, e), 1, Len(Append(l, e)) - 1) = l
      <4> DEFINE a == Append(l, e)
                 b == SubSeq(a, 1, Len(a) - 1)
      <4>1. a \in Seq(Event) /\ Len(a) = Len(l) + 1 /\ Len(l) \in Nat /\ a # <<>> /\ a[Len(a)] = e
        OBVIOUS
      <4>2. \A i \in 1 .. Len(l) : a[i] = l[i]
        OBVIOUS
      <4> HIDE DEF a
      <4>3. b \in Seq(Event) /\ Len(b) = Len(l) /\ \A i \in 1 .. Len(l) : b[i] = a[i]
        BY <4>1
      <4>4. b = l
        <5> HIDE DEF b
        <5> QED
          BY <4>2, <4>3
      <4> QED
        BY <4>1, <4>4 DEF a
    <3>5. Writing(e)
      BY <2>2, <3>2, Apart DEF Writing, Writes
    <3> QED
      BY <3>1, <3>3, <3>4, <3>5
  <2> QED
    BY <2>1, <2>2
<1>2. ASSUME NEW c \in Credits \ unsaved
      PROVE  Occurrences(streams[Owner[c]], Credited(c)) =
               Occurrences(lines[Owner[c]], Credited(c)) + (IF Writing(Credited(c)) THEN 1 ELSE 0)
  <2>1. step[c] = "file" => Writing(Credited(c))
    BY Apart, WriterFacts DEF Writing
  <2>2. ASSUME NEW t \in Threads, step[t] = "file", hand[t] = Credited(c) PROVE step[c] = "file"
    <3>1. hand[t].of = c
      BY <2>2 DEF Credited
    <3>2. t \in Credits => Credited(t).of = t
      BY DEF Credited
    <3> QED
      BY <2>2, <3>1, <3>2, WriterFacts, Apart DEF Threads, Requests
  <2>3. Writing(Credited(c)) <=> step[c] = "file"
    BY <2>1, <2>2 DEF Writing
  <2> QED
    BY <2>3 DEF ReadInv, CreditInOrder, Credited
<1> QED
  BY <1>1, <1>2 DEF FileFollowsMemory, Credited

\* However the two halves of the Appends of different goroutines are interleaved,
\* the file has a payment's records in the order of the memory, and each credit
\* once, when no write has failed for them (store.go:124).
THEOREM FileInStep ==
  ASSUME Requests # {}
  PROVE  Spec => []FileFollowsMemory
  BY InvFileFollows, InStep, PTL

-----------------------------------------------------------------------------
(* The views and the table. *)

LEMMA QuietFacts ==
  ASSUME ReadInv, NEW p \in Payments, Quiet(p)
  PROVE  (\A x \in StatusEvents : ~Due(x, p)) /\ ~Marking(p) /\ step[p] = "ready"
<1>1. ASSUME NEW x \in StatusEvents, Due(x, p) PROVE FALSE
  <2>1. PICK q : q = queue[ShardOf[p]]
    OBVIOUS
  <2>2. PICK e : e = [name |-> x, of |-> p]
    OBVIOUS
  <2>3. KeyOf(e) = p
    BY <2>2 DEF KeyOf
  <2>4. {i \in DOMAIN q : q[i] = [to |-> "projector", event |-> e]} = {}
    BY <2>1, <2>2, <2>3 DEF Quiet, Queued
  <2>5. [to |-> "projector", event |-> e] \in Elems(q)
    BY <1>1, <2>1, <2>2, WaitingIs DEF Due, To
  <2> QED
    BY <2>4, <2>5 DEF Elems
<1>2. ~Marking(p)
  BY Apart DEF Quiet, Marking
<1>3. step[p] = "ready"
  BY Apart DEF Quiet, ReadInv, RequestsOwn
<1> QED
  BY <1>1, <1>2, <1>3

LEMMA InvViewsAgree == ReadInv => ViewsAgree
<1> SUFFICES ASSUME ReadInv, NEW p \in Payments, Quiet(p), table[p] # "none"
    PROVE  view[p] \in {table[p], "initialized"}
  BY DEF ViewsAgree
<1>1. /\ \A x \in {"payment.created", "payment.completed", "payment.failed"} : ~Due(x, p)
      /\ ~Marking(p) /\ step[p] = "ready"
  BY QuietFacts DEF StatusEvents
<1> QED
  BY <1>1 DEF ReadInv, PaymentInv, ViewBehind, Behind

\* When nothing is on its way to the view of a payment, it agrees with the table
\* or has been set back to initialized, also after crashes and when the worker has
\* run ahead of Create (bus.go:104, projector.go:180).
THEOREM ViewsComeToAgree ==
  ASSUME Requests # {}
  PROVE  Spec => []ViewsAgree
  BY InvViewsAgree, InStep, PTL

-----------------------------------------------------------------------------
(* What is read of a payment. *)

\* How far a request got is never taken back, but for a crash.
LEMMA RequestsGoOn ==
  ASSUME ReadInv, Next, NEW r \in Requests
  PROVE  /\ http[r] = "accepted" => http'[r] = "accepted"
         /\ http[r] = "cut" => http'[r] = "cut"
<1>1. TypeOK /\ RequestsOwn
  BY DEF ReadInv
<1>2. ASSUME NEW x \in Requests, http[x] \in {"start", "running"}, NEW y, http' = [http EXCEPT ![x] = y]
      PROVE  http[r] \in {"accepted", "cut"} => http'[r] = http[r]
  BY <1>1, <1>2 DEF TypeOK
<1>3. ASSUME NEW p \in Payments, CreateSave(p) \/ CreateGoesOn(p)
      PROVE  http[r] \in {"accepted", "cut"} => http'[r] = http[r]
  <2>1. CASE CreateSave(p)
    BY <1>2, <2>1, Apart DEF CreateSave
  <2>2. CASE CreatePublishCreated(p) \/ CreatePublishInitialized(p)
    BY <2>2 DEF CreatePublishCreated, CreatePublishInitialized
  <2>3. CASE CreateAnnounce(p)
    <3>1. http[p] = "running"
      BY <1>1, <2>3, Apart DEF RequestsOwn, CreateAnnounce
    <3> QED
      BY <1>2, <2>3, <3>1, Apart DEF CreateAnnounce
  <2> QED
    BY <1>3, <2>1, <2>2, <2>3 DEF CreateGoesOn
<1>4. ASSUME NEW c \in Credits, CreditSave(c) \/ CreditPublish(c)
      PROVE  http[r] \in {"accepted", "cut"} => http'[r] = http[r]
  <2>1. CASE CreditSave(c)
    BY <1>2, <2>1, Apart DEF CreditSave
  <2>2. CASE CreditPublish(c)
    <3>1. http[c] = "running"
      BY <1>1, <2>2, Apart DEF RequestsOwn, CreditPublish, AtPublish
    <3> QED
      BY <1>2, <2>2, <3>1, Apart DEF CreditPublish
  <2> QED
    BY <1>4, <2>1, <2>2
<1>5. ASSUME NEW s \in Shards, Worker(s) \/ Recover(s) PROVE http' = http
  BY <1>5 DEF Worker, Recover, HandleMoney, MarkSave, MarkPublish, ProjectStatus, ProjectMovement
<1>6. ASSUME NEW t \in Threads, FinishAppend(t) PROVE http' = http
  BY <1>6 DEF FinishAppend
<1>7. CASE Shutdown
  BY <1>7 DEF Shutdown, readVars
<1>8. CASE Restart
  BY <1>8 DEF Restart
<1> QED
  BY <1>3, <1>4, <1>5, <1>6, <1>7, <1>8 DEF Next

\* Only Create puts payment.initialized before the projector.
Stays(p) == Due("payment.initialized", p)' => Due("payment.initialized", p)

\* A queue grows only by deliveries that are not the projector's copy of p's
\* payment.initialized.
Grows(s, q, q2, p) ==
  /\ q = queue[s] /\ queue' = [queue EXCEPT ![s] = q2]
  /\ \A d \in Elems(q2) : \/ d \in Elems(q)
                          \/ d.to = "workflow"
                          \/ d.event.name # "payment.initialized"
                          \/ d.event.of # p

LEMMA GrowsStays ==
  ASSUME TypeOK, NEW s \in Shards, NEW q, NEW q2, NEW p \in Payments, Grows(s, q, q2, p)
  PROVE  Stays(p)
<1>1. PICK h : h = queue[ShardOf[p]]
  OBVIOUS
<1>2. PICK k : k = queue'[ShardOf[p]]
  OBVIOUS
<1>3. k = h \/ (s = ShardOf[p] /\ k = q2)
  BY <1>1, <1>2, Apart DEF TypeOK, Grows
<1>4. PICK d : d = To("projector", "payment.initialized", p)
  OBVIOUS
<1>5. d.to = "projector" /\ d.event.name = "payment.initialized" /\ d.event.of = p
  BY <1>4 DEF To
<1>6. d \in Elems(k) => d \in Elems(h)
  <2>1. CASE s = ShardOf[p] /\ k = q2
    BY <1>1, <1>5, <2>1 DEF Grows
  <2> QED
    BY <1>3, <2>1
<1>7. /\ \A x : x \in Waiting(p) <=> x \in Elems(h)
      /\ \A x : x \in Waiting(p)' <=> x \in Elems(k)
  BY <1>1, <1>2, WaitingIs
<1> QED
  BY <1>4, <1>6, <1>7 DEF Stays, Due

\* The deliveries of one event behind others.
LEMMA CopiesBehind ==
  ASSUME NEW q \in Seq(Delivery), NEW name \in Handled \union Projected, NEW r \in Requests,
         NEW n, n = Copies(name, r)
  PROVE  /\ q \o n \in Seq(Delivery)
         /\ \A d \in Elems(q \o n) : d \in Elems(q) \/ d.to = "workflow" \/ d.event.name = name
<1>1. /\ n \in Seq(Delivery)
      /\ \A d : d \in Elems(n) <=>
           \/ d = To("workflow", name, r) /\ name \in Handled
           \/ d = To("projector", name, r) /\ name \in Projected
  BY CopiesFacts
<1>2. \A d \in Elems(n) : d.to = "workflow" \/ d.event.name = name
  BY <1>1 DEF To
<1> QED
  BY <1>1, <1>2, ConcatFacts

\* Every other step leaves what the projector has been told of a payment's
\* beginning.
LEMMA OnlyCreateAnnounces ==
  ASSUME ReadInv, Next, NEW p \in Payments
  PROVE  Stays(p) \/ step[p] = "announce"
<1>0. TypeOK /\ WorkersMark /\ RequestsOwn
  BY DEF ReadInv
<1>1. ASSUME queue' = queue PROVE Stays(p)
  BY <1>1 DEF Stays, Due, Waiting, QueueOf, Elems
<1>2. ASSUME NEW s \in Shards, NEW q \in Seq(Delivery), q = queue[s],
             NEW name \in (Handled \union Projected) \ {"payment.initialized"}, NEW r \in Requests,
             NEW q1 \in Seq(Delivery), \A d \in Elems(q1) : d \in Elems(q),
             NEW n, n = Copies(name, r),
             queue' = [queue EXCEPT ![s] = q1 \o n]
      PROVE  Stays(p)
  <2>1. \A d \in Elems(q1 \o n) : d \in Elems(q1) \/ d.to = "workflow" \/ d.event.name = name
    BY <1>2, CopiesBehind
  <2>2. Grows(s, q, q1 \o n, p)
    BY <1>2, <2>1 DEF Grows
  <2> QED
    BY <1>0, <2>2, GrowsStays
<1>3. ASSUME NEW s \in Shards, NEW q \in Seq(Delivery), q = queue[s], NEW a \in Delivery,
             a.to = "workflow" \/ a.event.of # p,
             queue' = [queue EXCEPT ![s] = Append(q, a)]
      PROVE  Stays(p)
  <2>1. \A d \in Elems(Append(q, a)) : d \in Elems(q) \/ d = a
    <3>1. \A d : d \in Elems(q \o <<a>>) <=> d \in Elems(q) \/ d \in Elems(<<a>>)
      BY ConcatFacts, OneDelivery
    <3> QED
      BY <3>1, OneDelivery
  <2>2. Grows(s, q, Append(q, a), p)
    BY <1>3, <2>1 DEF Grows
  <2> QED
    BY <1>0, <2>2, GrowsStays
<1>4. ASSUME NEW r \in Payments, CreateSave(r) \/ CreateGoesOn(r)
      PROVE  Stays(p) \/ step[p] = "announce"
  <2>0. PICK s \in Shards : s = ShardOf[r]
    BY Apart
  <2>5. PICK q \in Seq(Delivery) : q = queue[s]
    BY <1>0 DEF TypeOK
  <2>1. CASE CreateSave(r)
    BY <1>1, <2>1 DEF CreateSave
  <2>2. CASE CreatePublishCreated(r)
    <3>1. PICK n : n = Copies("payment.created", r)
      OBVIOUS
    <3>2. queue' = [queue EXCEPT ![s] = q \o n]
      BY <2>0, <2>2, <2>5, <3>1 DEF CreatePublishCreated
    <3>3. "payment.created" \in (Handled \union Projected) \ {"payment.initialized"} /\ r \in Requests
      BY Apart DEF Projected, StatusEvents
    <3> QED
      BY <1>2, <2>5, <3>1, <3>2, <3>3
  <2>3. CASE CreatePublishInitialized(r)
    <3>1. PICK a \in Delivery : a = To("workflow", "payment.initialized", r)
      BY Apart, EventFacts DEF To, Delivery, StatusEvents
    <3>2. a.to = "workflow" /\ queue' = [queue EXCEPT ![s] = Append(q, a)]
      BY <2>0, <2>3, <2>5, <3>1 DEF CreatePublishInitialized, To
    <3> QED
      BY <1>3, <2>5, <3>2
  <2>4. CASE CreateAnnounce(r)
    <3>1. PICK a \in Delivery : a = To("projector", "payment.initialized", r)
      BY Apart, EventFacts DEF To, Delivery, StatusEvents
    <3>2. a.event.of = r /\ queue' = [queue EXCEPT ![s] = Append(q, a)] /\ step[r] = "announce"
      BY <2>0, <2>4, <2>5, <3>1 DEF CreateAnnounce, To
    <3> QED
      BY <1>3, <2>5, <3>2
  <2> QED
    BY <1>4, <2>1, <2>2, <2>3, <2>4 DEF CreateGoesOn
<1>5. ASSUME NEW c \in Credits, CreditSave(c) \/ CreditPublish(c) PROVE Stays(p)
  <2>1. CASE CreditSave(c)
    BY <1>1, <2>1 DEF CreditSave
  <2>2. CASE CreditPublish(c)
    <3>1. PICK s \in Shards : s = ShardOf[Owner[c]]
      BY Apart
    <3>2. PICK q \in Seq(Delivery) : q = queue[s]
      BY <1>0 DEF TypeOK
    <3>3. PICK n : n = Copies("wallet.credited", c)
      OBVIOUS
    <3>4. queue' = [queue EXCEPT ![s] = q \o n]
      BY <2>2, <3>1, <3>2, <3>3 DEF CreditPublish
    <3>5. "wallet.credited" \in (Handled \union Projected) \ {"payment.initialized"} /\ c \in Requests
      BY Apart DEF Projected, MovementEvents
    <3> QED
      BY <1>2, <3>2, <3>3, <3>4, <3>5
  <2> QED
    BY <1>5, <2>1, <2>2
<1>6. ASSUME NEW s \in Shards, Worker(s) \/ Recover(s) PROVE Stays(p)
  <2>1. PICK q \in Seq(Delivery) : q = queue[s]
    BY <1>0 DEF TypeOK
  <2>2. PICK e : e = Head(q).event
    OBVIOUS
  <2>3. ASSUME q # <<>>
        PROVE  /\ Tail(q) \in Seq(Delivery) /\ e \in Event /\ e.of \in Requests
               /\ \A d \in Elems(Tail(q)) : d \in Elems(q)
    <3>1. Tail(q) \in Seq(Delivery) /\ Head(q) \in Delivery /\ \A d \in Elems(Tail(q)) : d \in Elems(q)
      BY <2>3, TailFacts
    <3> QED
      BY <2>2, <3>1, KeyFacts DEF Delivery
  <2>4. ASSUME NEW name \in (Handled \union Projected) \ {"payment.initialized"}, q # <<>>,
               queue' = [queue EXCEPT ![s] = Tail(q) \o Copies(name, e.of)]
        PROVE  Stays(p)
    <3> DEFINE t1 == Tail(q)
    <3>1. /\ t1 \in Seq(Delivery) /\ e.of \in Requests /\ (\A d \in Elems(t1) : d \in Elems(q))
          /\ queue' = [queue EXCEPT ![s] = t1 \o Copies(name, e.of)]
      BY <2>3, <2>4
    <3> HIDE DEF t1
    <3> QED
      BY <1>2, <2>1, <3>1
  <2>5. ASSUME NEW outcome, HandleMoney(s, outcome) PROVE Stays(p)
    <3>1. /\ q # <<>> /\ outcome \in Outcomes(e.name)
          /\ queue' = [queue EXCEPT ![s] = Tail(q) \o Copies(outcome, e.of)]
      BY <2>1, <2>2, <2>5 DEF HandleMoney, Takes
    <3>2. outcome \in (Handled \union Projected) \ {"payment.initialized"}
      BY <3>1 DEF Outcomes, Handled, Projected, MovementEvents
    <3> QED
      BY <2>4, <3>1, <3>2
  <2>6. CASE Recover(s)
    <3>1. PICK name : name = IF table[e.of] = "pending" THEN "payment.charge_requested"
                                                        ELSE "wallet.debit_requested"
      OBVIOUS
    <3>2. q # <<>> /\ queue' = [queue EXCEPT ![s] = Tail(q) \o Copies(name, e.of)]
      BY <2>1, <2>2, <2>6, <3>1 DEF Recover, Takes
    <3>3. name \in (Handled \union Projected) \ {"payment.initialized"}
      BY <3>1 DEF Handled
    <3> QED
      BY <2>4, <3>2, <3>3
  <2>7. CASE MarkSave(s)
    BY <1>1, <2>7 DEF MarkSave
  <2>8. CASE MarkPublish(s)
    <3>1. /\ step[s] = "publish" /\ q # <<>> /\ e.name \in DOMAIN Marks
          /\ hand[s] = [name |-> Marks[e.name], of |-> e.of]
      BY <1>0, <2>1, <2>2, <2>8 DEF MarkPublish, WorkersMark
    <3>2. PICK mark : mark = Marks[e.name]
      OBVIOUS
    <3>3. hand[s].name = mark /\ mark \in (Handled \union Projected) \ {"payment.initialized"}
      <4>1. mark \in StatusEvents \ {"payment.initialized"}
        BY <3>1, <3>2, NameFacts DEF StatusEvents
      <4> QED
        BY <3>1, <3>2, <4>1, EventFacts
    <3>4. PICK c : c = Copies(mark, e.of)
      OBVIOUS
    <3>5. PICK f : f = FollowUps(e)
      OBVIOUS
    <3> DEFINE t1 == Tail(q)
    <3>6. queue' = [queue EXCEPT ![s] = t1 \o c \o f]
      BY <2>1, <2>2, <2>8, <3>3, <3>4, <3>5 DEF MarkPublish
    <3>7. t1 \in Seq(Delivery) /\ \A d \in Elems(t1) : d \in Elems(q)
      BY <2>3, <3>1
    <3> HIDE DEF t1
    <3>8. /\ t1 \o c \in Seq(Delivery)
          /\ \A d \in Elems(t1 \o c) : d \in Elems(t1) \/ d.to = "workflow" \/ d.event.name = mark
      BY <2>3, <3>1, <3>3, <3>4, <3>7, CopiesBehind
    <3>9. ASSUME NEW r \in Requests, e.of = r,
                 NEW x \in {"payment.charge_requested", "wallet.refund_requested"}, f = Copies(x, r)
          PROVE  /\ f \in Seq(Delivery)
                 /\ \A d \in Elems(f) : d.to = "workflow"
      <4>1. x \in Handled /\ x \notin Projected
        BY DEF Handled, Projected, StatusEvents, MovementEvents
      <4>2. \A d : d \in Elems(Copies(x, r)) => d = To("workflow", x, r)
        BY <4>1, CopiesFacts
      <4>3. Copies(x, r) \in Seq(Delivery)
        BY <4>1, CopiesFacts
      <4> QED
        BY <3>9, <4>2, <4>3 DEF To
    <3>10. f \in Seq(Delivery) /\ \A d \in Elems(f) : d.to = "workflow"
      <4>1. \/ \E x \in {"payment.charge_requested", "wallet.refund_requested"} : f = Copies(x, e.of)
            \/ f = <<>>
        BY <3>5 DEF FollowUps
      <4>2. e.of \in Requests
        BY <2>3, <3>1
      <4> QED
        BY <3>9, <4>1, <4>2, ShortFacts
    <3>11. \A d \in Elems(t1 \o c \o f) : d \in Elems(t1 \o c) \/ d \in Elems(f)
      BY <3>8, <3>10, ConcatFacts
    <3>12. Grows(s, q, t1 \o c \o f, p)
      BY <2>1, <3>3, <3>6, <3>7, <3>8, <3>10, <3>11 DEF Grows
    <3> QED
      BY <1>0, <3>12, GrowsStays
  <2>9. CASE ProjectStatus(s) \/ ProjectMovement(s)
    <3>1. q # <<>> /\ queue' = [queue EXCEPT ![s] = Tail(q)]
      BY <2>1, <2>9 DEF ProjectStatus, ProjectMovement, Takes
    <3>2. Grows(s, q, Tail(q), p)
      BY <2>1, <2>3, <3>1 DEF Grows
    <3> QED
      BY <1>0, <3>2, GrowsStays
  <2> QED
    BY <1>6, <2>5, <2>6, <2>7, <2>8, <2>9 DEF Worker
<1>7. ASSUME NEW t \in Threads, FinishAppend(t) PROVE Stays(p)
  BY <1>1, <1>7 DEF FinishAppend
<1>8. CASE Shutdown
  BY <1>1, <1>8 DEF Shutdown, readVars
<1>9. CASE Restart
  <2>1. queue'[ShardOf[p]] = <<>>
    BY <1>9, Apart DEF Restart
  <2> QED
    BY <2>1, ShortFacts, WaitingIs DEF Stays, Due
<1> QED
  BY <1>4, <1>5, <1>6, <1>7, <1>8, <1>9 DEF Next

\* What it means that the projector has been told of p's beginning.
LEMMA AnnouncedIs ==
  ASSUME NEW p \in Payments
  PROVE  /\ Announced(p) <=> http[p] \in {"accepted", "cut"} /\ ~Due("payment.initialized", p)
         /\ Announced(p)' <=> http'[p] \in {"accepted", "cut"} /\ ~Due("payment.initialized", p)'
<1>1. PICK e : e = [name |-> "payment.initialized", of |-> p]
  OBVIOUS
<1>2. KeyOf(e) = p
  BY <1>1 DEF KeyOf
<1>3. PICK d : d = [to |-> "projector", event |-> e]
  OBVIOUS
<1>4. d = To("projector", "payment.initialized", p)
  BY <1>1, <1>3 DEF To
<1>5. Queued(e) = {} <=> ~Due("payment.initialized", p)
  <2>1. PICK q : q = queue[ShardOf[p]]
    OBVIOUS
  <2>2. Queued(e) = {i \in DOMAIN q : q[i] = d}
    BY <1>2, <1>3, <2>1 DEF Queued
  <2>3. Due("payment.initialized", p) <=> d \in Elems(q)
    BY <1>4, <2>1, WaitingIs DEF Due
  <2> QED
    BY <2>2, <2>3 DEF Elems
<1>6. Queued(e)' = {} <=> ~Due("payment.initialized", p)'
  <2>1. PICK q : q = queue'[ShardOf[p]]
    OBVIOUS
  <2>2. Queued(e)' = {i \in DOMAIN q : q[i] = d}
    BY <1>2, <1>3, <2>1 DEF Queued, KeyOf
  <2>3. Due("payment.initialized", p)' <=> d \in Elems(q)
    BY <1>4, <2>1, WaitingIs DEF Due
  <2> QED
    BY <2>2, <2>3 DEF Elems
<1> QED
  BY <1>1, <1>5, <1>6 DEF Announced

LEMMA StaysAnnounced ==
  ASSUME ReadInv, Next, NEW p \in Payments, Announced(p)
  PROVE  Announced(p)'
<1>1. http[p] \in {"accepted", "cut"} /\ ~Due("payment.initialized", p)
  BY AnnouncedIs
<1>2. http'[p] \in {"accepted", "cut"}
  BY <1>1, Apart, RequestsGoOn
<1>3. step[p] # "announce"
  BY <1>1, Apart DEF ReadInv, RequestsOwn
<1>4. ~Due("payment.initialized", p)'
  BY <1>1, <1>3, OnlyCreateAnnounces DEF Stays
<1> QED
  BY <1>2, <1>4, AnnouncedIs

\* The answer, from the view or from the table.
Says(v, t) == IF v # "none" THEN v ELSE t

\* How an answer may go on.
Forward(a, b) == b = a \/ b \in Reads!Further(a)

ReadsOn(p) ==
  \/ Forward(Says(view[p], table[p]), Says(view'[p], table'[p]))
  \/ Says(view'[p], table'[p]) = "initialized" /\ ~Announced(p) /\ Announced(p)'
  \/ Says(view'[p], table'[p]) = "none" /\ http[p] # "accepted"

\* A Mark... handler changes the answer if the view has no entry yet.
LEMMA MarkSaveAnswers ==
  ASSUME ReadInv, NEW s \in Shards, MarkSave(s), NEW p \in Payments
  PROVE  Forward(Says(view[p], table[p]), Says(view'[p], table'[p]))
<1>1. PICK q \in Seq(Delivery) : q = queue[s]
  BY DEF ReadInv, TypeOK
<1>2. PICK e : e = Head(q).event
  OBVIOUS
<1>3. PICK r : r = e.of
  OBVIOUS
<1>4. /\ Takes(s, "workflow") /\ e.name \in DOMAIN Marks /\ view' = view
      /\ table' = [table EXCEPT ![r] = StatusOf[Marks[e.name]]]
  BY <1>1, <1>2, <1>3 DEF MarkSave
<1>5. r \in Payments /\ table[r] \in TableAt(e.name)
  BY <1>1, <1>2, <1>3, <1>4, WorkAhead
<1>6. StatusOf[Marks[e.name]] \in Reads!Further(table[r])
  BY <1>4, <1>5, NameFacts DEF TableAt, Reads!Further
<1>7. table'[p] = table[p] \/ table'[p] \in Reads!Further(table[p])
  BY <1>4, <1>5, <1>6 DEF ReadInv, TypeOK
<1> QED
  BY <1>4, <1>7 DEF Forward, Says

\* The projector sets a payment back only with payment.initialized.
LEMMA ProjectStatusAnswers ==
  ASSUME ReadInv, NEW s \in Shards, ProjectStatus(s), NEW p \in Payments
  PROVE  \/ Forward(Says(view[p], table[p]), Says(view'[p], table'[p]))
         \/ Says(view'[p], table'[p]) = "initialized" /\ ~Announced(p) /\ Announced(p)'
<1>1. PICK q \in Seq(Delivery) : q = queue[s]
  BY DEF ReadInv, TypeOK
<1>2. PICK name : name = Head(q).event.name
  OBVIOUS
<1>3. PICK r : r = Head(q).event.of
  OBVIOUS
<1>4. /\ Takes(s, "projector") /\ name \in StatusEvents /\ http' = http /\ table' = table
      /\ view' = [view EXCEPT ![r] = Apply(name, @)]
      /\ Took(s, q)
  BY <1>1, <1>2, <1>3 DEF ProjectStatus, Took
<1>5. CASE p # r
  <2>1. view'[p] = view[p]
    BY <1>4, <1>5 DEF ReadInv, TypeOK
  <2> QED
    BY <1>4, <2>1 DEF Forward
<1>6. CASE p = r
  <2>1. view'[p] = Apply(name, view[p])
    BY <1>4, <1>6 DEF ReadInv, TypeOK
  <2>2. /\ Head(q) \in About(p)
        /\ \A d : d \in Waiting(p) <=> d = Head(q) \/ d \in Waiting(p)'
        /\ \A d : d \in Waiting(p)' <=> d \in Elems(Tail(q))
        /\ InOrder(q, p)
    <3>1. Takes(s, "projector") /\ Took(s, q) /\ p = Head(q).event.of
      BY <1>3, <1>4, <1>6
    <3> QED
      BY <1>1, <3>1, ProjectorOwn
  <2>3. Head(q) = To("projector", name, p)
    <3>1. Head(q) \in Delivery /\ Head(q).event \in Event /\ Head(q).to = "projector"
      BY <1>1, <1>4, <2>2 DEF About, Delivery, Takes
    <3>2. Head(q).event = [name |-> name, of |-> p]
      BY <1>2, <1>3, <1>6, <3>1 DEF Event
    <3> QED
      BY <3>1, <3>2 DEF To, Delivery
  <2>4. Due(name, p)
    BY <2>2, <2>3 DEF Due
  <2>5. PaymentInv(p) /\ table[p] # "none"
    <3>1. Head(q) \in Waiting(p) \intersect About(p)
      BY <2>2
    <3> QED
      BY <3>1 DEF ReadInv, PaymentInv, CreateFirst
  <2>6. view[p] \in Behind(table[p])
    BY <2>5 DEF PaymentInv, ViewBehind
  <2>7. CASE name = "payment.created"
    <3>1. view[p] = "none" /\ table[p] = "initialized" /\ view'[p] = "initialized"
      BY <2>1, <2>4, <2>5, <2>7, NameFacts DEF PaymentInv, ViewBehind, Apply
    <3> QED
      BY <3>1 DEF Says, Forward
  <2>8. CASE name = "payment.initialized"
    <3>1. view'[p] = "initialized"
      BY <2>1, <2>8, NameFacts DEF Apply
    <3>2. http'[p] = "accepted"
      BY <1>4, <2>4, <2>5, <2>8 DEF PaymentInv, CreateFirst
    <3>3. q # <<>>
      BY <1>1, <1>4 DEF Takes
    <3>4. ~Due("payment.initialized", p)'
      BY <2>2, <2>3, <2>8, <3>3, TakeInOrder DEF Due
    <3>5. ~Announced(p) /\ Announced(p)'
      BY <2>4, <2>8, <3>2, <3>4, AnnouncedIs
    <3> QED
      BY <3>1, <3>5 DEF Says
  <2>9. CASE name = "payment.pending"
    <3>1. view[p] \in {"initialized", "pending"} /\ view'[p] = "pending"
      BY <2>1, <2>4, <2>5, <2>9, NameFacts DEF PaymentInv, ViewBehind, Apply
    <3> QED
      BY <3>1 DEF Says, Forward, Reads!Further
  <2>10. CASE name \in {"payment.rejected", "payment.completed", "payment.failed"}
    <3>1. table[p] = StatusOf[name] /\ view'[p] = StatusOf[name]
      BY <2>1, <2>4, <2>5, <2>10 DEF PaymentInv, ViewBehind, Apply
    <3>2. table[p] \in {"rejected", "succeeded", "failed"}
      BY <2>10, <3>1, NameFacts
    <3> QED
      BY <2>6, <3>1, <3>2 DEF Says, Forward, Behind, Reads!Further
  <2> QED
    BY <1>4, <2>7, <2>8, <2>9, <2>10 DEF StatusEvents
<1> QED
  BY <1>5, <1>6

\* After a crash the answer is what the file leaves.
LEMMA RestartAnswers ==
  ASSUME ReadInv, Restart, NEW p \in Payments \ unsaved
  PROVE  \/ Forward(Says(view[p], table[p]), Says(view'[p], table'[p]))
         \/ Says(view'[p], table'[p]) = "none" /\ http[p] # "accepted"
<1>1. PICK was : was = Written(p)
  OBVIOUS
<1>2. view'[p] = was /\ table'[p] = "none"
  BY <1>1 DEF Restart, Written
<1>3. Says(view'[p], table'[p]) = was
  BY <1>2 DEF Says
<1>4. PaymentInv(p) /\ TypeOK /\ RequestsOwn
  BY DEF ReadInv
<1>5. CASE table[p] = "none"
  <2>1. view[p] = was
    BY <1>1, <1>4, <1>5 DEF PaymentInv, CreateFirst
  <2> QED
    BY <1>3, <1>5, <2>1 DEF Says, Forward
<1>6. CASE table[p] # "none"
  <2>1. view[p] \in Behind(table[p]) /\ table[p] \in Statuses
    BY <1>4, <1>6 DEF PaymentInv, ViewBehind, TypeOK
  <2>2. CASE ~Writes(p, p) /\ ~Writes(ShardOf[p], p)
    <3>1. was = table[p]
      <4>1. lines[p] = streams[p]
        BY <1>4, <2>2 DEF PaymentInv, RecordsInOrder
      <4>2. Remembered(p) = table[p]
        BY <1>4, <1>6 DEF PaymentInv, RecordsInOrder
      <4> QED
        BY <1>1, <4>1, <4>2 DEF Remembered, Written
    <3> QED
      BY <1>3, <1>6, <2>1, <3>1 DEF Says, Forward, Behind, Reads!Further, Statuses
  <2>3. CASE Writes(p, p)
    <3>1. was = Earlier(hand[p].name)
      BY <1>1, <1>4, <2>3 DEF PaymentInv, RecordsInOrder
    <3>2. /\ step[p] = "file" /\ table[p] = "initialized" /\ http[p] = "running"
          /\ hand[p].name \in {"payment.created", "payment.initialized"}
      BY <1>4, <2>3, Apart DEF Writes, PaymentInv, CreateFirst, RequestsOwn
    <3>3. CASE hand[p].name = "payment.created"
      BY <1>3, <3>1, <3>2, <3>3 DEF Earlier
    <3>4. CASE hand[p].name = "payment.initialized"
      <4>1. was = "initialized" /\ Says(view[p], table[p]) = "initialized"
        BY <2>1, <3>1, <3>2, <3>4 DEF Earlier, Behind, Says
      <4> QED
        BY <1>3, <4>1 DEF Forward
    <3> QED
      BY <3>2, <3>3, <3>4
  <2>4. CASE Writes(ShardOf[p], p)
    <3>1. PICK mark : mark = hand[ShardOf[p]].name
      OBVIOUS
    <3>2. was = Earlier(mark)
      BY <1>1, <1>4, <2>4, <3>1 DEF PaymentInv, RecordsInOrder
    <3>3. Marking(p)
      BY <2>4, OneWriter
    <3>4. table[p] = StatusOf[mark] /\ view[p] # table[p]
      BY <1>4, <3>1, <3>3 DEF PaymentInv, TableInPosition
    <3>5. mark \in {"payment.pending", "payment.rejected", "payment.completed", "payment.failed"}
      <4>1. PICK e : e = Head(queue[ShardOf[p]]).event
        OBVIOUS
      <4>2. e.name \in DOMAIN Marks /\ hand[ShardOf[p]] = [name |-> Marks[e.name], of |-> e.of]
        BY <3>3, <4>1, Apart DEF ReadInv, WorkersMark, Marking
      <4>3. mark = Marks[e.name]
        BY <3>1, <4>2
      <4> QED
        BY <4>2, <4>3, NameFacts
    <3>6. table[p] # "initialized" /\ step[p] \in {"ready", "announce"}
      <4>1. PICK d \in Waiting(p) : d \in Workflow(p)
        BY <3>3, MarkingHead DEF ReadInv
      <4>2. step[p] \in {"ready", "announce"}
        BY <4>1, AtWork
      <4> QED
        BY <3>4, <3>5, <4>2, NameFacts
    <3>7. view[p] # "none"
      BY <1>4, <1>6, <3>6 DEF PaymentInv, ViewBehind
    <3>8. CASE mark \in {"payment.pending", "payment.rejected"}
      <4>1. was = "initialized" /\ table[p] \in {"pending", "rejected"}
        BY <3>2, <3>4, <3>8, NameFacts DEF Earlier
      <4>2. view[p] = "initialized"
        BY <2>1, <3>4, <3>7, <4>1 DEF Behind
      <4> QED
        BY <1>3, <4>1, <4>2 DEF Says, Forward
    <3>9. CASE mark \in {"payment.completed", "payment.failed"}
      <4>1. was = "pending" /\ table[p] \in {"succeeded", "failed"}
        BY <3>2, <3>4, <3>9, NameFacts DEF Earlier
      <4>2. view[p] \in {"initialized", "pending"}
        BY <2>1, <3>4, <3>7, <4>1 DEF Behind
      <4> QED
        BY <1>3, <4>1, <4>2 DEF Says, Forward, Reads!Further
    <3> QED
      BY <3>5, <3>8, <3>9
  <2> QED
    BY <2>2, <2>3, <2>4
<1> QED
  BY <1>5, <1>6

LEMMA EveryStepReadsOn ==
  ASSUME ReadInv, Next, NEW p \in Payments \ unsaved
  PROVE  ReadsOn(p)
<1>1. ASSUME table'[p] = table[p], view'[p] = view[p] PROVE ReadsOn(p)
  BY <1>1 DEF ReadsOn, Forward
<1>2. ASSUME NEW r \in Payments, CreateSave(r) \/ CreateGoesOn(r) PROVE ReadsOn(p)
  <2>1. CASE CreateSave(r) /\ r # p
    <3>1. table'[p] = table[p] /\ view'[p] = view[p]
      BY <2>1 DEF CreateSave, ReadInv, TypeOK
    <3> QED
      BY <1>1, <3>1
  <2>2. CASE CreateSave(r) /\ r = p
    <3>1. table[p] = "none" /\ view[p] = Written(p) /\ lines[p] = <<>>
      BY <2>2 DEF CreateSave, ReadInv, PaymentInv, CreateFirst
    <3>2. Written(p) = "none"
      BY <3>1, ReplayedNothing DEF Written
    <3>3. view[p] = "none" /\ view'[p] = "none" /\ table'[p] = "initialized"
      BY <2>2, <3>1, <3>2 DEF CreateSave, ReadInv, TypeOK
    <3> QED
      BY <3>1, <3>3 DEF ReadsOn, Forward, Says, Reads!Further
  <2>3. CASE CreateGoesOn(r)
    <3>1. table' = table /\ view' = view
      BY <2>3 DEF CreateGoesOn, CreatePublishCreated, CreatePublishInitialized, CreateAnnounce
    <3> QED
      BY <1>1, <3>1
  <2> QED
    BY <1>2, <2>1, <2>2, <2>3
<1>3. ASSUME NEW c \in Credits, CreditSave(c) \/ CreditPublish(c) PROVE ReadsOn(p)
  BY <1>1, <1>3 DEF CreditSave, CreditPublish
<1>4. ASSUME NEW s \in Shards, Worker(s) \/ Recover(s) PROVE ReadsOn(p)
  <2>1. ASSUME NEW outcome, HandleMoney(s, outcome) PROVE ReadsOn(p)
    BY <1>1, <2>1 DEF HandleMoney
  <2>2. CASE Recover(s) \/ MarkPublish(s) \/ ProjectMovement(s)
    BY <1>1, <2>2 DEF Recover, MarkPublish, ProjectMovement
  <2>3. CASE MarkSave(s)
    BY <2>3, MarkSaveAnswers DEF ReadsOn
  <2>4. CASE ProjectStatus(s)
    BY <2>4, ProjectStatusAnswers DEF ReadsOn
  <2> QED
    BY <1>4, <2>1, <2>2, <2>3, <2>4 DEF Worker
<1>5. ASSUME NEW t \in Threads, FinishAppend(t) PROVE ReadsOn(p)
  BY <1>1, <1>5 DEF FinishAppend
<1>6. CASE Shutdown
  BY <1>1, <1>6 DEF Shutdown, readVars
<1>7. CASE Restart
  BY <1>7, RestartAnswers DEF ReadsOn
<1> QED
  BY <1>2, <1>3, <1>4, <1>5, <1>6, <1>7 DEF Next

LEMMA UnsavedGrows ==
  ASSUME Next
  PROVE  unsaved \subseteq unsaved'
<1>1. ASSUME NEW p \in Payments, CreateSave(p) \/ CreateGoesOn(p) PROVE unsaved' = unsaved
  BY <1>1 DEF CreateSave, CreateGoesOn, CreatePublishCreated, CreatePublishInitialized, CreateAnnounce
<1>2. ASSUME NEW c \in Credits, CreditSave(c) \/ CreditPublish(c) PROVE unsaved' = unsaved
  BY <1>2 DEF CreditSave, CreditPublish
<1>3. ASSUME NEW s \in Shards, Worker(s) \/ Recover(s) PROVE unsaved' = unsaved
  BY <1>3 DEF Worker, Recover, HandleMoney, MarkSave, MarkPublish, ProjectStatus, ProjectMovement
<1>4. ASSUME NEW t \in Threads, FinishAppend(t) PROVE unsaved \subseteq unsaved'
  BY <1>4 DEF FinishAppend
<1>5. CASE Shutdown \/ Restart
  BY <1>5 DEF Shutdown, readVars, Restart
<1> QED
  BY <1>1, <1>2, <1>3, <1>4, <1>5 DEF Next

LEMMA StepImplementsReads ==
  ASSUME ReadInv, [Next]_vars
  PROVE  [Reads!ReadsNext]_(Reads!readsVars)
<1>1. CASE UNCHANGED vars
  <2>1. UNCHANGED <<http, queue, table, view, unsaved>>
    BY <1>1 DEF vars, readVars
  <2>2. Answer' = Answer
    BY <2>1 DEF Answer
  <2>3. {p \in Payments : Announced(p)}' = {p \in Payments : Announced(p)}
    BY <2>1 DEF Announced, Queued, KeyOf
  <2>4. {p \in Payments : http[p] = "accepted"}' = {p \in Payments : http[p] = "accepted"}
    BY <2>1
  <2> QED
    BY <2>1, <2>2, <2>3, <2>4 DEF Reads!readsVars
<1>2. CASE Next
  <2>1. {p \in Payments : Announced(p)} \subseteq {p \in Payments : Announced(p)}'
    BY <1>2, StaysAnnounced
  <2>2. {p \in Payments : http[p] = "accepted"} \subseteq {p \in Payments : http[p] = "accepted"}'
    BY <1>2, Apart, RequestsGoOn
  <2>3. unsaved \intersect Payments \subseteq (unsaved \intersect Payments)'
    BY <1>2, UnsavedGrows
  <2>4. ASSUME NEW p \in Payments \ (unsaved \intersect Payments)
        PROVE  Reads!GoesOn(p) \/ Reads!SetBackOnce(p) \/ Reads!ForgottenUnanswered(p)
    <3>1. ReadsOn(p)
      BY <1>2, EveryStepReadsOn
    <3>2. Answer[p] = Says(view[p], table[p]) /\ Answer'[p] = Says(view'[p], table'[p])
      BY DEF Answer, Says
    <3>3. CASE Forward(Says(view[p], table[p]), Says(view'[p], table'[p]))
      BY <3>2, <3>3 DEF Forward, Reads!GoesOn
    <3>4. CASE Says(view'[p], table'[p]) = "initialized" /\ ~Announced(p) /\ Announced(p)'
      BY <3>2, <3>4 DEF Reads!SetBackOnce
    <3>5. CASE Says(view'[p], table'[p]) = "none" /\ http[p] # "accepted"
      BY <3>2, <3>5 DEF Reads!ForgottenUnanswered
    <3> QED
      BY <3>1, <3>3, <3>4, <3>5 DEF ReadsOn
  <2> QED
    BY <2>1, <2>2, <2>3, <2>4 DEF Reads!ReadsNext
<1> QED
  BY <1>1, <1>2

\* Whatever crashes, whichever writes fail and however far the worker runs ahead of
\* Create and of the projector: what GET /payments/ answers, from the view or from
\* the table, goes forward as PaymentReads says.
THEOREM ReadsGoForward ==
  ASSUME Requests # {}
  PROVE  Spec => ImplementsReads
<1>1. Init => Reads!ReadsInit
  BY Apart DEF Init, Reads!ReadsInit, Answer, Announced
<1>2. ReadInv /\ [Next]_vars => [Reads!ReadsNext]_(Reads!readsVars)
  BY StepImplementsReads
<1> QED
  BY <1>1, <1>2, InStep, PTL DEF Spec, ImplementsReads, Reads!ReadsSpec

===============================================================================
