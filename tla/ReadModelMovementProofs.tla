------------------------ MODULE ReadModelMovementProofs ------------------------
(***************************************************************************)
(* Proofs about the movements in the wallet views of ReadModel: beside     *)
(* ReadInv, MovesInv is preserved by every step, so that every movement of *)
(* a wallet counts once.  For any number of payments, credits, shards,     *)
(* failed writes and restarts.  Then a lemma about the model's own         *)
(* Replayed, which states the last record in closed form where Replay goes *)
(* record by record; and that a failed write loses its own record and      *)
(* nothing else.                                                           *)
(***************************************************************************)
EXTENDS ReadModelProofs, WellFoundedInduction

\* The movements there are.
LEMMA MovementFacts ==
  /\ \A p \in Payments : Debited(p) \in Movement /\ Refunded(p) \in Movement
  /\ \A c \in Credits : Credited(c) \in Movement
  /\ \A m \in Movement :
       /\ m \in Event /\ m.name \in MovementEvents
       /\ \/ m.of \in Payments /\ m \in {Debited(m.of), Refunded(m.of)}
          \/ m.of \in Credits /\ m = Credited(m.of)
       /\ DeliveryOf(m) \in Delivery /\ DeliveryOf(m).to = "projector" /\ DeliveryOf(m).event = m
       /\ ShardOf[KeyOf(m)] \in Shards
<1>1. /\ \A p \in Payments : Debited(p) \in Movement /\ Refunded(p) \in Movement
      /\ \A c \in Credits : Credited(c) \in Movement
  BY DEF Movement, Debited, Refunded, Credited
<1>2. ASSUME NEW m \in Movement
      PROVE  /\ m.name \in MovementEvents
             /\ m = [name |-> m.name, of |-> m.of]
             /\ \/ m.of \in Payments /\ m \in {Debited(m.of), Refunded(m.of)}
                \/ m.of \in Credits /\ m = Credited(m.of)
  BY DEF Movement, MovementEvents, Debited, Refunded, Credited
<1>3. ASSUME NEW m \in Movement PROVE m \in Event
  <2>1. m.name \in Handled \union Projected /\ m.of \in Requests /\ m = [name |-> m.name, of |-> m.of]
    BY <1>2 DEF Projected, Requests
  <2> QED
    BY <2>1 DEF Event
<1>4. ASSUME NEW m \in Movement
      PROVE  DeliveryOf(m) \in Delivery /\ DeliveryOf(m).to = "projector" /\ DeliveryOf(m).event = m
  <2>1. DeliveryOf(m) = [to |-> "projector", event |-> m]
    BY <1>2 DEF DeliveryOf, To
  <2> QED
    BY <1>3, <2>1 DEF Delivery
<1> QED
  BY <1>1, <1>2, <1>3, <1>4, KeyFacts

\* A movement in terms of its queue.
LEMMA MovementIs ==
  ASSUME NEW m \in Movement, NEW d, d = DeliveryOf(m), NEW q
  PROVE  /\ q = queue[ShardOf[KeyOf(m)]] =>
              /\ Known(m) <=> moved[m] = 1 \/ d \in Elems(q)
              /\ MovementOnce(m) <=>
                   /\ Before(q, {d}, {d}) /\ moved[m] \in {0, 1}
                   /\ d \in Elems(q) => moved[m] = 0
         /\ q = queue'[ShardOf[KeyOf(m)]] =>
              /\ Known(m)' <=> moved'[m] = 1 \/ d \in Elems(q)
              /\ MovementOnce(m)' <=>
                   /\ Before(q, {d}, {d}) /\ moved'[m] \in {0, 1}
                   /\ d \in Elems(q) => moved'[m] = 0
<1>1. ASSUME q = queue[ShardOf[KeyOf(m)]]
      PROVE  /\ Known(m) <=> moved[m] = 1 \/ d \in Elems(q)
             /\ MovementOnce(m) <=>
                  /\ Before(q, {d}, {d}) /\ moved[m] \in {0, 1}
                  /\ d \in Elems(q) => moved[m] = 0
  BY <1>1 DEF Known, MovementOnce, Owed, MovementQueue
<1>2. ASSUME q = queue'[ShardOf[KeyOf(m)]]
      PROVE  /\ Known(m)' <=> moved'[m] = 1 \/ d \in Elems(q)
             /\ MovementOnce(m)' <=>
                  /\ Before(q, {d}, {d}) /\ moved'[m] \in {0, 1}
                  /\ d \in Elems(q) => moved'[m] = 0
  BY <1>2 DEF Known, MovementOnce, Owed, MovementQueue, DeliveryOf, To, KeyOf, Elems, Before
<1> QED
  BY <1>1, <1>2

\* Nothing about m changes.
MovementStays(m) == MovementOnce(m)' /\ (Known(m)' <=> Known(m))

LEMMA UnmovedStays ==
  ASSUME NEW m \in Movement, MovementOnce(m), queue' = queue, moved' = moved
  PROVE  MovementStays(m)
<1>1. PICK q : q = queue[ShardOf[KeyOf(m)]]
  OBVIOUS
<1> QED
  BY <1>1, MovementIs DEF MovementStays

\* What a step makes of a queue: it takes the head or not, and puts n behind.
Left(q, t) == t = q \/ (q # <<>> /\ t = Tail(q))

LEMMA LeftFacts ==
  ASSUME NEW q \in Seq(Delivery), NEW t, Left(q, t), NEW n \in Seq(Delivery)
  PROVE  /\ t \in Seq(Delivery)
         /\ \A d : d \in Elems(t) => d \in Elems(q)
         /\ \A d : d \in Elems(q) /\ (t = q \/ d # Head(q)) => d \in Elems(t)
         /\ \A d : d \in Elems(t \o n) <=> d \in Elems(t) \/ d \in Elems(n)
         /\ \A A, B : Before(q, A, B) => Before(t, A, B)
<1>1. CASE t = q
  BY <1>1, ConcatFacts
<1>2. CASE q # <<>> /\ t = Tail(q)
  <2>1. /\ Tail(q) \in Seq(Delivery)
        /\ \A d : d \in Elems(q) <=> d = Head(q) \/ d \in Elems(Tail(q))
    BY <1>2, TailFacts
  <2>2. \A A, B : Before(q, A, B) => Before(Tail(q), A, B)
    BY <1>2, BeforeTail
  <2>3. \A d : d \in Elems(Tail(q) \o n) <=> d \in Elems(Tail(q)) \/ d \in Elems(n)
    BY <2>1, ConcatFacts
  <2> QED
    BY <1>2, <2>1, <2>2, <2>3
<1> QED
  BY <1>1, <1>2 DEF Left

\* That is all that happens to the queues.
Turns(s, q, t, n) ==
  /\ s \in Shards /\ q = queue[s] /\ Left(q, t) /\ n \in Seq(Delivery)
  /\ queue' = [queue EXCEPT ![s] = t \o n]

\* A step that takes and puts other deliveries.
LEMMA OthersStay ==
  ASSUME TypeOK, NEW m \in Movement, MovementOnce(m), moved'[m] = moved[m],
         NEW s, NEW q, NEW t, NEW n, Turns(s, q, t, n),
         t = q \/ Head(q) # DeliveryOf(m), DeliveryOf(m) \notin Elems(n)
  PROVE  MovementStays(m)
<1> USE DEF Turns
<1>1. PICK d : d = DeliveryOf(m)
  OBVIOUS
<1>2. PICK k \in Shards : k = ShardOf[KeyOf(m)]
  BY MovementFacts
<1>3. q \in Seq(Delivery)
  BY DEF TypeOK
<1>4. CASE k = s
  <2>1. q = queue[ShardOf[KeyOf(m)]] /\ t \o n = queue'[ShardOf[KeyOf(m)]]
    BY <1>2, <1>4 DEF TypeOK
  <2>2. d \in Elems(t \o n) <=> d \in Elems(q)
    BY <1>1, <1>3, LeftFacts
  <2>3. Before(q, {d}, {d}) => Before(t \o n, {d}, {d})
    <3>1. d \notin Elems(n) /\ t \in Seq(Delivery) /\ (Before(q, {d}, {d}) => Before(t, {d}, {d}))
      BY <1>1, <1>3, LeftFacts
    <3>2. Before(n, {d}, {d})
      BY <3>1 DEF Before, Elems
    <3> QED
      BY <3>1, <3>2, BeforeConcat
  <2>4. PICK r : r = t \o n
    OBVIOUS
  <2> QED
    BY <1>1, <2>1, <2>2, <2>3, <2>4, MovementIs DEF MovementStays
<1>5. CASE k # s
  <2>1. PICK r : r = queue[ShardOf[KeyOf(m)]]
    OBVIOUS
  <2>2. r = queue'[ShardOf[KeyOf(m)]]
    BY <1>2, <1>5, <2>1 DEF TypeOK
  <2> QED
    BY <1>1, <2>1, <2>2, MovementIs DEF MovementStays
<1> QED
  BY <1>4, <1>5

\* The movement is published.
LEMMA MovementArrives ==
  ASSUME TypeOK, NEW m \in Movement, MovementOnce(m), ~Known(m), moved'[m] = moved[m],
         NEW s, NEW q, NEW t, NEW n, Turns(s, q, t, n), s = ShardOf[KeyOf(m)],
         DeliveryOf(m) \in Elems(n), Before(n, {DeliveryOf(m)}, {DeliveryOf(m)})
  PROVE  MovementOnce(m)' /\ Known(m)'
<1> USE DEF Turns
<1>1. PICK d : d = DeliveryOf(m)
  OBVIOUS
<1>2. q \in Seq(Delivery) /\ q = queue[ShardOf[KeyOf(m)]]
  BY DEF TypeOK
<1>3. PICK r : r = t \o n
  OBVIOUS
<1>4. r = queue'[ShardOf[KeyOf(m)]]
  BY <1>3 DEF TypeOK
<1>5. moved[m] = 0 /\ d \notin Elems(q) /\ Before(q, {d}, {d})
  BY <1>1, <1>2, MovementIs
<1>6. t \in Seq(Delivery) /\ Before(t, {d}, {d}) /\ d \notin Elems(t) /\ d \in Elems(r)
  BY <1>1, <1>2, <1>3, <1>5, LeftFacts
<1>7. Before(r, {d}, {d})
  BY <1>1, <1>3, <1>6, BeforeConcat
<1> QED
  BY <1>1, <1>4, <1>5, <1>6, <1>7, MovementIs

\* The movement is applied.
LEMMA MovementApplied ==
  ASSUME TypeOK, NEW m \in Movement, MovementOnce(m), moved'[m] = moved[m] + 1,
         NEW s \in Shards, s = ShardOf[KeyOf(m)], NEW q, q = queue[s], q # <<>>,
         queue' = [queue EXCEPT ![s] = Tail(q)], Head(q) = DeliveryOf(m)
  PROVE  MovementStays(m)
<1>1. PICK d : d = DeliveryOf(m)
  OBVIOUS
<1>2. q \in Seq(Delivery) /\ q = queue[ShardOf[KeyOf(m)]]
  BY DEF TypeOK
<1>3. PICK r : r = Tail(q)
  OBVIOUS
<1>4. r = queue'[ShardOf[KeyOf(m)]]
  BY <1>3 DEF TypeOK
<1>5. d \in Elems(q)
  BY <1>1, <1>2, TailFacts
<1>6. moved[m] = 0 /\ moved'[m] = 1 /\ Before(q, {d}, {d})
  BY <1>1, <1>2, <1>5, MovementIs
<1>7. Before(r, {d}, {d}) /\ d \notin Elems(r)
  BY <1>1, <1>2, <1>3, <1>6, BeforeTail
<1> QED
  BY <1>1, <1>2, <1>4, <1>5, <1>6, <1>7, MovementIs DEF MovementStays

\* A credit whose step it is not.
LEMMA CreditStays ==
  ASSUME NEW c \in Credits, CreditFollowed(c), MovementStays(Credited(c)),
         http'[c] = http[c], step'[c] = step[c], CreditLines(c)' = CreditLines(c),
         c \in unsaved' <=> c \in unsaved
  PROVE  CreditFollowed(c)'
<1>1. Known(Credited(c))' <=> Known(Credited(c))
  BY DEF MovementStays
<1> QED
  BY <1>1 DEF CreditFollowed

\* A payment's movements after a step.
LEMMA MoneyAfter ==
  ASSUME NEW p \in Payments, PaymentMovements(p),
         \A m \in {Debited(p), Refunded(p)} : Occurrences(lines'[p], m) = Occurrences(lines[p], m),
         Known(Debited(p))' <=>
           \/ table'[p] \in {"pending", "succeeded", "failed"}
           \/ To("workflow", "wallet.debited", p) \in Waiting(p)',
         Known(Refunded(p))' =>
           table'[p] = "failed" /\ ~Marking(p)' /\ Waiting(p)' \intersect Workflow(p) = {}
  PROVE  PaymentMovements(p)'
<1>1. (\A m \in {Debited(p), Refunded(p)} : Occurrences(lines[p], m) = 0)'
  <2>1. \A m \in {Debited(p), Refunded(p)} : Occurrences(lines'[p], m) = 0
    BY DEF PaymentMovements
  <2> QED
    BY <2>1 DEF Occurrences, Debited, Refunded
<1>2. (Known(Debited(p)) <=>
         \/ table[p] \in {"pending", "succeeded", "failed"}
         \/ To("workflow", "wallet.debited", p) \in Waiting(p))'
  BY DEF To
<1>3. (Known(Refunded(p)) =>
         table[p] = "failed" /\ ~Marking(p) /\ Waiting(p) \intersect Workflow(p) = {})'
  BY DEF Workflow
<1> QED
  BY <1>1, <1>2, <1>3 DEF PaymentMovements

\* A payment whose money does not move.
LEMMA MoneyStays ==
  ASSUME NEW p \in Payments, PaymentMovements(p),
         MovementStays(Debited(p)), MovementStays(Refunded(p)), table'[p] = table[p],
         \A m \in {Debited(p), Refunded(p)} : Occurrences(lines'[p], m) = Occurrences(lines[p], m),
         To("workflow", "wallet.debited", p) \in Waiting(p)' <=>
           To("workflow", "wallet.debited", p) \in Waiting(p),
         Known(Refunded(p)) => ~Marking(p)' /\ Waiting(p)' \intersect Workflow(p) = {}
  PROVE  PaymentMovements(p)'
<1>1. /\ Known(Debited(p))' <=> Known(Debited(p))
      /\ Known(Refunded(p))' <=> Known(Refunded(p))
  BY DEF MovementStays
<1>2. Known(Debited(p))' <=>
        \/ table'[p] \in {"pending", "succeeded", "failed"}
        \/ To("workflow", "wallet.debited", p) \in Waiting(p)'
  BY <1>1 DEF PaymentMovements
<1>3. Known(Refunded(p))' =>
        table'[p] = "failed" /\ ~Marking(p)' /\ Waiting(p)' \intersect Workflow(p) = {}
  BY <1>1 DEF PaymentMovements
<1> QED
  BY <1>2, <1>3, MoneyAfter

LEMMA SameLines ==
  ASSUME lines' = lines
  PROVE  /\ \A c \in Credits : CreditLines(c)' = CreditLines(c)
         /\ \A p \in Payments : \A m : Occurrences(lines'[p], m) = Occurrences(lines[p], m)
  BY DEF CreditLines, Occurrences, Credited

\* What a step makes of the queue of a payment, seen from there.
LEMMA WaitingAfter ==
  ASSUME TypeOK, NEW s, NEW q, NEW t, NEW n, Turns(s, q, t, n), NEW p \in Payments
  PROVE  /\ ShardOf[p] # s => \A d : d \in Waiting(p)' <=> d \in Waiting(p)
         /\ ShardOf[p] = s =>
              /\ \A d : d \in Waiting(p) <=> d \in Elems(q)
              /\ \A d : d \in Waiting(p)' <=> d \in Elems(t) \/ d \in Elems(n)
<1> USE DEF Turns
<1>1. PICK h : h = queue[ShardOf[p]]
  OBVIOUS
<1>2. PICK k : k = queue'[ShardOf[p]]
  OBVIOUS
<1>3. /\ ShardOf[p] = s => h = q /\ k = t \o n
      /\ ShardOf[p] # s => h = k
  BY <1>1, <1>2, Apart DEF TypeOK
<1>4. \A d : d \in Elems(t \o n) <=> d \in Elems(t) \/ d \in Elems(n)
  BY LeftFacts DEF TypeOK
<1>5. /\ \A d : d \in Waiting(p) <=> d \in Elems(h)
      /\ \A d : d \in Waiting(p)' <=> d \in Elems(k)
  BY <1>1, <1>2, WaitingIs
<1> QED
  BY <1>3, <1>4, <1>5

\* A step that takes and puts deliveries about r leaves the credits and the payments
\* of others alone.
LEMMA QueueMoves ==
  ASSUME TypeOK, MovesInv, NEW r \in Requests,
         NEW s, NEW q, NEW t, NEW n, Turns(s, q, t, n),
         t = q \/ (Head(q).event.of = r /\ \A m \in Movement : Head(q) # DeliveryOf(m)),
         \A d \in Elems(n) : d.event.of = r,
         moved' = moved, table' = table, lines' = lines, unsaved' = unsaved,
         \A x \in Requests : x # r => http'[x] = http[x],
         \A x \in Threads : x # r /\ x # s => step'[x] = step[x] /\ hand'[x] = hand[x],
         step'[s] = "ready" \/ (step'[s] = step[s] /\ hand'[s] = hand[s])
  PROVE  /\ \A m \in Movement : DeliveryOf(m) \notin Elems(n) => MovementStays(m)
         /\ \A c \in Credits : c # r => CreditFollowed(c)'
         /\ \A p \in Payments : p # r => PaymentMovements(p)'
<1>1. ASSUME NEW m \in Movement, DeliveryOf(m) \notin Elems(n) PROVE MovementStays(m)
  <2>1. MovementOnce(m) /\ moved'[m] = moved[m]
    BY DEF MovesInv
  <2> QED
    BY <1>1, <2>1, OthersStay
<1>2. \A m \in Movement : m.of # r => MovementStays(m)
  BY <1>1, MovementFacts
<1>3. ASSUME NEW c \in Credits, c # r PROVE CreditFollowed(c)'
  <2>1. MovementStays(Credited(c))
    BY <1>2, <1>3, MovementFacts DEF Credited
  <2>2. http'[c] = http[c] /\ step'[c] = step[c]
    BY <1>3, Apart DEF Turns
  <2> QED
    BY <2>1, <2>2, CreditStays, SameLines DEF MovesInv
<1>4. ASSUME NEW p \in Payments, p # r PROVE PaymentMovements(p)'
  <2>1. MovementStays(Debited(p)) /\ MovementStays(Refunded(p))
    BY <1>2, <1>4, MovementFacts DEF Debited, Refunded
  <2>2. \A d \in About(p) : d \in Waiting(p)' <=> d \in Waiting(p)
    <3>0. /\ ShardOf[p] # s => \A d : d \in Waiting(p)' <=> d \in Waiting(p)
          /\ ShardOf[p] = s =>
               /\ \A d : d \in Waiting(p) <=> d \in Elems(q)
               /\ \A d : d \in Waiting(p)' <=> d \in Elems(t) \/ d \in Elems(n)
      BY WaitingAfter
    <3>1. CASE ShardOf[p] # s
      BY <3>0, <3>1
    <3>2. CASE ShardOf[p] = s
      <4>1. /\ \A d : d \in Waiting(p) <=> d \in Elems(q)
            /\ \A d : d \in Waiting(p)' <=> d \in Elems(t) \/ d \in Elems(n)
        BY <3>0, <3>2
      <4>2. \A d \in About(p) : d \notin Elems(n) /\ (t = q \/ d # Head(q))
        BY <1>4 DEF About
      <4>3. \A d \in About(p) : d \in Elems(t) <=> d \in Elems(q)
        BY <4>2, LeftFacts DEF TypeOK, Turns
      <4> QED
        BY <4>1, <4>2, <4>3
    <3> QED
      BY <3>1, <3>2
  <2>3. Marking(p)' => Marking(p)
    BY <1>4, Apart DEF Marking
  <2>4. /\ To("workflow", "wallet.debited", p) \in About(p)
        /\ \A d \in Workflow(p) : d \in About(p)
    BY Apart DEF To, About, Workflow, Delivery, Event, Handled
  <2>5. Known(Refunded(p)) => ~Marking(p)' /\ Waiting(p)' \intersect Workflow(p) = {}
    BY <2>2, <2>3, <2>4 DEF MovesInv, PaymentMovements
  <2> QED
    BY <2>1, <2>2, <2>4, <2>5, MoneyStays, SameLines DEF MovesInv
<1> QED
  BY <1>1, <1>3, <1>4


-----------------------------------------------------------------------------
\* A step that leaves the queues and the file alone.
LEMMA QuietMoves ==
  ASSUME MovesInv, queue' = queue, moved' = moved, lines' = lines, unsaved' = unsaved
  PROVE  /\ \A m \in Movement : MovementStays(m)
         /\ \A c \in Credits :
              http'[c] = http[c] /\ step'[c] = step[c] => CreditFollowed(c)'
         /\ \A p \in Payments : \A d : d \in Waiting(p)' <=> d \in Waiting(p)
         /\ \A p \in Payments :
              table'[p] = table[p] /\ (Marking(p)' => Marking(p)) => PaymentMovements(p)'
<1>1. \A m \in Movement : MovementStays(m)
  BY UnmovedStays DEF MovesInv
<1>2. ASSUME NEW c \in Credits, http'[c] = http[c], step'[c] = step[c] PROVE CreditFollowed(c)'
  BY <1>1, <1>2, CreditStays, SameLines, MovementFacts DEF MovesInv
<1>3. \A p \in Payments : \A d : d \in Waiting(p)' <=> d \in Waiting(p)
  BY DEF Waiting, QueueOf, Elems
<1>4. ASSUME NEW p \in Payments, table'[p] = table[p], Marking(p)' => Marking(p)
      PROVE  PaymentMovements(p)'
  <2>1. MovementStays(Debited(p)) /\ MovementStays(Refunded(p))
    BY <1>1, MovementFacts
  <2>2. Known(Refunded(p)) => ~Marking(p)' /\ Waiting(p)' \intersect Workflow(p) = {}
    BY <1>3, <1>4 DEF MovesInv, PaymentMovements
  <2> QED
    BY <1>3, <1>4, <2>1, <2>2, MoneyStays, SameLines DEF MovesInv
<1> QED
  BY <1>1, <1>2, <1>3, <1>4

\* A payment that begins has no movement yet.
LEMMA CreateSaveMoves ==
  ASSUME ReadInv, MovesInv, NEW p \in Payments, CreateSave(p)
  PROVE  MovesInv'
<1>1. /\ http[p] = "start" /\ queue' = queue /\ moved' = moved /\ lines' = lines /\ unsaved' = unsaved
      /\ http' = [http EXCEPT ![p] = "running"] /\ step' = [step EXCEPT ![p] = "file"]
      /\ table' = [table EXCEPT ![p] = "initialized"]
      /\ \A t \in Threads : t # p => hand'[t] = hand[t]
  BY Apart DEF CreateSave, BeginAppend, AppendToMemory, ReadInv, TypeOK
<1>2. \A t \in Threads : t # p => step'[t] = step[t] /\ hand'[t] = hand[t]
  BY <1>1, Apart DEF ReadInv, TypeOK
<1>3. /\ \A c \in Credits : http'[c] = http[c] /\ step'[c] = step[c]
      /\ \A r \in Payments : r # p => table'[r] = table[r]
      /\ \A r \in Payments : Marking(r)' => Marking(r)
  BY <1>1, <1>2, Apart DEF ReadInv, TypeOK, Marking
<1>4. /\ \A m \in Movement : MovementStays(m)
      /\ \A c \in Credits : CreditFollowed(c)'
      /\ \A r \in Payments : \A d : d \in Waiting(r)' <=> d \in Waiting(r)
      /\ \A r \in Payments : r # p => PaymentMovements(r)'
  BY <1>1, <1>3, QuietMoves
<1>5. PaymentMovements(p)'
  <2>1. table[p] = "none" /\ table'[p] = "initialized" /\ Waiting(p) \intersect About(p) = {}
    BY <1>1 DEF ReadInv, TypeOK, PaymentInv, CreateFirst
  <2>2. To("workflow", "wallet.debited", p) \in About(p)
    BY Apart DEF To, About, Delivery, Event, Handled
  <2>3. ~Known(Debited(p)) /\ ~Known(Refunded(p))
    BY <2>1, <2>2 DEF MovesInv, PaymentMovements
  <2>4. ~Known(Debited(p))' /\ ~Known(Refunded(p))'
    BY <1>4, <2>3, MovementFacts DEF MovementStays
  <2>5. To("workflow", "wallet.debited", p) \notin Waiting(p)'
    BY <1>4, <2>1, <2>2
  <2> QED
    BY <1>1, <2>1, <2>4, <2>5, MoneyAfter, SameLines DEF MovesInv
<1> QED
  BY <1>4, <1>5 DEF MovesInv, MovementStays


-----------------------------------------------------------------------------
\* Create publishes the beginning of its payment.
LEMMA CreateMoves ==
  ASSUME ReadInv, MovesInv, NEW p \in Payments, NEW n \in Seq(Delivery),
         queue' = [queue EXCEPT ![ShardOf[p]] = @ \o n],
         \A d \in Elems(n) : /\ d.event.of = p
                             /\ d.event.name \in {"payment.created", "payment.initialized"}
                             /\ d.to = "workflow" => table[p] = "initialized",
         moved' = moved, table' = table, lines' = lines, unsaved' = unsaved,
         \A x \in Requests : x # p => http'[x] = http[x],
         \A x \in Threads : x # p => step'[x] = step[x] /\ hand'[x] = hand[x]
  PROVE  MovesInv'
<1>1. PICK s \in Shards : s = ShardOf[p]
  BY Apart
<1>2. PICK q \in Seq(Delivery) : q = queue[s]
  BY DEF ReadInv, TypeOK
<1>3. TypeOK /\ Turns(s, q, q, n)
  BY <1>1, <1>2 DEF Turns, Left, ReadInv
<1>4. p \in Requests /\ step'[s] = step[s] /\ hand'[s] = hand[s]
  BY Apart
<1>5. \A d \in Elems(n) : d.event.of = p
  OBVIOUS
<1>6. /\ \A m \in Movement : DeliveryOf(m) \notin Elems(n) => MovementStays(m)
      /\ \A c \in Credits : c # p => CreditFollowed(c)'
      /\ \A r \in Payments : r # p => PaymentMovements(r)'
  BY <1>3, <1>4, <1>5, QueueMoves
<1>7. \A m \in Movement : MovementStays(m)
  BY <1>6, MovementFacts DEF MovementEvents
<1>8. PaymentMovements(p)'
  <2>1. /\ \A d : d \in Waiting(p) <=> d \in Elems(q)
        /\ \A d : d \in Waiting(p)' <=> d \in Elems(q) \/ d \in Elems(n)
    BY <1>1, <1>3, WaitingAfter
  <2>2. To("workflow", "wallet.debited", p) \notin Elems(n)
    BY DEF To
  <2>3. Marking(p)' <=> Marking(p)
    BY <1>1, <1>4 DEF Marking
  <2>4. Known(Refunded(p)) => ~Marking(p)' /\ Waiting(p)' \intersect Workflow(p) = {}
    BY <2>1, <2>3 DEF MovesInv, PaymentMovements, Workflow
  <2> QED
    BY <1>7, <2>1, <2>2, <2>4, MoneyStays, MovementFacts, SameLines DEF MovesInv
<1> QED
  BY <1>6, <1>7, <1>8, Apart DEF MovesInv, MovementStays

LEMMA CreateGoesOnMoves ==
  ASSUME ReadInv, MovesInv, NEW p \in Payments, CreateGoesOn(p)
  PROVE  MovesInv'
<1>1. p \in Requests /\ p \in Threads /\ ShardOf[p] \in Shards /\ TypeOK
  BY Apart DEF ReadInv
<1>2. /\ moved' = moved /\ table' = table /\ lines' = lines /\ unsaved' = unsaved
      /\ \A x \in Requests : x # p => http'[x] = http[x]
      /\ \A x \in Threads : x # p => step'[x] = step[x] /\ hand'[x] = hand[x]
  BY <1>1 DEF CreateGoesOn, CreatePublishCreated, CreatePublishInitialized, CreateAnnounce,
              BeginAppend, AppendToMemory, PutDown, storeVars, TypeOK
<1>3. ASSUME NEW n \in Seq(Delivery), queue' = [queue EXCEPT ![ShardOf[p]] = @ \o n],
             NEW name \in {"payment.created", "payment.initialized"},
             NEW to \in {"workflow", "projector"},
             to = "workflow" => table[p] = "initialized",
             \A d : d \in Elems(n) <=> d = To(to, name, p)
      PROVE  MovesInv'
  <2>1. \A d \in Elems(n) : /\ d.event.of = p
                            /\ d.event.name \in {"payment.created", "payment.initialized"}
                            /\ d.to = "workflow" => table[p] = "initialized"
    BY <1>3 DEF To
  <2> QED
    BY <1>2, <1>3, <2>1, CreateMoves
<1>4. \A to \in {"workflow", "projector"}, name \in {"payment.created", "payment.initialized"} :
        To(to, name, p) \in Delivery
  BY <1>1, EventFacts DEF To, Delivery, StatusEvents
<1>5. CASE CreatePublishCreated(p)
  <2>1. PICK n : n = Copies("payment.created", p)
    OBVIOUS
  <2>2. n \in Seq(Delivery) /\ \A d : d \in Elems(n) <=> d = To("projector", "payment.created", p)
    <3>1. "payment.created" \in Projected /\ "payment.created" \notin Handled
      BY DEF Projected, StatusEvents, Handled
    <3> QED
      BY <1>1, <2>1, <3>1, CopiesFacts
  <2>3. queue' = [queue EXCEPT ![ShardOf[p]] = @ \o n]
    BY <1>5, <2>1 DEF CreatePublishCreated
  <2> QED
    BY <1>3, <2>2, <2>3
<1>6. ASSUME NEW to \in {"workflow", "projector"}, to = "workflow" => table[p] = "initialized",
             queue' = [queue EXCEPT ![ShardOf[p]] = Append(@, To(to, "payment.initialized", p))]
      PROVE  MovesInv'
  <2>1. PICK a \in Delivery : a = To(to, "payment.initialized", p)
    BY <1>4
  <2>2. PICK n : n = <<a>>
    OBVIOUS
  <2>3. n \in Seq(Delivery) /\ \A d : d \in Elems(n) <=> d = a
    BY <2>2, OneDelivery
  <2>4. queue[ShardOf[p]] \in Seq(Delivery)
    BY <1>1 DEF TypeOK
  <2>5. queue' = [queue EXCEPT ![ShardOf[p]] = @ \o n]
    BY <1>6, <2>1, <2>2, <2>4, OneDelivery
  <2> QED
    BY <1>3, <1>6, <2>1, <2>3, <2>5
<1>7. CASE CreatePublishInitialized(p)
  <2>1. table[p] = "initialized"
    BY <1>7 DEF CreatePublishInitialized, AtPublish, ReadInv, PaymentInv, CreateFirst
  <2> QED
    BY <1>6, <1>7, <2>1 DEF CreatePublishInitialized
<1>8. CASE CreateAnnounce(p)
  BY <1>6, <1>8 DEF CreateAnnounce
<1> QED
  BY <1>5, <1>7, <1>8 DEF CreateGoesOn

-----------------------------------------------------------------------------
LEMMA CreditSaveMoves ==
  ASSUME ReadInv, MovesInv, NEW c \in Credits, CreditSave(c)
  PROVE  MovesInv'
<1>1. /\ http[c] = "start" /\ queue' = queue /\ moved' = moved /\ lines' = lines
      /\ unsaved' = unsaved /\ table' = table
      /\ http' = [http EXCEPT ![c] = "running"] /\ step' = [step EXCEPT ![c] = "file"]
      /\ \A t \in Threads : t # c => hand'[t] = hand[t]
  BY Apart DEF CreditSave, BeginAppend, AppendToMemory, ReadInv, TypeOK
<1>2. /\ \A x \in Credits : x # c => http'[x] = http[x] /\ step'[x] = step[x]
      /\ \A p \in Payments : Marking(p)' => Marking(p)
      /\ http'[c] = "running" /\ step'[c] = "file"
  BY <1>1, Apart DEF ReadInv, TypeOK, Marking
<1>3. /\ \A m \in Movement : MovementStays(m)
      /\ \A x \in Credits : x # c => CreditFollowed(x)'
      /\ \A p \in Payments : PaymentMovements(p)'
  BY <1>1, <1>2, QuietMoves
<1>4. CreditFollowed(c)'
  <2>1. CreditLines(c) = 0 /\ ~Known(Credited(c))
    BY <1>1 DEF MovesInv, CreditFollowed
  <2>2. CreditLines(c)' = 0 /\ ~Known(Credited(c))'
    BY <1>1, <1>3, <2>1, MovementFacts, SameLines DEF MovementStays
  <2> QED
    BY <1>2, <2>2 DEF CreditFollowed
<1> QED
  BY <1>3, <1>4 DEF MovesInv, MovementStays

\* An accepted credit is on its way to its view.
LEMMA CreditPublishMoves ==
  ASSUME ReadInv, MovesInv, NEW c \in Credits, CreditPublish(c)
  PROVE  MovesInv'
<1>1. PICK m \in Movement : m = Credited(c)
  BY MovementFacts
<1>2. PICK s \in Shards : s = ShardOf[Owner[c]]
  BY Apart
<1>3. s = ShardOf[KeyOf(m)] /\ c \in Requests /\ c \in Threads /\ TypeOK
  BY <1>1, <1>2, Apart DEF KeyOf, Credited, ReadInv
<1>4. PICK n : n = Copies("wallet.credited", c)
  OBVIOUS
<1>5. n \in Seq(Delivery) /\ \A d : d \in Elems(n) <=> d = DeliveryOf(m)
  <2>1. "wallet.credited" \in Projected /\ "wallet.credited" \notin Handled
    BY DEF Projected, MovementEvents, Handled
  <2>2. DeliveryOf(m) = To("projector", "wallet.credited", c)
    BY <1>1 DEF DeliveryOf, Credited
  <2> QED
    BY <1>3, <1>4, <2>1, <2>2, CopiesFacts
<1>6. Before(n, {DeliveryOf(m)}, {DeliveryOf(m)})
  <2>1. "wallet.credited" \in Handled \union Projected
    BY DEF Projected, MovementEvents
  <2>2. Before(n, DeliveredTo("projector"), DeliveredTo("projector"))
    BY <1>3, <1>4, <2>1, CopiesFacts
  <2>3. DeliveryOf(m) \in DeliveredTo("projector")
    BY MovementFacts DEF DeliveredTo
  <2> QED
    BY <2>2, <2>3 DEF Before
<1>7. PICK q \in Seq(Delivery) : q = queue[s]
  BY <1>3 DEF TypeOK
<1>8. /\ AtPublish(c, "wallet.credited") /\ queue' = [queue EXCEPT ![s] = q \o n]
      /\ http' = [http EXCEPT ![c] = "accepted"] /\ step' = [step EXCEPT ![c] = "ready"]
      /\ \A x \in Threads : x # c => hand'[x] = hand[x]
      /\ table' = table /\ moved' = moved /\ lines' = lines /\ unsaved' = unsaved
  BY <1>2, <1>3, <1>4, <1>7 DEF CreditPublish, PutDown, storeVars, TypeOK
<1>9. Turns(s, q, q, n)
  BY <1>5, <1>7, <1>8 DEF Turns, Left
<1>10. /\ \A x \in Requests : x # c => http'[x] = http[x]
       /\ \A x \in Threads : x # c => step'[x] = step[x] /\ hand'[x] = hand[x]
       /\ http'[c] = "accepted" /\ step'[c] = "ready"
       /\ step'[s] = step[s] /\ hand'[s] = hand[s]
  BY <1>3, <1>8, Apart DEF TypeOK
<1>11. \A d \in Elems(n) : d.event.of = c
  BY <1>1, <1>5, MovementFacts DEF Credited
<1>12. /\ \A x \in Movement : DeliveryOf(x) \notin Elems(n) => MovementStays(x)
       /\ \A x \in Credits : x # c => CreditFollowed(x)'
       /\ \A p \in Payments : p # c => PaymentMovements(p)'
  BY <1>3, <1>8, <1>9, <1>10, <1>11, QueueMoves
<1>13. http[c] = "running" /\ step[c] = "publish"
  BY <1>3, <1>8 DEF AtPublish, ReadInv, RequestsOwn
<1>14. MovementOnce(m)' /\ Known(m)'
  <2>1. MovementOnce(m) /\ ~Known(m)
    BY <1>1, <1>13 DEF MovesInv, CreditFollowed
  <2> QED
    BY <1>3, <1>5, <1>6, <1>8, <1>9, <2>1, MovementArrives
<1>15. CreditFollowed(c)'
  <2>1. /\ CreditLines(c)' = CreditLines(c) /\ CreditLines(c) \in {0, 1}
        /\ c \notin unsaved => CreditLines(c) = 1
    BY <1>8, <1>13, SameLines DEF MovesInv, CreditFollowed
  <2>2. Known(Credited(c))'
    BY <1>1, <1>14
  <2> QED
    BY <1>8, <1>10, <2>1, <2>2 DEF CreditFollowed
<1>16. ASSUME NEW x \in Movement PROVE MovementOnce(x)'
  <2>1. CASE x = m
    BY <1>14, <2>1
  <2>2. CASE x # m
    <3>1. DeliveryOf(x) \notin Elems(n)
      BY <1>5, <2>2, MovementFacts
    <3> QED
      BY <1>12, <3>1 DEF MovementStays
  <2> QED
    BY <2>1, <2>2
<1> QED
  BY <1>12, <1>15, <1>16, Apart DEF MovesInv


-----------------------------------------------------------------------------
\* The worker of s has the delivery at the head of q in hand, one of p for the workflow.
Handles(s, q, p) ==
  /\ s \in Shards /\ q \in Seq(Delivery) /\ q = queue[s] /\ q # <<>>
  /\ p \in Payments /\ p = Head(q).event.of /\ Head(q).to = "workflow"

\* No other one waits for the workflow then, and no refund of p is known.
LEMMA AtHead ==
  ASSUME ReadInv, MovesInv, NEW s, NEW q, NEW p, Handles(s, q, p)
  PROVE  /\ ShardOf[p] = s /\ Head(q) \in Workflow(p) /\ Head(q) \in Waiting(p)
         /\ \A d \in Workflow(p) : d \in Waiting(p) <=> d = Head(q)
         /\ \A d \in Workflow(p) : d \notin Elems(Tail(q))
         /\ ~Known(Refunded(p))
         /\ \A m \in Movement : Head(q) # DeliveryOf(m)
<1> USE DEF Handles
<1>1. TypeOK /\ Ordered(p) /\ PaymentMovements(p)
  BY DEF ReadInv, PaymentInv, MovesInv
<1>2. /\ Head(q) \in Delivery /\ Head(q) \in Elems(q)
      /\ \A d : d \in Elems(q) <=> d = Head(q) \/ d \in Elems(Tail(q))
  BY TailFacts
<1>3. Head(q).event \in Event /\ AtHome(Head(q), s)
  BY <1>2 DEF ReadInv, Home, Delivery
<1>4. ShardOf[p] = s /\ Head(q) \in Workflow(p)
  BY <1>2, <1>3, KeyFacts DEF AtHome, Workflow
<1>5. \A d : d \in Waiting(p) <=> d \in Elems(q)
  BY <1>4, WaitingIs
<1>6. \A d \in Elems(Tail(q)) : d \notin Workflow(p)
  <2>1. InOrder(q, p)
    BY <1>1, <1>4, WaitingIs
  <2> QED
    BY <1>4, <2>1, TakeInOrder
<1>7. ~Known(Refunded(p))
  BY <1>1, <1>2, <1>4, <1>5 DEF PaymentMovements
<1> QED
  BY <1>2, <1>4, <1>5, <1>6, <1>7, MovementFacts

\* When it is taken, what the handler publishes waits.
LEMMA AtHand ==
  ASSUME ReadInv, MovesInv, NEW s, NEW q, NEW p, Handles(s, q, p),
         NEW n, Turns(s, q, Tail(q), n)
  PROVE  /\ ShardOf[p] = s /\ Head(q) \in Workflow(p) /\ Head(q) \in Waiting(p)
         /\ \A d \in Workflow(p) : d \in Waiting(p) <=> d = Head(q)
         /\ \A d \in Workflow(p) : d \in Waiting(p)' <=> d \in Elems(n)
         /\ ~Known(Refunded(p))
         /\ \A m \in Movement : Head(q) # DeliveryOf(m)
<1>1. /\ ShardOf[p] = s /\ Head(q) \in Workflow(p) /\ Head(q) \in Waiting(p)
      /\ \A d \in Workflow(p) : d \in Waiting(p) <=> d = Head(q)
      /\ \A d \in Workflow(p) : d \notin Elems(Tail(q))
      /\ ~Known(Refunded(p))
      /\ \A m \in Movement : Head(q) # DeliveryOf(m)
  BY AtHead
<1>2. TypeOK /\ p \in Payments
  BY DEF ReadInv, Handles
<1>3. \A d : d \in Waiting(p)' <=> d \in Elems(Tail(q)) \/ d \in Elems(n)
  BY <1>1, <1>2, WaitingAfter
<1> QED
  BY <1>1, <1>3

\* A money handler publishes.
LEMMA MoneyMoves ==
  ASSUME ReadInv, MovesInv, NEW s \in Shards, NEW q \in Seq(Delivery), q = queue[s],
         Takes(s, "workflow"), NEW p \in Payments, p = Head(q).event.of,
         Head(q).event.name # "wallet.debited",
         NEW name \in Handled \union Projected, name # "wallet.credited",
         name = "wallet.debited" => table[p] = "initialized",
         name = "wallet.refunded" => table[p] = "failed",
         NEW n, n = Copies(name, p), queue' = [queue EXCEPT ![s] = Tail(q) \o n],
         moved' = moved, table' = table, lines' = lines, unsaved' = unsaved,
         http' = http, step' = step, hand' = hand
  PROVE  MovesInv'
<1>1. /\ n \in Seq(Delivery) /\ p \in Requests
      /\ \A d : d \in Elems(n) <=> \/ d = To("workflow", name, p) /\ name \in Handled
                                   \/ d = To("projector", name, p) /\ name \in Projected
      /\ Before(n, DeliveredTo("projector"), DeliveredTo("projector"))
  BY CopiesFacts, Apart
<1>2. q # <<>> /\ Head(q).to = "workflow" /\ step[s] = "ready" /\ TypeOK
  BY DEF Takes, ReadInv
<1>3. Turns(s, q, Tail(q), n) /\ Left(q, Tail(q))
  BY <1>1, <1>2 DEF Turns, Left
<1>0. Handles(s, q, p)
  BY <1>2 DEF Handles
<1>4. /\ ShardOf[p] = s /\ Head(q) \in Workflow(p) /\ Head(q) \in Waiting(p)
      /\ \A d \in Workflow(p) : d \in Waiting(p) <=> d = Head(q)
      /\ \A d \in Workflow(p) : d \in Waiting(p)' <=> d \in Elems(n)
      /\ ~Known(Refunded(p))
      /\ \A m \in Movement : Head(q) # DeliveryOf(m)
  BY <1>0, <1>3, AtHand
<1>5. \A d \in Elems(n) : d.event.of = p /\ d.event.name = name
  BY <1>1 DEF To
<1>6. /\ \A m \in Movement : DeliveryOf(m) \notin Elems(n) => MovementStays(m)
      /\ \A c \in Credits : c # p => CreditFollowed(c)'
      /\ \A r \in Payments : r # p => PaymentMovements(r)'
  BY <1>1, <1>2, <1>3, <1>4, <1>5, QueueMoves
<1>7. \A m \in Movement : DeliveryOf(m) \in Elems(n) <=> m.of = p /\ m.name = name
  <2>1. \A m \in Movement : DeliveryOf(m) = To("projector", m.name, m.of)
    BY DEF DeliveryOf
  <2>2. \A m \in Movement : m.name \in Projected
    BY MovementFacts DEF Projected
  <2> QED
    BY <1>1, <1>5, <2>1, <2>2, MovementFacts
<1>8. ~Marking(p)' /\ ShardOf[KeyOf(Debited(p))] = s /\ ShardOf[KeyOf(Refunded(p))] = s
  BY <1>2, <1>4 DEF Marking, KeyOf, Debited, Refunded
<1>9. PICK w : w = To("workflow", "wallet.debited", p)
  OBVIOUS
<1>10. w \in Workflow(p) /\ w \notin Waiting(p) /\ (w \in Waiting(p)' <=> name = "wallet.debited")
  <2>1. w \in Workflow(p) /\ w.event.name = "wallet.debited"
    BY <1>1, <1>9 DEF To, Workflow, Delivery, Event, Handled
  <2>2. w \in Elems(n) <=> name = "wallet.debited"
    BY <1>1, <1>5, <1>9, <2>1 DEF Handled
  <2> QED
    BY <1>4, <2>1, <2>2
<1>11. Waiting(p)' \intersect Workflow(p) # {} => name \in Handled
  <2>1. \A d \in Elems(n) : d.to = "workflow" => name \in Handled
    BY <1>1 DEF To
  <2> QED
    BY <1>4, <2>1 DEF Workflow
<1>12. \A m \in Movement : m.of = p /\ m.name = name /\ ~Known(m) /\ ShardOf[KeyOf(m)] = s =>
         MovementOnce(m)' /\ Known(m)'
  <2> SUFFICES ASSUME NEW m \in Movement, m.of = p, m.name = name, ~Known(m), ShardOf[KeyOf(m)] = s
      PROVE  MovementOnce(m)' /\ Known(m)'
    OBVIOUS
  <2>1. DeliveryOf(m) \in Elems(n) /\ DeliveryOf(m) \in DeliveredTo("projector")
    BY <1>7, MovementFacts DEF DeliveredTo
  <2>2. Before(n, {DeliveryOf(m)}, {DeliveryOf(m)})
    BY <1>1, <2>1 DEF Before
  <2> QED
    BY <1>2, <1>3, <2>1, <2>2, MovementArrives DEF MovesInv
<1>13. PaymentMovements(p) /\ Debited(p) \in Movement /\ Refunded(p) \in Movement
  BY MovementFacts DEF MovesInv
<1>14. CASE name = "wallet.debited"
  <2>1. ~Known(Debited(p))
    BY <1>9, <1>10, <1>13, <1>14 DEF PaymentMovements
  <2>2. MovementOnce(Debited(p))' /\ Known(Debited(p))'
    BY <1>8, <1>12, <1>13, <1>14, <2>1 DEF Debited
  <2>3. \A m \in Movement : m # Debited(p) => MovementStays(m)
    <3>1. \A m \in Movement : m # Debited(p) => ~(m.of = p /\ m.name = name)
      BY <1>14, MovementFacts, Apart DEF Debited, Refunded
    <3> QED
      BY <1>6, <1>7, <3>1
  <2>4. ~Known(Refunded(p))'
    BY <1>4, <1>13, <2>3 DEF MovementStays, Debited, Refunded
  <2>5. PaymentMovements(p)'
    BY <1>9, <1>10, <1>13, <1>14, <2>2, <2>4, MoneyAfter, SameLines
  <2> QED
    BY <1>6, <2>2, <2>3, <2>5, Apart DEF MovesInv, MovementStays
<1>15. CASE name = "wallet.refunded"
  <2>1. MovementOnce(Refunded(p))' /\ Known(Refunded(p))'
    BY <1>4, <1>8, <1>12, <1>13, <1>15 DEF Refunded
  <2>2. \A m \in Movement : m # Refunded(p) => MovementStays(m)
    <3>1. \A m \in Movement : m # Refunded(p) => ~(m.of = p /\ m.name = name)
      BY <1>15, MovementFacts, Apart DEF Debited, Refunded
    <3> QED
      BY <1>6, <1>7, <3>1
  <2>3. Known(Debited(p))' <=> Known(Debited(p))
    BY <1>13, <2>2 DEF MovementStays, Debited, Refunded
  <2>4. Waiting(p)' \intersect Workflow(p) = {}
    BY <1>11, <1>15 DEF Handled
  <2>5. PaymentMovements(p)'
    <3>1. Known(Debited(p))' <=>
            \/ table'[p] \in {"pending", "succeeded", "failed"}
            \/ To("workflow", "wallet.debited", p) \in Waiting(p)'
      BY <1>13, <1>15, <2>3 DEF PaymentMovements
    <3> QED
      BY <1>8, <1>13, <1>15, <2>4, <3>1, MoneyAfter, SameLines
  <2> QED
    BY <1>6, <2>1, <2>2, <2>5, Apart DEF MovesInv, MovementStays
<1>16. CASE name \notin {"wallet.debited", "wallet.refunded"}
  <2>1. \A m \in Movement : MovementStays(m)
    <3>1. \A m \in Movement : ~(m.of = p /\ m.name = name)
      BY <1>16, MovementFacts DEF MovementEvents
    <3> QED
      BY <1>6, <1>7, <3>1
  <2>2. PaymentMovements(p)'
    BY <1>4, <1>9, <1>10, <1>13, <1>16, <2>1, MoneyStays, SameLines
  <2> QED
    BY <1>6, <2>1, <2>2, Apart DEF MovesInv, MovementStays
<1> QED
  BY <1>14, <1>15, <1>16

LEMMA HandleMoneyMoves ==
  ASSUME ReadInv, MovesInv, NEW s \in Shards, NEW outcome, HandleMoney(s, outcome)
  PROVE  MovesInv'
<1>1. PICK q \in Seq(Delivery) : q = queue[s]
  BY DEF ReadInv, TypeOK
<1>2. PICK p : p = Head(q).event.of
  OBVIOUS
<1>3. PICK n : n = Copies(outcome, p)
  OBVIOUS
<1>4. /\ Takes(s, "workflow") /\ outcome \in Outcomes(Head(q).event.name)
      /\ queue' = [queue EXCEPT ![s] = Tail(q) \o n]
      /\ moved' = moved /\ table' = table /\ lines' = lines /\ unsaved' = unsaved
      /\ http' = http /\ step' = step /\ hand' = hand
  BY <1>1, <1>2, <1>3 DEF HandleMoney, storeVars
<1>5. p \in Payments /\ table[p] \in TableAt(Head(q).event.name)
  BY <1>1, <1>2, <1>4, WorkAhead
<1>6. /\ Head(q).event.name # "wallet.debited"
      /\ outcome \in Handled \union Projected /\ outcome # "wallet.credited"
      /\ outcome = "wallet.debited" => table[p] = "initialized"
      /\ outcome = "wallet.refunded" => table[p] = "failed"
  BY <1>4, <1>5 DEF Outcomes, TableAt, Handled, Projected, MovementEvents
<1> QED
  BY <1>1, <1>2, <1>3, <1>4, <1>5, <1>6, MoneyMoves

LEMMA RecoverMoves ==
  ASSUME ReadInv, MovesInv, NEW s \in Shards, Recover(s)
  PROVE  MovesInv'
<1>1. PICK q \in Seq(Delivery) : q = queue[s]
  BY DEF ReadInv, TypeOK
<1>2. PICK p : p = Head(q).event.of
  OBVIOUS
<1>3. PICK name : name = IF table[p] = "pending" THEN "payment.charge_requested"
                                                 ELSE "wallet.debit_requested"
  OBVIOUS
<1>4. PICK n : n = Copies(name, p)
  OBVIOUS
<1>5. /\ Takes(s, "workflow") /\ Head(q).event.name = "recovery.requested"
      /\ queue' = [queue EXCEPT ![s] = Tail(q) \o n]
      /\ moved' = moved /\ table' = table /\ lines' = lines /\ unsaved' = unsaved
      /\ http' = http /\ step' = step /\ hand' = hand
  BY <1>1, <1>2, <1>3, <1>4 DEF Recover, storeVars
<1>6. p \in Payments
  BY <1>1, <1>2, <1>5, WorkAhead
<1>7. name \in Handled /\ name \notin {"wallet.debited", "wallet.refunded", "wallet.credited"}
  BY <1>3 DEF Handled
<1> QED
  BY <1>1, <1>2, <1>4, <1>5, <1>6, <1>7, MoneyMoves


\* The debit of p that a Mark... handler takes notice of.
LEMMA DebitedDelivery ==
  ASSUME NEW p \in Payments, NEW d \in Delivery, d.event.of = p, d.to = "workflow"
  PROVE  /\ To("workflow", "wallet.debited", p) \in Workflow(p)
         /\ d = To("workflow", "wallet.debited", p) <=> d.event.name = "wallet.debited"
<1>1. d = [to |-> d.to, event |-> d.event] /\ d.event = [name |-> d.event.name, of |-> d.event.of]
  BY DEF Delivery, Event
<1> QED
  BY <1>1, Apart DEF To, Workflow, Delivery, Event, Handled

LEMMA MarkSaveMoves ==
  ASSUME ReadInv, MovesInv, NEW s \in Shards, MarkSave(s)
  PROVE  MovesInv'
<1>1. PICK q \in Seq(Delivery) : q = queue[s]
  BY DEF ReadInv, TypeOK
<1>2. PICK p : p = Head(q).event.of
  OBVIOUS
<1>3. PICK name : name = Head(q).event.name
  OBVIOUS
<1>4. /\ Takes(s, "workflow") /\ name \in DOMAIN Marks
      /\ queue' = queue /\ moved' = moved /\ lines' = lines /\ unsaved' = unsaved /\ http' = http
      /\ table' = [table EXCEPT ![p] = StatusOf[Marks[name]]]
      /\ step' = [step EXCEPT ![s] = "file"]
      /\ hand' = [hand EXCEPT ![s] = [name |-> Marks[name], of |-> p]]
  BY <1>1, <1>2, <1>3 DEF MarkSave, BeginAppend, AppendToMemory
<1>5. p \in Payments /\ ShardOf[p] = s /\ table[p] \in TableAt(name) /\ TypeOK
  BY <1>1, <1>2, <1>3, <1>4, WorkAhead DEF ReadInv
<1>6. Handles(s, q, p)
  BY <1>1, <1>2, <1>4, <1>5 DEF Handles, Takes
<1>7. /\ \A c \in Credits : http'[c] = http[c] /\ step'[c] = step[c]
      /\ \A r \in Payments : r # p => table'[r] = table[r] /\ (Marking(r)' => Marking(r))
  BY <1>4, <1>5, Apart DEF TypeOK, Marking
<1>8. /\ \A m \in Movement : MovementStays(m)
      /\ \A c \in Credits : CreditFollowed(c)'
      /\ \A r \in Payments : \A d : d \in Waiting(r)' <=> d \in Waiting(r)
      /\ \A r \in Payments : r # p => PaymentMovements(r)'
  BY <1>4, <1>7, QuietMoves
<1>9. PaymentMovements(p)'
  <2>1. /\ Head(q) \in Workflow(p) /\ ~Known(Refunded(p))
        /\ \A d \in Workflow(p) : d \in Waiting(p) <=> d = Head(q)
    BY <1>6, AtHead
  <2>2. PICK w : w = To("workflow", "wallet.debited", p)
    OBVIOUS
  <2>3. w \in Waiting(p) <=> name = "wallet.debited"
    <3>1. Head(q) \in Delivery /\ Head(q).event.of = p /\ Head(q).to = "workflow"
      BY <2>1 DEF Workflow
    <3> QED
      BY <1>3, <1>5, <2>1, <2>2, <3>1, DebitedDelivery
  <2>4. /\ ~Known(Refunded(p))'
        /\ Known(Debited(p))' <=> Known(Debited(p))
    BY <1>5, <1>8, <2>1, MovementFacts DEF MovementStays
  <2>5. table'[p] = StatusOf[Marks[name]]
    BY <1>4, <1>5 DEF TypeOK
  <2>6. Known(Debited(p)) <=> table[p] \in {"pending", "succeeded", "failed"} \/ w \in Waiting(p)
    BY <1>5, <2>2 DEF MovesInv, PaymentMovements
  <2>7. Known(Debited(p)) <=> table'[p] \in {"pending", "succeeded", "failed"} \/ w \in Waiting(p)
    BY <1>4, <1>5, <2>3, <2>5, <2>6, NameFacts DEF TableAt
  <2> QED
    BY <1>4, <1>5, <1>8, <2>2, <2>4, <2>7, MoneyAfter, SameLines DEF MovesInv
<1> QED
  BY <1>8, <1>9 DEF MovesInv, MovementStays

LEMMA MarkPublishMoves ==
  ASSUME ReadInv, MovesInv, NEW s \in Shards, MarkPublish(s)
  PROVE  MovesInv'
<1>1. PICK q \in Seq(Delivery) : q = queue[s]
  BY DEF ReadInv, TypeOK
<1>2. PICK p : p = Head(q).event.of
  OBVIOUS
<1>3. PICK e : e = Head(q).event
  OBVIOUS
<1>4. TypeOK /\ Home /\ WorkersMark
  BY DEF ReadInv
<1>5. /\ step[s] = "publish" /\ q # <<>> /\ Head(q).to = "workflow" /\ e.name \in DOMAIN Marks
      /\ hand[s] = [name |-> Marks[e.name], of |-> p] /\ e.of = p
  BY <1>1, <1>2, <1>3, <1>4 DEF MarkPublish, WorkersMark
<1>6. PICK mark : mark = Marks[e.name]
  OBVIOUS
<1>7. hand[s].name = mark /\ hand[s].of = p
  BY <1>5, <1>6
<1>8. Head(q) \in Delivery /\ Head(q) \in Elems(q) /\ e \in Event
  <2>1. Head(q) \in Delivery /\ Head(q) \in Elems(q)
    BY <1>5, TailFacts
  <2> QED
    BY <1>3, <2>1 DEF Delivery
<1>9. p \in Payments /\ p \in Requests /\ Handles(s, q, p)
  <2>1. AtHome(Head(q), s)
    BY <1>1, <1>4, <1>8 DEF Home
  <2> QED
    BY <1>1, <1>2, <1>3, <1>5, <1>8, <2>1, Apart DEF AtHome, Handles
<1>10. PICK c : c = Copies(mark, e.of)
  OBVIOUS
<1>11. PICK f : f = FollowUps(e)
  OBVIOUS
<1>12. /\ c \in Seq(Delivery) /\ f \in Seq(Delivery) /\ c \o f \in Seq(Delivery)
       /\ \A d \in Elems(c \o f) : Follows(d, mark, p)
  <2>1. e.of = p /\ e.of \in Payments /\ e.name \in DOMAIN Marks
    BY <1>5, <1>9
  <2>2. c \in Seq(Delivery) /\ f \in Seq(Delivery) /\ c \o f \in Seq(Delivery)
    BY <1>6, <1>8, <1>10, <1>11, <2>1, FollowFacts
  <2>3. \A d \in Elems(c \o f) : Follows(d, mark, e.of)
    BY <1>6, <1>8, <1>10, <1>11, <2>1, FollowFacts
  <2> QED
    BY <2>1, <2>2, <2>3
<1>13. PICK n : n = c \o f
  OBVIOUS
<1>14. queue' = [queue EXCEPT ![s] = Tail(q) \o n]
  <2>1. queue' = [queue EXCEPT ![s] = Tail(q) \o c \o f]
    BY <1>1, <1>3, <1>5, <1>7, <1>10, <1>11 DEF MarkPublish
  <2>2. Tail(q) \in Seq(Delivery)
    BY <1>5, TailFacts
  <2>3. Tail(q) \o c \o f = Tail(q) \o (c \o f)
    BY <1>12, <2>2
  <2> QED
    BY <1>13, <2>1, <2>3
<1>15. Turns(s, q, Tail(q), n) /\ Left(q, Tail(q))
  BY <1>1, <1>5, <1>12, <1>13, <1>14 DEF Turns, Left
<1>16. /\ table' = table /\ moved' = moved /\ lines' = lines /\ unsaved' = unsaved /\ http' = http
       /\ step' = [step EXCEPT ![s] = "ready"] /\ hand' = [hand EXCEPT ![s] = Nothing]
  BY DEF MarkPublish, PutDown, storeVars
<1>17. /\ \A x \in Threads : x # s => step'[x] = step[x] /\ hand'[x] = hand[x]
       /\ step'[s] = "ready"
  BY <1>4, <1>16, Apart DEF TypeOK
<1>18. /\ ShardOf[p] = s /\ ~Known(Refunded(p)) /\ Head(q) \in Workflow(p)
       /\ \A d \in Workflow(p) : d \in Waiting(p) <=> d = Head(q)
       /\ \A d \in Workflow(p) : d \in Waiting(p)' <=> d \in Elems(n)
       /\ \A m \in Movement : Head(q) # DeliveryOf(m)
  BY <1>9, <1>15, AtHand
<1>19. \A d \in Elems(n) :
         /\ d.event.of = p
         /\ d.event.name \in StatusEvents \union {"payment.charge_requested", "wallet.refund_requested"}
  <2>1. mark \in StatusEvents
    BY <1>5, <1>6, EventFacts
  <2> QED
    BY <1>12, <1>13, <2>1 DEF Follows
<1>20. /\ \A m \in Movement : DeliveryOf(m) \notin Elems(n) => MovementStays(m)
       /\ \A x \in Credits : x # p => CreditFollowed(x)'
       /\ \A r \in Payments : r # p => PaymentMovements(r)'
  BY <1>2, <1>4, <1>9, <1>15, <1>16, <1>17, <1>18, <1>19, QueueMoves
<1>21. \A m \in Movement : MovementStays(m)
  BY <1>19, <1>20, MovementFacts DEF MovementEvents, StatusEvents
<1>22. PaymentMovements(p)'
  <2>1. PICK w : w = To("workflow", "wallet.debited", p)
    OBVIOUS
  <2>2. /\ w \in Workflow(p) /\ w.event.name = "wallet.debited"
        /\ w \in Waiting(p) <=> e.name = "wallet.debited"
    BY <1>2, <1>3, <1>5, <1>8, <1>9, <1>18, <2>1, DebitedDelivery DEF To
  <2>3. w \notin Waiting(p)'
    BY <1>18, <1>19, <2>2 DEF StatusEvents
  <2>4. Known(Debited(p)) <=> table[p] \in {"pending", "succeeded", "failed"} \/ w \in Waiting(p)
    BY <1>9, <2>1 DEF MovesInv, PaymentMovements
  <2>5. e.name = "wallet.debited" => table[p] = "pending"
    <3>1. Marking(p) /\ PaymentInv(p)
      BY <1>5, <1>7, <1>9, <1>18 DEF Marking, ReadInv
    <3>2. table[p] = StatusOf[mark]
      BY <1>7, <1>18, <3>1 DEF PaymentInv, TableInPosition
    <3> QED
      BY <1>6, <3>2, NameFacts
  <2>6. /\ ~Known(Refunded(p))'
        /\ Known(Debited(p))' <=> Known(Debited(p))
    BY <1>9, <1>18, <1>21, MovementFacts DEF MovementStays
  <2>7. Known(Debited(p))' <=> table'[p] \in {"pending", "succeeded", "failed"} \/ w \in Waiting(p)'
    BY <1>16, <2>2, <2>3, <2>4, <2>5, <2>6
  <2> QED
    BY <1>9, <1>16, <2>1, <2>6, <2>7, MoneyAfter, SameLines DEF MovesInv
<1> QED
  BY <1>9, <1>20, <1>21, <1>22, Apart DEF MovesInv, MovementStays


-----------------------------------------------------------------------------
\* The projector applies the head of q: its movement, if it is one, or nothing that
\* is a movement.
LEMMA ProjectorMoves ==
  ASSUME ReadInv, MovesInv, NEW s \in Shards, NEW q \in Seq(Delivery), q = queue[s],
         Takes(s, "projector"), queue' = [queue EXCEPT ![s] = Tail(q)],
         \A m \in Movement : m = Head(q).event => moved'[m] = moved[m] + 1,
         \A m \in Movement : m # Head(q).event => moved'[m] = moved[m],
         table' = table, lines' = lines, unsaved' = unsaved,
         http' = http, step' = step, hand' = hand
  PROVE  MovesInv'
<1>1. q # <<>> /\ Head(q).to = "projector" /\ Head(q) \in Delivery /\ TypeOK
  BY TailFacts DEF Takes, ReadInv
<1>2. PICK n \in Seq(Delivery) : n = <<>> /\ Elems(n) = {}
  BY ShortFacts
<1>3. Turns(s, q, Tail(q), n) /\ Left(q, Tail(q))
  <2>1. Tail(q) \in Seq(Delivery)
    BY <1>1, TailFacts
  <2>2. Tail(q) \o n = Tail(q)
    BY <1>2, <2>1
  <2> QED
    BY <1>1, <1>2, <2>2 DEF Turns, Left
<1>4. ASSUME NEW m \in Movement PROVE MovementStays(m)
  <2>1. MovementOnce(m)
    BY DEF MovesInv
  <2>2. CASE m = Head(q).event
    <3>1. Head(q) = DeliveryOf(m)
      BY <1>1, <2>2, MovementFacts DEF Delivery
    <3>2. ShardOf[KeyOf(m)] = s
      <4>1. Head(q) \in Elems(q)
        BY <1>1, TailFacts
      <4> QED
        BY <2>2, <4>1 DEF ReadInv, Home, AtHome
    <3> QED
      BY <1>1, <2>1, <2>2, <3>1, <3>2, MovementApplied
  <2>3. CASE m # Head(q).event
    <3>1. Head(q) # DeliveryOf(m) /\ DeliveryOf(m) \notin Elems(n)
      BY <1>2, <2>3, MovementFacts
    <3> QED
      BY <1>1, <1>3, <2>1, <2>3, <3>1, OthersStay
  <2> QED
    BY <2>2, <2>3
<1>5. ASSUME NEW c \in Credits PROVE CreditFollowed(c)'
  BY <1>4, CreditStays, MovementFacts, SameLines DEF MovesInv
<1>6. ASSUME NEW p \in Payments PROVE PaymentMovements(p)'
  <2>1. \A d \in Workflow(p) : d \in Waiting(p)' <=> d \in Waiting(p)
    <3>1. /\ ShardOf[p] # s => \A d : d \in Waiting(p)' <=> d \in Waiting(p)
          /\ ShardOf[p] = s =>
               /\ \A d : d \in Waiting(p) <=> d \in Elems(q)
               /\ \A d : d \in Waiting(p)' <=> d \in Elems(Tail(q)) \/ d \in Elems(n)
      BY <1>1, <1>3, WaitingAfter
    <3>2. \A d : d \in Elems(q) <=> d = Head(q) \/ d \in Elems(Tail(q))
      BY <1>1, TailFacts
    <3>3. \A d \in Workflow(p) : d # Head(q)
      BY <1>1 DEF Workflow
    <3> QED
      BY <1>2, <3>1, <3>2, <3>3
  <2>2. To("workflow", "wallet.debited", p) \in Workflow(p)
    BY Apart DEF To, Workflow, Delivery, Event, Handled
  <2>3. Marking(p)' <=> Marking(p)
    BY DEF Marking
  <2>4. Known(Refunded(p)) => ~Marking(p)' /\ Waiting(p)' \intersect Workflow(p) = {}
    BY <2>1, <2>3 DEF MovesInv, PaymentMovements
  <2> QED
    BY <1>4, <2>1, <2>2, <2>4, MoneyStays, MovementFacts, SameLines DEF MovesInv
<1> QED
  BY <1>4, <1>5, <1>6 DEF MovesInv, MovementStays

LEMMA ProjectMoves ==
  ASSUME ReadInv, MovesInv, NEW s \in Shards, ProjectStatus(s) \/ ProjectMovement(s)
  PROVE  MovesInv'
<1>1. PICK q \in Seq(Delivery) : q = queue[s]
  BY DEF ReadInv, TypeOK
<1>2. /\ Takes(s, "projector") /\ queue' = [queue EXCEPT ![s] = Tail(q)]
      /\ table' = table /\ lines' = lines /\ unsaved' = unsaved
      /\ http' = http /\ step' = step /\ hand' = hand
  BY <1>1 DEF ProjectStatus, ProjectMovement, storeVars
<1>3. /\ \A m \in Movement : m = Head(q).event => moved'[m] = moved[m] + 1
      /\ \A m \in Movement : m # Head(q).event => moved'[m] = moved[m]
  <2>1. CASE ProjectStatus(s)
    <3>1. moved' = moved /\ Head(q).event.name \in StatusEvents
      BY <1>1, <2>1 DEF ProjectStatus
    <3> QED
      BY <3>1, MovementFacts DEF MovementEvents, StatusEvents
  <2>2. CASE ProjectMovement(s)
    <3>1. moved' = [moved EXCEPT ![Head(q).event] = @ + 1]
      BY <1>1, <2>2 DEF ProjectMovement
    <3> QED
      BY <3>1 DEF ReadInv, TypeOK
  <2> QED
    BY <2>1, <2>2
<1> QED
  BY <1>1, <1>2, <1>3, ProjectorMoves

-----------------------------------------------------------------------------
\* A movement's records when another event is written.
LEMMA OtherLine ==
  ASSUME NEW l \in Seq(Event), NEW x \in Event, NEW m \in Event, x # m
  PROVE  Occurrences(Append(l, x), m) = Occurrences(l, m)
<1>1. Append(l, x) \in Seq(Event)
  OBVIOUS
<1>2. Occurrences(Append(l, x), m) \in Nat /\ Occurrences(l, m) \in Nat
  BY <1>1, OccurrencesFacts
<1>3. /\ Occurrences(Append(l, x), m) >= Occurrences(l, m)
      /\ Occurrences(Append(l, x), m) <= Occurrences(l, m)
  BY OccurrencesFacts
<1> QED
  BY <1>2, <1>3

\* The second half of Append writes the line, or gives up.
LEMMA FinishAppendMoves ==
  ASSUME ReadInv, MovesInv, NEW t \in Threads, FinishAppend(t)
  PROVE  MovesInv'
<1>1. PICK e : e = hand[t]
  OBVIOUS
<1>2. PICK k : k = KeyOf(e)
  OBVIOUS
<1>3. step[t] = "file" /\ TypeOK
  BY DEF FinishAppend, ReadInv
<1>4. /\ e \in Event
      /\ t \in Payments => e.of = t /\ e.name \in {"payment.created", "payment.initialized"}
      /\ t \in Credits => e = Credited(t)
      /\ t \in Shards => e.of \in Payments /\ e.name \in StatusEvents \ {"payment.created"}
  BY <1>1, <1>3, WriterFacts
<1>5. /\ step' = [step EXCEPT ![t] = "publish"]
      /\ http' = http /\ hand' = hand /\ table' = table /\ queue' = queue /\ moved' = moved
      /\ \/ lines' = [lines EXCEPT ![k] = Append(@, e)] /\ unsaved' = unsaved
         \/ lines' = lines /\ unsaved' = unsaved \union {e.of}
  BY <1>1, <1>2 DEF FinishAppend, AppendToFile, FileIsClosed, WriteFails, storeVars
<1>6. /\ \A x \in Threads : x # t => step'[x] = step[x]
      /\ step'[t] = "publish"
  BY <1>3, <1>5 DEF TypeOK
<1>7. \A m \in Movement : MovementStays(m)
  BY <1>5, UnmovedStays DEF MovesInv
<1>8. t \in Payments \/ t \in Credits \/ t \in Shards
  BY DEF Threads, Requests
<1>9. ASSUME NEW a \in Aggregates, NEW m \in Event, m # e \/ a # k
      PROVE  Occurrences(lines'[a], m) = Occurrences(lines[a], m)
  <2>1. lines[a] \in Seq(Event)
    BY <1>3, ReadModelAssumption DEF TypeOK, StoreTypeOK
  <2>2. lines'[a] = lines[a] \/ (a = k /\ lines'[a] = Append(lines[a], e))
    BY <1>3, <1>5 DEF TypeOK, StoreTypeOK
  <2>3. CASE lines'[a] = lines[a]
    BY <2>3
  <2>4. CASE a = k /\ lines'[a] = Append(lines[a], e)
    BY <1>4, <1>9, <2>1, <2>4, OtherLine
  <2> QED
    BY <2>2, <2>3, <2>4
<1>10. ASSUME NEW p \in Payments PROVE PaymentMovements(p)'
  <2>1. Debited(p) # e /\ Refunded(p) # e
    BY <1>4, <1>8 DEF Debited, Refunded, Credited, StatusEvents
  <2>2. \A m \in {Debited(p), Refunded(p)} : Occurrences(lines'[p], m) = Occurrences(lines[p], m)
    BY <1>9, <2>1, Apart, MovementFacts
  <2>3. \A d : d \in Waiting(p)' <=> d \in Waiting(p)
    BY <1>5 DEF Waiting, QueueOf, Elems
  <2>4. Marking(p)' => Marking(p)
    BY <1>3, <1>5, Apart DEF Marking, TypeOK
  <2>5. Known(Refunded(p)) => ~Marking(p)' /\ Waiting(p)' \intersect Workflow(p) = {}
    BY <2>3, <2>4 DEF MovesInv, PaymentMovements
  <2> QED
    BY <1>5, <1>7, <2>2, <2>3, <2>5, MoneyStays, MovementFacts DEF MovesInv
<1>11. \A c \in Credits : CreditLines(c)' = Occurrences(lines'[Owner[c]], Credited(c))
  BY DEF CreditLines, Occurrences, Credited
<1>12. ASSUME NEW c \in Credits, c # t PROVE CreditFollowed(c)'
  <2>1. Credited(c) # e /\ e.of # c
    BY <1>4, <1>8, <1>12, Apart DEF Credited, StatusEvents
  <2>2. CreditLines(c)' = CreditLines(c)
    BY <1>9, <1>11, <2>1, Apart, MovementFacts DEF CreditLines
  <2>3. c \in unsaved' <=> c \in unsaved
    BY <1>5, <2>1
  <2>4. http'[c] = http[c] /\ step'[c] = step[c]
    BY <1>5, <1>6, <1>12, Apart
  <2> QED
    BY <1>7, <2>2, <2>3, <2>4, CreditStays, MovementFacts DEF MovesInv
<1>13. ASSUME t \in Credits PROVE CreditFollowed(t)'
  <2>1. http[t] = "running" /\ http'[t] = "running"
    BY <1>3, <1>5, <1>13, Apart DEF ReadInv, RequestsOwn
  <2>2. CreditLines(t) = 0 /\ ~Known(Credited(t))
    BY <1>3, <1>13, <2>1 DEF MovesInv, CreditFollowed
  <2>3. ~Known(Credited(t))'
    BY <1>7, <1>13, <2>2, MovementFacts DEF MovementStays
  <2>4. \/ CreditLines(t)' = 1
        \/ CreditLines(t)' = 0 /\ t \in unsaved'
    <3>1. Occurrences(lines[k], e) = 0 /\ k = Owner[t] /\ e = Credited(t) /\ e.of = t
      BY <1>2, <1>4, <1>13, <2>2, Apart DEF CreditLines, Credited, KeyOf
    <3>2. CASE lines' = [lines EXCEPT ![k] = Append(@, e)]
      <4>1. PICK l \in Seq(Event) : l = lines[k]
        BY <1>3, <1>13, <3>1, Apart, ReadModelAssumption DEF TypeOK, StoreTypeOK
      <4>2. PICK a \in Seq(Event) : a = Append(l, e)
        <5>1. Append(l, e) \in Seq(Event)
          BY <1>4
        <5> QED
          BY <5>1
      <4>3. lines'[k] = a
        BY <1>3, <1>13, <3>1, <3>2, <4>1, <4>2, Apart DEF TypeOK, StoreTypeOK
      <4>4. Occurrences(a, e) \in Nat
        BY <1>4, OccurrencesFacts
      <4>5. Occurrences(a, e) = 1
        BY <1>4, <3>1, <4>1, <4>2, <4>4, OccurrencesFacts
      <4> QED
        BY <1>11, <1>13, <3>1, <4>3, <4>5
    <3>3. CASE lines' = lines /\ unsaved' = unsaved \union {e.of}
      BY <1>11, <1>13, <3>1, <3>3
    <3> QED
      BY <1>5, <3>2, <3>3
  <2> QED
    BY <1>6, <2>1, <2>3, <2>4 DEF CreditFollowed
<1> QED
  BY <1>7, <1>10, <1>12, <1>13 DEF MovesInv, MovementStays

LEMMA ShutdownMoves ==
  ASSUME MovesInv, Shutdown \/ UNCHANGED vars
  PROVE  MovesInv'
<1>1. /\ queue' = queue /\ moved' = moved /\ lines' = lines /\ unsaved' = unsaved
      /\ http' = http /\ step' = step /\ hand' = hand /\ table' = table
  BY DEF Shutdown, CloseStore, vars, readVars, storeVars
<1>2. \A p \in Payments : Marking(p)' => Marking(p)
  BY <1>1 DEF Marking
<1>3. /\ \A m \in Movement : MovementStays(m)
      /\ \A c \in Credits : CreditFollowed(c)'
      /\ \A p \in Payments : PaymentMovements(p)'
  BY <1>1, <1>2, QuietMoves
<1> QED
  BY <1>3 DEF MovesInv, MovementStays

-----------------------------------------------------------------------------
\* A process that has just started counts what it replayed.
Started ==
  /\ queue = [s \in Shards |-> <<>>]
  /\ step = [t \in Threads |-> "ready"]
  /\ table = [p \in Payments |-> "none"]
  /\ \A r \in Requests : http[r] \in {"start", "accepted", "cut"}
  /\ \A m \in Movement : moved[m] = Occurrences(lines[KeyOf(m)], m)
  /\ \A p \in Payments : \A m \in {Debited(p), Refunded(p)} : Occurrences(lines[p], m) = 0
  /\ \A c \in Credits :
       /\ CreditLines(c) \in {0, 1}
       /\ http[c] = "start" => CreditLines(c) = 0
       /\ c \notin unsaved /\ http[c] = "accepted" => CreditLines(c) = 1

LEMMA StartedMoves == Started => MovesInv
<1> SUFFICES ASSUME Started PROVE MovesInv
  OBVIOUS
<1>1. /\ \A p \in Payments : moved[Debited(p)] = 0 /\ moved[Refunded(p)] = 0
      /\ \A c \in Credits : moved[Credited(c)] = CreditLines(c)
  <2>1. /\ \A p \in Payments : KeyOf(Debited(p)) = p /\ KeyOf(Refunded(p)) = p
        /\ \A c \in Credits : KeyOf(Credited(c)) = Owner[c]
    BY Apart DEF KeyOf, Debited, Refunded, Credited
  <2>2. \A c \in Credits : CreditLines(c) = Occurrences(lines[Owner[c]], Credited(c))
    BY DEF CreditLines
  <2> QED
    BY <2>1, <2>2, MovementFacts DEF Started
<1>2. ASSUME NEW m \in Movement
      PROVE  /\ moved[m] \in {0, 1} /\ MovementOnce(m)
             /\ Known(m) <=> moved[m] = 1
  <2>1. moved[m] \in {0, 1}
    BY <1>1, MovementFacts DEF Started
  <2>2. PICK q : q = queue[ShardOf[KeyOf(m)]]
    OBVIOUS
  <2>3. q = <<>>
    BY <2>2, MovementFacts DEF Started
  <2>4. Elems(q) = {} /\ \A A, B : Before(q, A, B)
    BY <2>3, ShortFacts
  <2> QED
    BY <2>1, <2>2, <2>4, MovementIs
<1>3. ASSUME NEW c \in Credits PROVE CreditFollowed(c)
  BY <1>1, <1>2, Apart, MovementFacts DEF Started, CreditFollowed
<1>4. ASSUME NEW p \in Payments PROVE PaymentMovements(p)
  <2>1. Waiting(p) = {}
    BY Apart, ShortFacts DEF Started, Waiting, QueueOf
  <2> QED
    BY <1>1, <1>2, <2>1, MovementFacts DEF Started, PaymentMovements
<1> QED
  BY <1>2, <1>3, <1>4 DEF MovesInv


LEMMA InitMoves == Init => MovesInv
<1> SUFFICES ASSUME Init PROVE Started
  BY StartedMoves
<1>1. \A k \in Aggregates : lines[k] = <<>>
  BY DEF Init, StoreInit
<1>2. \A m : Occurrences(<<>>, m) = 0
  <2>1. \A m : {i \in DOMAIN <<>> : <<>>[i] = m} = {}
    OBVIOUS
  <2> QED
    BY <2>1, FS_EmptySet DEF Occurrences
<1>3. \A m \in Movement : KeyOf(m) \in Aggregates
  BY MovementFacts, KeyFacts
<1> QED
  BY <1>1, <1>2, <1>3, Apart DEF Init, Started, CreditLines

LEMMA RestartMoves ==
  ASSUME ReadInv, MovesInv, Restart
  PROVE  MovesInv'
<1>1. Started'
  <2>1. lines' = lines /\ unsaved' = unsaved
    BY DEF Restart, ReopenStore
  <2>2. (\A r \in Requests : http[r] \in {"start", "accepted", "cut"})'
    BY DEF Restart, ReadInv, TypeOK
  <2>3. (\A m \in Movement : moved[m] = Occurrences(lines[KeyOf(m)], m))'
    BY <2>1 DEF Restart, Occurrences, KeyOf
  <2>4. (\A p \in Payments : \A m \in {Debited(p), Refunded(p)} : Occurrences(lines[p], m) = 0)'
    <3>1. \A p \in Payments : \A m : Occurrences(lines'[p], m) = Occurrences(lines[p], m)
      BY <2>1, SameLines
    <3>2. \A p \in Payments : \A m \in {Debited(p), Refunded(p)} : Occurrences(lines'[p], m) = 0
      BY <3>1 DEF MovesInv, PaymentMovements
    <3> QED
      BY <3>2 DEF Occurrences, Debited, Refunded
  <2>5. ASSUME NEW c \in Credits
        PROVE  (/\ CreditLines(c) \in {0, 1}
                /\ http[c] = "start" => CreditLines(c) = 0
                /\ c \notin unsaved /\ http[c] = "accepted" => CreditLines(c) = 1)'
    <3>1. CreditFollowed(c) /\ CreditLines(c)' = CreditLines(c)
      BY <2>1, SameLines DEF MovesInv
    <3>2. http'[c] \in {"start", "accepted"} => http'[c] = http[c]
      BY Apart DEF Restart
    <3> QED
      BY <2>1, <3>1, <3>2 DEF CreditFollowed
  <2>6. (queue = [s \in Shards |-> <<>>])' /\ (step = [t \in Threads |-> "ready"])'
        /\ (table = [p \in Payments |-> "none"])'
    BY DEF Restart
  <2> QED
    BY <2>2, <2>3, <2>4, <2>5, <2>6 DEF Started
<1> QED
  BY <1>1, StartedMoves, PTL

\* Every step keeps the movements in step.
LEMMA NextMoves ==
  ASSUME ReadInv, MovesInv, [Next]_vars
  PROVE  MovesInv'
<1>1. ASSUME NEW p \in Payments, CreateSave(p) \/ CreateGoesOn(p) PROVE MovesInv'
  BY <1>1, CreateSaveMoves, CreateGoesOnMoves
<1>2. ASSUME NEW c \in Credits, CreditSave(c) \/ CreditPublish(c) PROVE MovesInv'
  BY <1>2, CreditSaveMoves, CreditPublishMoves
<1>3. ASSUME NEW s \in Shards, Worker(s) \/ Recover(s) PROVE MovesInv'
  BY <1>3, HandleMoneyMoves, RecoverMoves, MarkSaveMoves, MarkPublishMoves, ProjectMoves DEF Worker
<1>4. ASSUME NEW t \in Threads, FinishAppend(t) PROVE MovesInv'
  BY <1>4, FinishAppendMoves
<1>5. CASE Shutdown \/ UNCHANGED vars
  BY <1>5, ShutdownMoves
<1>6. CASE Restart
  BY <1>6, RestartMoves
<1> QED
  BY <1>1, <1>2, <1>3, <1>4, <1>5, <1>6 DEF Next

\* A known movement is counted once, an unknown one not at all.
LEMMA CountedIs ==
  ASSUME TypeOK, MovesInv, NEW m \in Movement
  PROVE  Counted(m) = IF Known(m) THEN 1 ELSE 0
<1>1. PICK d : d = DeliveryOf(m)
  OBVIOUS
<1>2. PICK q \in Seq(Delivery) : q = queue[ShardOf[KeyOf(m)]]
  BY MovementFacts DEF TypeOK
<1>3. /\ Before(q, {d}, {d}) /\ moved[m] \in {0, 1}
      /\ d \in Elems(q) => moved[m] = 0
      /\ Known(m) <=> moved[m] = 1 \/ d \in Elems(q)
  BY <1>1, <1>2, MovementIs DEF MovesInv
<1>4. PICK w : w = {i \in DOMAIN q : q[i] = d}
  OBVIOUS
<1>5. Counted(m) = moved[m] + Cardinality(w)
  <2>1. d = [to |-> "projector", event |-> m]
    BY <1>1, MovementFacts DEF Delivery
  <2> QED
    BY <1>2, <1>4, <2>1 DEF Counted, Queued
<1>6. CASE d \in Elems(q)
  <2>1. PICK i \in DOMAIN q : q[i] = d
    BY <1>6 DEF Elems
  <2>2. w = {i}
    <3>1. \A j \in DOMAIN q : q[j] = d => i <= j /\ j <= i
      BY <1>3, <2>1 DEF Before
    <3>2. \A j \in DOMAIN q : j \in Int
      BY <1>2
    <3> QED
      BY <1>4, <2>1, <3>1, <3>2
  <2>3. Cardinality(w) = 1
    BY <2>2, FS_Singleton
  <2> QED
    BY <1>3, <1>5, <1>6, <2>3
<1>7. CASE d \notin Elems(q)
  <2>1. w = {}
    BY <1>4, <1>7 DEF Elems
  <2>2. Cardinality(w) = 0
    BY <2>1, FS_EmptySet
  <2> QED
    BY <1>3, <1>5, <1>7, <2>2
<1> QED
  BY <1>6, <1>7

\* A payment that was not debited has no debit on its way to the workflow.
LEMMA NoDebitWaits ==
  ASSUME ReadInv, MovesInv, NEW p \in Payments, table[p] \in {"none", "rejected"}
  PROVE  ~Known(Debited(p))
<1>1. PICK w : w = To("workflow", "wallet.debited", p)
  OBVIOUS
<1>2. w \in Workflow(p) /\ w \in About(p) /\ w.event.name = "wallet.debited"
  BY <1>1, Apart DEF To, Workflow, About, Delivery, Event, Handled
<1>3. PaymentInv(p)
  BY DEF ReadInv
<1> SUFFICES ASSUME w \in Waiting(p) PROVE FALSE
  BY <1>1 DEF MovesInv, PaymentMovements
<1>4. CASE Marking(p)
  <2>1. PICK s \in Shards : s = ShardOf[p]
    BY Apart
  <2>2. PICK q \in Seq(Delivery) : q = queue[s]
    BY DEF ReadInv, TypeOK
  <2>3. /\ q # <<>> /\ Head(q).to = "workflow" /\ Head(q).event.name \in DOMAIN Marks
        /\ hand[s] = [name |-> Marks[Head(q).event.name], of |-> Head(q).event.of]
        /\ hand[s].of = p
    BY <1>4, <2>1, <2>2 DEF Marking, ReadInv, WorkersMark
  <2>4. Handles(s, q, p)
    BY <2>2, <2>3 DEF Handles
  <2>5. w = Head(q)
    BY <1>2, <2>4, AtHead
  <2>6. hand[s].name = "payment.pending"
    BY <1>2, <2>3, <2>5, NameFacts
  <2>7. table[p] = "pending"
    BY <1>3, <1>4, <2>1, <2>6, NameFacts DEF PaymentInv, TableInPosition
  <2> QED
    BY <2>7
<1>5. CASE ~Marking(p)
  BY <1>2, <1>3, <1>5 DEF PaymentInv, TableInPosition, TableAt
<1> QED
  BY <1>4, <1>5

LEMMA InvMovementsOnce == ReadInv /\ MovesInv => MovementsOnce
<1> SUFFICES ASSUME ReadInv, MovesInv PROVE MovementsOnce
  OBVIOUS
<1>1. \A m \in Movement : Counted(m) = IF Known(m) THEN 1 ELSE 0
  BY CountedIs DEF ReadInv
<1>2. \A m \in Movement : Counted(m) <= 1
  BY <1>1
<1>3. ASSUME NEW c \in Credits \ unsaved, http[c] = "accepted"
      PROVE  Counted([name |-> "wallet.credited", of |-> c]) = 1
  <2>1. Known(Credited(c)) /\ Credited(c) \in Movement
    BY <1>3, MovementFacts DEF MovesInv, CreditFollowed
  <2>2. Counted(Credited(c)) = 1
    BY <1>1, <2>1
  <2> QED
    BY <2>2 DEF Credited
<1>4. ASSUME NEW p \in Payments
      PROVE  LET debited == Counted([name |-> "wallet.debited", of |-> p])
                 refunded == Counted([name |-> "wallet.refunded", of |-> p])
             IN /\ table[p] \in {"pending", "succeeded", "failed"} => debited = 1
                /\ table[p] \in {"none", "rejected"} => debited = 0
                /\ table[p] # "failed" => refunded = 0
  <2>1. /\ table[p] \in {"pending", "succeeded", "failed"} => Known(Debited(p))
        /\ table[p] \in {"none", "rejected"} => ~Known(Debited(p))
        /\ table[p] # "failed" => ~Known(Refunded(p))
    BY NoDebitWaits DEF MovesInv, PaymentMovements
  <2>2. /\ Counted(Debited(p)) = IF Known(Debited(p)) THEN 1 ELSE 0
        /\ Counted(Refunded(p)) = IF Known(Refunded(p)) THEN 1 ELSE 0
    BY <1>1, MovementFacts
  <2> QED
    BY <2>1, <2>2 DEF Debited, Refunded
<1> QED
  BY <1>2, <1>3, <1>4 DEF MovementsOnce

\* However requests, workers, the projector and crashes interleave, and whichever
\* writes fail: the movements are in step with the requests and the payments they
\* come from.
THEOREM MovesInStep ==
  ASSUME Requests # {}
  PROVE  Spec => []MovesInv
<1>1. ReadInv /\ MovesInv /\ [Next]_vars => MovesInv'
  BY NextMoves
<1> QED
  BY <1>1, InitMoves, InStep, PTL DEF Spec

\* So no movement of a wallet is ever in its view twice, an accepted credit that was
\* written is in it or on its way even after a crash, and a debit or a refund is
\* there only for the payment that had one.
THEOREM MovementsCountOnce ==
  ASSUME Requests # {}
  PROVE  Spec => []MovementsOnce
  BY InStep, MovesInStep, InvMovementsOnce, PTL

-----------------------------------------------------------------------------
(* The replay of the records of a payment. *)

\* A set of natural numbers has a least one.
LEMMA Least ==
  ASSUME NEW T, T \subseteq Nat, T # {}
  PROVE  \E n \in T : \A m \in T : n <= m
<1> DEFINE R == OpToRel(<, Nat)
<1>1. IsWellFoundedOn(R, Nat)
  BY NatLessThanWellFounded
<1>2. \A x, y \in Nat : <<x, y>> \in R <=> x < y
  BY DEF OpToRel
<1> HIDE DEF R
<1>3. PICK n \in T : \A m \in T : ~ (<<m, n>> \in R)
  BY <1>1, WFMin
<1>4. ASSUME NEW m \in T PROVE n <= m
  <2>1. n \in Nat /\ m \in Nat /\ ~ (m < n)
    BY <1>2, <1>3
  <2> QED
    BY <2>1
<1> QED
  BY <1>4

\* And a greatest one, if they are bounded.
LEMMA Greatest ==
  ASSUME NEW T, T \subseteq Nat, T # {}, NEW k \in Nat, \A i \in T : i <= k
  PROVE  \E i \in T : \A j \in T : j <= i
<1> DEFINE U == {n \in Nat : \A j \in T : j <= n}
<1>1. U \subseteq Nat /\ U # {}
  OBVIOUS
<1>2. \A n : n \in U <=> n \in Nat /\ \A j \in T : j <= n
  OBVIOUS
<1> HIDE DEF U
<1>3. PICK n \in U : \A m \in U : n <= m
  BY <1>1, Least
<1>4. n \in T
  <2> SUFFICES ASSUME n \notin T PROVE FALSE
    OBVIOUS
  <2>1. n \in Nat /\ \A j \in T : j <= n /\ j # n /\ j \in Nat
    BY <1>2
  <2>2. PICK j \in T : TRUE
    OBVIOUS
  <2>3. n - 1 \in Nat /\ \A i \in T : i <= n - 1
    BY <2>1, <2>2
  <2>4. n - 1 \in U
    BY <1>2, <2>3
  <2> QED
    BY <1>3, <2>1, <2>4
<1> QED
  BY <1>2, <1>4

\* One more record is applied to what the ones before it leave.
LEMMA ReplayedOneMore ==
  ASSUME NEW l \in Seq(Event), StatusRecords(l), NEW e \in Event, e.name \in StatusEvents
  PROVE  Replayed(Append(l, e)) = Apply(e.name, Replayed(l))
<1> DEFINE a == Append(l, e)
           over == {i \in DOMAIN l : l[i].name # "payment.created"}
           overA == {i \in DOMAIN a : a[i].name # "payment.created"}
<1>1. CASE e.name # "payment.created" \/ l = <<>>
  <2>1. Replayed(Append(l, e)) = StatusOf[e.name]
    BY <1>1, ReplayedFacts
  <2> QED
    BY <1>1, <2>1, ReplayedNothing DEF Apply
<1>2. CASE e.name = "payment.created" /\ l # <<>>
  <2>1. a # <<>> /\ DOMAIN a = DOMAIN l \union {Len(l) + 1} /\ a[Len(l) + 1] = e
        /\ \A i \in DOMAIN l : a[i] = l[i]
    OBVIOUS
  <2> HIDE DEF a
  <2>2. overA = over
    BY <1>2, <2>1
  <2>3. CASE over = {}
    <3>1. Replayed(a) = "initialized" /\ Replayed(l) = "initialized"
      BY <1>2, <2>1, <2>2, <2>3 DEF Replayed
    <3> QED
      BY <1>2, <3>1 DEF Apply, a
  <2>4. CASE over # {}
    <3> DEFINE last == CHOOSE i \in over : \A j \in over : j <= i
    <3>1. Replayed(l) = StatusOf[l[last].name]
      BY <1>2, <2>4 DEF Replayed
    <3>2. Replayed(a) = StatusOf[a[last].name]
      BY <2>1, <2>2, <2>4 DEF Replayed
    <3>3. last \in over
      <4>1. \E i \in over : \A j \in over : j <= i
        <5>1. over \subseteq Nat /\ \A i \in over : i <= Len(l) /\ i # 0
          OBVIOUS
        <5>2. Len(l) \in Nat
          OBVIOUS
        <5> HIDE DEF over
        <5> QED
          BY <2>4, <5>1, <5>2, Greatest
      <4> QED
        BY <4>1
    <3>4. a[last] = l[last] /\ l[last].name \in StatusEvents
      BY <2>1, <3>3 DEF StatusRecords
    <3>5. PICK name : name = l[last].name
      OBVIOUS
    <3> HIDE DEF last
    <3>6. Replayed(l) = StatusOf[name] /\ Replayed(a) = StatusOf[name] /\ name \in StatusEvents
      BY <3>1, <3>2, <3>4, <3>5
    <3>7. StatusOf[name] # "none"
      BY <3>6, NameFacts DEF StatusEvents
    <3> QED
      BY <1>2, <3>6, <3>7 DEF Apply, a
  <2> QED
    BY <2>3, <2>4
<1> QED
  BY <1>1, <1>2
\* What the first n records leave.
After(l, n) == Replayed(SubSeq(l, 1, n))

LEMMA AfterFacts ==
  ASSUME NEW l \in Seq(Event), StatusRecords(l)
  PROVE  /\ After(l, 0) = "none" /\ After(l, Len(l)) = Replayed(l)
         /\ \A n \in 1 .. Len(l) : After(l, n) = Apply(l[n].name, After(l, n - 1))
<1>0. Len(l) \in Nat
  OBVIOUS
<1>1. SubSeq(l, 1, 0) = <<>> /\ SubSeq(l, 1, Len(l)) = l
  BY <1>0
<1>2. ASSUME NEW n \in 1 .. Len(l)
      PROVE  After(l, n) = Apply(l[n].name, After(l, n - 1))
  <2>1. PICK k : k = SubSeq(l, 1, n - 1)
    OBVIOUS
  <2>2. n - 1 \in 0 .. Len(l)
    BY <1>0
  <2>3. k \in Seq(Event) /\ Len(k) = n - 1 /\ \A i \in 1 .. n - 1 : k[i] = l[i]
    BY <1>0, <2>1, <2>2
  <2>4. l[n] \in Event /\ l[n].name \in StatusEvents
    BY <1>0 DEF StatusRecords
  <2>5. StatusRecords(k)
    <3>1. DOMAIN k = 1 .. n - 1
      BY <2>3
    <3>2. \A i \in 1 .. n - 1 : i \in DOMAIN l
      BY <1>0
    <3> QED
      BY <2>3, <3>1, <3>2 DEF StatusRecords
  <2>6. SubSeq(l, 1, n) = Append(k, l[n])
    <3>1. PICK a : a = Append(k, l[n])
      OBVIOUS
    <3>2. PICK b : b = SubSeq(l, 1, n)
      OBVIOUS
    <3>3. b \in Seq(Event) /\ Len(b) = n /\ \A i \in 1 .. n : b[i] = l[i]
      BY <1>0, <3>2
    <3>4. a \in Seq(Event) /\ Len(a) = n /\ \A i \in 1 .. n : a[i] = l[i]
      BY <1>0, <2>3, <2>4, <3>1
    <3>5. a = b
      BY <3>3, <3>4, SeqEqual
    <3> QED
      BY <3>1, <3>2, <3>5
  <2>7. Replayed(Append(k, l[n])) = Apply(l[n].name, Replayed(k))
    BY <2>3, <2>4, <2>5, ReplayedOneMore
  <2>8. After(l, n) = Replayed(Append(k, l[n])) /\ After(l, n - 1) = Replayed(k)
    BY <2>1, <2>6 DEF After
  <2> QED
    BY <2>7, <2>8
<1> QED
  BY <1>1, <1>2, ReplayedNothing DEF After

\* The closed form agrees with applying the records one by one.
LEMMA InOrderIsReplayed ==
  ASSUME NEW l \in Seq(Event), StatusRecords(l)
  PROVE  AppliedInOrder(l) = Replayed(l)
<1> DEFINE Step(f) == [n \in 0 .. Len(l) |->
                         IF n = 0 THEN "none" ELSE Apply(l[n].name, f[n - 1])]
           after == CHOOSE f : f = Step(f)
           g == [n \in 0 .. Len(l) |-> After(l, n)]
<1>0. Len(l) \in Nat
  OBVIOUS
<1>1. g = Step(g)
  <2>1. ASSUME NEW n \in 0 .. Len(l)
        PROVE  After(l, n) = IF n = 0 THEN "none" ELSE Apply(l[n].name, g[n - 1])
    <3>1. CASE n = 0
      BY <3>1, AfterFacts
    <3>2. CASE n # 0
      <4>1. n \in 1 .. Len(l) /\ n - 1 \in 0 .. Len(l)
        BY <1>0, <3>2
      <4>2. g[n - 1] = After(l, n - 1)
        BY <4>1
      <4>3. After(l, n) = Apply(l[n].name, After(l, n - 1))
        BY <4>1, AfterFacts
      <4> QED
        BY <3>2, <4>2, <4>3
    <3> QED
      BY <3>1, <3>2
  <2> QED
    BY <2>1
<1>2. after = Step(after)
  <2> HIDE DEF Step, g
  <2> QED
    BY <1>1
<1>3. /\ after[0] = "none"
      /\ \A n \in 1 .. Len(l) : after[n] = Apply(l[n].name, after[n - 1])
  <2>1. PICK f : f = after
    OBVIOUS
  <2>2. f = Step(f)
    BY <1>2, <2>1
  <2>3. f[0] = "none" /\ \A n \in 1 .. Len(l) : f[n] = Apply(l[n].name, f[n - 1])
    BY <1>0, <2>2
  <2> QED
    BY <2>1, <2>3
<1>4. AppliedInOrder(l) = after[Len(l)]
  BY DEF AppliedInOrder
<1> HIDE DEF after
<1>5. \A n \in 0 .. Len(l) : after[n] = After(l, n)
  <2> DEFINE T == {n \in 0 .. Len(l) : after[n] # After(l, n)}
  <2> SUFFICES ASSUME T # {} PROVE FALSE
    OBVIOUS
  <2>1. T \subseteq Nat
    BY <1>0
  <2>2. \A n : n \in T <=> n \in 0 .. Len(l) /\ after[n] # After(l, n)
    OBVIOUS
  <2> HIDE DEF T
  <2>3. PICK n \in T : \A m \in T : n <= m
    BY <2>1, Least
  <2>4. n # 0
    BY <1>3, <2>2, AfterFacts
  <2>5. n \in 1 .. Len(l) /\ n - 1 \in 0 .. Len(l) /\ ~(n <= n - 1)
    BY <1>0, <2>2, <2>4
  <2>6. after[n - 1] = After(l, n - 1)
    BY <2>2, <2>3, <2>5
  <2>7. after[n] = After(l, n)
    BY <1>3, <2>5, <2>6, AfterFacts
  <2> QED
    BY <2>2, <2>7
<1>6. Len(l) \in 0 .. Len(l)
  BY <1>0
<1> QED
  BY <1>4, <1>5, <1>6, AfterFacts

-----------------------------------------------------------------------------
(* What a failed write costs. *)

\* Records that are among the first stay so when more are added.
LEMMA AmongMore ==
  ASSUME NEW l \in Seq(Event), NEW m, NEW k, NEW n \in Nat, NEW o \in Nat, n <= o,
         AmongFirst(l, m, n), \A i \in 1 .. n : k[i] = m[i]
  PROVE  AmongFirst(l, k, o)
<1> SUFFICES ASSUME NEW j \in DOMAIN l
             PROVE  \E x \in 1 .. o : k[x] = l[j] /\ \A i \in 1 .. j - 1 : \E h \in 1 .. x - 1 : k[h] = l[i]
  BY DEF AmongFirst
<1>1. PICK x \in 1 .. n : m[x] = l[j] /\ \A i \in 1 .. j - 1 : \E h \in 1 .. x - 1 : m[h] = l[i]
  BY DEF AmongFirst
<1>2. x \in 1 .. o /\ k[x] = l[j]
  BY <1>1
<1>3. ASSUME NEW i \in 1 .. j - 1 PROVE \E h \in 1 .. x - 1 : k[h] = l[i]
  <2>1. PICK h \in 1 .. x - 1 : m[h] = l[i]
    BY <1>1
  <2>2. h \in 1 .. n
    BY <2>1
  <2> QED
    BY <2>1, <2>2
<1> QED
  BY <1>2, <1>3

\* The next record of m is written after the others.
LEMMA AmongNext ==
  ASSUME NEW l \in Seq(Event), NEW m, NEW n \in Nat, NEW e \in Event,
         AmongFirst(l, m, n), m[n + 1] = e
  PROVE  AmongFirst(Append(l, e), m, n + 1)
<1> DEFINE a == Append(l, e)
<1>1. /\ a \in Seq(Event) /\ DOMAIN a = 1 .. Len(l) + 1 /\ DOMAIN l = 1 .. Len(l)
      /\ a[Len(l) + 1] = e /\ \A i \in 1 .. Len(l) : a[i] = l[i]
      /\ Len(l) \in Nat
  OBVIOUS
<1> HIDE DEF a
<1> SUFFICES ASSUME NEW j \in 1 .. Len(l) + 1
             PROVE  \E x \in 1 .. n + 1 : m[x] = a[j] /\ \A i \in 1 .. j - 1 : \E h \in 1 .. x - 1 : m[h] = a[i]
  BY <1>1 DEF AmongFirst, a
<1>2. CASE j \in 1 .. Len(l)
  <2>1. PICK x \in 1 .. n : m[x] = l[j] /\ \A i \in 1 .. j - 1 : \E h \in 1 .. x - 1 : m[h] = l[i]
    BY <1>1, <1>2 DEF AmongFirst
  <2>2. x \in 1 .. n + 1 /\ m[x] = a[j]
    BY <1>1, <1>2, <2>1
  <2>3. \A i \in 1 .. j - 1 : i \in 1 .. Len(l)
    BY <1>1, <1>2
  <2>4. \A i \in 1 .. j - 1 : a[i] = l[i]
    BY <1>1, <2>3
  <2> QED
    BY <2>1, <2>2, <2>4
<1>3. CASE j = Len(l) + 1
  <2>1. n + 1 \in 1 .. n + 1 /\ m[n + 1] = a[j]
    BY <1>1, <1>3
  <2>2. ASSUME NEW i \in 1 .. j - 1 PROVE \E h \in 1 .. (n + 1) - 1 : m[h] = a[i]
    <3>1. i \in DOMAIN l /\ a[i] = l[i]
      BY <1>1, <1>3
    <3>2. PICK x \in 1 .. n : m[x] = l[i]
      BY <3>1 DEF AmongFirst
    <3>3. x \in 1 .. (n + 1) - 1
      OBVIOUS
    <3> QED
      BY <3>1, <3>2, <3>3
  <2> QED
    BY <2>1, <2>2
<1> QED
  BY <1>1, <1>2, <1>3

LEMMA AmongSame ==
  ASSUME NEW l \in Seq(Event)
  PROVE  AmongFirst(l, l, Len(l))
<1> SUFFICES ASSUME NEW j \in DOMAIN l
             PROVE  \E x \in 1 .. Len(l) : l[x] = l[j] /\ \A i \in 1 .. j - 1 : \E h \in 1 .. x - 1 : l[h] = l[i]
  BY DEF AmongFirst
<1>1. j \in 1 .. Len(l)
  OBVIOUS
<1> QED
  BY <1>1

LEMMA AppendIs ==
  ASSUME NEW m \in Seq(Event), NEW e \in Event
  PROVE  \E k \in Seq(Event) : /\ k = Append(m, e) /\ Len(k) = Len(m) + 1
                               /\ k # <<>> /\ k[Len(k)] = e /\ \A i \in 1 .. Len(m) : k[i] = m[i]
<1>1. /\ Append(m, e) \in Seq(Event) /\ Len(Append(m, e)) = Len(m) + 1
      /\ Append(m, e) # <<>> /\ Append(m, e)[Len(m) + 1] = e
      /\ \A i \in 1 .. Len(m) : Append(m, e)[i] = m[i]
  OBVIOUS
<1> QED
  BY <1>1

LEMMA LastIs ==
  ASSUME NEW m \in Seq(Event), m # <<>>
  PROVE  \E n \in Nat : n = Len(m) - 1 /\ n + 1 = Len(m) /\ n <= Len(m)
<1>1. PICK k \in Nat : k = Len(m) /\ k # 0
  OBVIOUS
<1>2. k - 1 \in Nat /\ k - 1 + 1 = k /\ k - 1 <= k
  BY <1>1
<1> WITNESS k - 1 \in Nat
<1> QED
  BY <1>1, <1>2

\* What a step may do to the records of p: nothing, begin an Append, end one with the
\* line in the file or without it, or start the process anew.
Untouched(p) ==
  /\ streams'[p] = streams[p] /\ lines'[p] = lines[p]
  /\ \A t \in Threads : (Writes(t, p)' <=> Writes(t, p)) /\ (Writes(t, p) => hand'[t] = hand[t])
  /\ fileOpen' => fileOpen
  /\ writeFailures' = writeFailures \/ writeFailures' = writeFailures + 1

Begun(p, e) ==
  /\ streams'[p] = Append(streams[p], e) /\ lines'[p] = lines[p]
  /\ \A t \in Threads : ~Writes(t, p) /\ (Writes(t, p)' => hand'[t] = e)
  /\ \E t \in Threads : Writes(t, p)'
  /\ UNCHANGED <<fileOpen, writeFailures>>

Ended(p, t) ==
  /\ Writes(t, p) /\ streams'[p] = streams[p]
  /\ \A u \in Threads : ~Writes(u, p)'
  /\ \/ lines'[p] = Append(lines[p], hand[t]) /\ UNCHANGED <<fileOpen, writeFailures>>
     \/ /\ lines'[p] = lines[p] /\ fileOpen' = fileOpen
        /\ ~fileOpen \/ writeFailures' = writeFailures + 1

Reopened(p) ==
  /\ streams'[p] = lines[p] /\ lines'[p] = lines[p]
  /\ \A t \in Threads : ~Writes(t, p)'
  /\ UNCHANGED writeFailures

\* Past in terms of who writes, before and after a step.
LEMMA PastIs ==
  ASSUME NEW p
  PROVE  /\ (\E t \in Threads : Writes(t, p)) => Past(p) = Len(streams[p]) - 1
         /\ (\A t \in Threads : ~Writes(t, p)) => Past(p) = Len(streams[p]) - 0
         /\ (\E t \in Threads : Writes(t, p)') => Past(p)' = Len(streams'[p]) - 1
         /\ (\A t \in Threads : ~Writes(t, p)') => Past(p)' = Len(streams'[p]) - 0
<1>1. Past(p) = Len(streams[p]) - (IF \E t \in Threads : Writes(t, p) THEN 1 ELSE 0)
  BY DEF Past, Writes
<1>2. Past(p)' = Len(streams'[p]) - (IF \E t \in Threads : Writes(t, p)' THEN 1 ELSE 0)
  BY DEF Past, Writes
<1> QED
  BY <1>1, <1>2

\* Whichever it is, what was lost is counted.
LEMMA LossKept ==
  ASSUME TypeOK, TypeOK', NEW p \in Payments, LossInv(p),
         \/ Untouched(p) \/ Reopened(p)
         \/ \E e \in Event : Begun(p, e)
         \/ \E t \in Threads : Ended(p, t)
  PROVE  LossInv(p)'
<1>1. PICK m \in Seq(Event) : m = streams[p]
  BY Apart, ReadModelAssumption DEF TypeOK, StoreTypeOK
<1>2. PICK l \in Seq(Event) : l = lines[p]
  BY Apart, ReadModelAssumption DEF TypeOK, StoreTypeOK
<1>3. writeFailures \in Nat /\ writeFailures' \in Nat /\ Len(m) \in Nat /\ Len(l) \in Nat
  BY EventStoreAssumption DEF TypeOK, StoreTypeOK
<1>4. Past(p) \in Nat /\ Past(p) <= Len(m)
  <2>1. CASE \E t \in Threads : Writes(t, p)
    <3>1. m # <<>>
      BY <1>1, <2>1 DEF LossInv
    <3>2. Len(m) >= 1
      BY <3>1
    <3>3. Past(p) = Len(m) - 1
      BY <1>1, <2>1, PastIs
    <3> QED
      BY <1>3, <3>2, <3>3
  <2>2. CASE \A t \in Threads : ~Writes(t, p)
    BY <1>1, <1>3, <2>2, PastIs
  <2> QED
    BY <2>1, <2>2
<1>5. /\ AmongFirst(l, m, Past(p))
      /\ fileOpen => Past(p) <= Len(l) + writeFailures
      /\ \A t \in Threads : Writes(t, p) => m # <<>> /\ m[Len(m)] = hand[t]
  BY <1>1, <1>2 DEF LossInv
<1>6. CASE Untouched(p)
  <2>1. streams'[p] = m /\ lines'[p] = l
    BY <1>1, <1>2, <1>6 DEF Untouched
  <2>2. Past(p)' = Past(p)
    BY <1>1, <1>3, <1>6, <2>1, PastIs DEF Untouched
  <2>3. fileOpen' => Past(p)' <= Len(l) + writeFailures'
    BY <1>3, <1>4, <1>5, <1>6, <2>2 DEF Untouched
  <2>4. \A t \in Threads : Writes(t, p)' => m # <<>> /\ m[Len(m)] = hand'[t]
    BY <1>5, <1>6 DEF Untouched
  <2> QED
    BY <1>5, <2>1, <2>2, <2>3, <2>4 DEF LossInv
<1>7. ASSUME NEW e \in Event, Begun(p, e) PROVE LossInv(p)'
  <2>1. PICK k \in Seq(Event) : /\ k = Append(m, e) /\ Len(k) = Len(m) + 1
                                /\ k # <<>> /\ k[Len(k)] = e /\ \A i \in 1 .. Len(m) : k[i] = m[i]
    BY AppendIs
  <2>2. /\ Len(k) = Len(m) + 1 /\ k # <<>> /\ k[Len(k)] = e
        /\ \A i \in 1 .. Len(m) : k[i] = m[i]
    BY <2>1
  <2>3. streams'[p] = k /\ lines'[p] = l
    BY <1>1, <1>2, <1>7, <2>1 DEF Begun
  <2>4. Past(p) = Len(m) /\ Past(p)' = Len(m)
    BY <1>1, <1>3, <1>7, <2>2, <2>3, PastIs DEF Begun
  <2>5. AmongFirst(l, k, Len(m))
    <3>1. AmongFirst(l, m, Len(m))
      BY <1>5, <2>4
    <3> QED
      BY <1>3, <2>2, <3>1, AmongMore
  <2>6. fileOpen' => Past(p)' <= Len(l) + writeFailures'
    BY <1>5, <1>7, <2>4 DEF Begun
  <2>7. \A t \in Threads : Writes(t, p)' => k # <<>> /\ k[Len(k)] = hand'[t]
    BY <1>7, <2>2 DEF Begun
  <2> QED
    BY <2>3, <2>4, <2>5, <2>6, <2>7 DEF LossInv
<1>8. ASSUME NEW t \in Threads, Ended(p, t) PROVE LossInv(p)'
  <2>1. m # <<>> /\ hand[t] = m[Len(m)] /\ Len(m) >= 1
    BY <1>3, <1>5, <1>8 DEF Ended
  <2>2. Past(p) = Len(m) - 1 /\ Past(p)' = Len(m) /\ streams'[p] = m
    BY <1>1, <1>3, <1>8, PastIs DEF Ended
  <2>3. \A u \in Threads : Writes(u, p)' => m # <<>> /\ m[Len(m)] = hand'[u]
    BY <1>8 DEF Ended
  <2>4. CASE lines'[p] = Append(lines[p], hand[t]) /\ UNCHANGED <<fileOpen, writeFailures>>
    <3>1. PICK e \in Event : e = hand[t]
      BY <1>8 DEF Ended, TypeOK
    <3>2. PICK k \in Seq(Event) : k = Append(l, e) /\ Len(k) = Len(l) + 1
      BY AppendIs
    <3>3. lines'[p] = k
      BY <1>2, <2>4, <3>1, <3>2
    <3>4. AmongFirst(k, m, Len(m))
      <4>1. PICK n \in Nat : n = Len(m) - 1 /\ n + 1 = Len(m)
        BY <2>1, LastIs
      <4>2. AmongFirst(l, m, n) /\ m[n + 1] = e /\ n + 1 = Len(m)
        BY <1>3, <1>5, <2>1, <2>2, <3>1, <4>1
      <4>3. AmongFirst(Append(l, e), m, n + 1)
        BY <4>2, AmongNext
      <4> QED
        BY <3>2, <4>2, <4>3
    <3>5. fileOpen' => Past(p)' <= Len(k) + writeFailures'
      BY <1>3, <1>5, <2>2, <2>4, <3>2
    <3> QED
      BY <2>2, <2>3, <3>3, <3>4, <3>5 DEF LossInv
  <2>5. CASE /\ lines'[p] = lines[p] /\ fileOpen' = fileOpen
             /\ ~fileOpen \/ writeFailures' = writeFailures + 1
    <3>1. AmongFirst(l, m, Len(m))
      <4>1. PICK n \in Nat : n = Past(p)
        BY <1>4
      <4>2. AmongFirst(l, m, n) /\ n <= Len(m)
        BY <1>4, <1>5, <4>1
      <4> QED
        BY <1>3, <4>2, AmongMore
    <3>2. fileOpen' => Past(p)' <= Len(l) + writeFailures'
      BY <1>3, <1>5, <2>2, <2>5
    <3>3. lines'[p] = l
      BY <1>2, <2>5
    <3> QED
      BY <2>2, <2>3, <3>1, <3>2, <3>3 DEF LossInv
  <2> QED
    BY <1>8, <2>4, <2>5 DEF Ended
<1>9. CASE Reopened(p)
  <2>1. streams'[p] = l /\ lines'[p] = l
    BY <1>2, <1>9 DEF Reopened
  <2>2. Past(p)' = Len(l)
    BY <1>3, <1>9, <2>1, PastIs DEF Reopened
  <2>3. Past(p)' <= Len(l) + writeFailures'
    BY <1>3, <2>2
  <2>4. \A t \in Threads : Writes(t, p)' => l # <<>> /\ l[Len(l)] = hand'[t]
    BY <1>9 DEF Reopened
  <2> QED
    BY <2>1, <2>2, <2>3, <2>4, AmongSame DEF LossInv
<1> QED
  BY <1>6, <1>7, <1>8, <1>9

\* Who writes for p: Create, or else the worker that marks p.
LEMMA OnlyWriter ==
  ASSUME ReadInv, NEW p \in Payments, NEW t \in Threads, Writes(t, p)
  PROVE  (t = p /\ ~Marking(p)) \/ (t = ShardOf[p] /\ Marking(p))
<1>1. step[t] = "file" /\ hand[t].of = p
  BY DEF Writes
<1>2. t \in Payments => t = p
  BY <1>1, WriterFacts
<1>3. t \notin Credits
  <2>1. t \in Credits => hand[t] = Credited(t)
    BY <1>1, WriterFacts
  <2>2. Credited(t).of = t
    BY DEF Credited
  <2> QED
    BY <1>1, <2>1, <2>2, Apart
<1>4. t \in Shards => t = ShardOf[p] /\ Marking(p)
  BY <1>1, WriterFacts
<1>5. t = p => ~Marking(p)
  BY OneWriter
<1>6. CASE t \in Payments
  BY <1>2, <1>5, <1>6
<1>7. CASE t \in Shards
  BY <1>4, <1>7
<1> QED
  BY <1>3, <1>6, <1>7 DEF Threads, Requests

\* A step that leaves the store and the writers alone.
LEMMA LeavesRecords ==
  ASSUME NEW p \in Payments, UNCHANGED <<streams, lines, writeFailures>>, fileOpen' => fileOpen,
         \A t \in Threads : /\ step'[t] = "file" <=> step[t] = "file"
                            /\ step[t] = "file" => hand'[t] = hand[t]
  PROVE  Untouched(p)
  BY DEF Untouched, Writes

\* A goroutine begins to append an event, of a payment for which nobody else writes.
LEMMA BeginsAppend ==
  ASSUME ReadInv, NEW u \in Threads, NEW e \in Event, BeginAppend(u, e), step[u] # "file",
         e.of \in Payments => step[e.of] # "file" /\ ~Marking(e.of),
         NEW p \in Payments
  PROVE  Untouched(p) \/ Begun(p, e)
<1>1. /\ step' = [step EXCEPT ![u] = "file"] /\ hand' = [hand EXCEPT ![u] = e]
      /\ streams' = [streams EXCEPT ![KeyOf(e)] = Append(@, e)]
      /\ UNCHANGED <<lines, fileOpen, writeFailures>>
  BY DEF BeginAppend, AppendToMemory
<1>2. step \in [Threads -> {"ready", "file", "publish", "announce"}] /\ hand \in [Threads -> Event]
      /\ DOMAIN streams = Aggregates /\ p \in Aggregates
  BY Apart DEF ReadInv, TypeOK, StoreTypeOK
<1>3. /\ step'[u] = "file" /\ hand'[u] = e
      /\ \A t \in Threads : t # u => step'[t] = step[t] /\ hand'[t] = hand[t]
  BY <1>1, <1>2
<1>4. CASE e.of = p
  <2>1. KeyOf(e) = p
    BY <1>4, KeyFacts
  <2>2. \A t \in Threads : ~Writes(t, p)
    BY <1>4, OnlyWriter DEF Writes
  <2>3. streams'[p] = Append(streams[p], e) /\ lines'[p] = lines[p]
    BY <1>1, <1>2, <2>1
  <2>4. \A t \in Threads : Writes(t, p)' <=> t = u
    BY <1>3, <1>4, <2>2 DEF Writes
  <2> QED
    BY <1>1, <1>3, <2>2, <2>3, <2>4 DEF Begun
<1>5. CASE e.of # p
  <2>1. KeyOf(e) # p
    BY <1>5, KeyFacts
  <2>2. streams'[p] = streams[p]
    BY <1>1, <1>2, <2>1
  <2>3. \A t \in Threads : (Writes(t, p)' <=> Writes(t, p)) /\ (Writes(t, p) => hand'[t] = hand[t])
    BY <1>3, <1>5 DEF Writes
  <2> QED
    BY <1>1, <2>2, <2>3 DEF Untouched
<1> QED
  BY <1>4, <1>5

LEMMA EndsAppend ==
  ASSUME ReadInv, NEW t \in Threads, FinishAppend(t), NEW p \in Payments
  PROVE  Untouched(p) \/ Ended(p, t)
<1>1. PICK e \in Event : e = hand[t]
  BY DEF ReadInv, TypeOK
<1>2. /\ step[t] = "file" /\ step' = [step EXCEPT ![t] = "publish"]
      /\ hand' = hand /\ streams' = streams /\ fileOpen' = fileOpen
  BY DEF FinishAppend, AppendToFile, FileIsClosed, WriteFails, storeVars
<1>3. \/ lines' = [lines EXCEPT ![KeyOf(e)] = Append(@, e)] /\ writeFailures' = writeFailures
      \/ /\ lines' = lines
         /\ (~fileOpen /\ writeFailures' = writeFailures) \/ writeFailures' = writeFailures + 1
  BY <1>1 DEF FinishAppend, AppendToFile, FileIsClosed, WriteFails, storeVars
<1>4. step \in [Threads -> {"ready", "file", "publish", "announce"}]
      /\ DOMAIN lines = Aggregates /\ p \in Aggregates
  BY Apart DEF ReadInv, TypeOK, StoreTypeOK
<1>5. step'[t] = "publish" /\ \A u \in Threads : u # t => step'[u] = step[u]
  BY <1>2, <1>4
<1>6. CASE e.of = p
  <2>1. KeyOf(e) = p /\ Writes(t, p)
    BY <1>1, <1>2, <1>6, KeyFacts DEF Writes
  <2>2. ASSUME NEW u \in Threads PROVE ~Writes(u, p)'
    <3>1. CASE u = t
      BY <1>5, <3>1 DEF Writes
    <3>2. CASE u # t
      <4>1. ~Writes(u, p)
        BY <2>1, <3>2, OnlyWriter
      <4> QED
        BY <1>2, <1>5, <3>2, <4>1 DEF Writes
    <3> QED
      BY <3>1, <3>2
  <2>3. \/ lines'[p] = Append(lines[p], hand[t]) /\ UNCHANGED <<fileOpen, writeFailures>>
        \/ /\ lines'[p] = lines[p] /\ fileOpen' = fileOpen
           /\ ~fileOpen \/ writeFailures' = writeFailures + 1
    BY <1>1, <1>2, <1>3, <1>4, <2>1
  <2> QED
    BY <1>2, <2>1, <2>2, <2>3 DEF Ended
<1>7. CASE e.of # p
  <2>1. KeyOf(e) # p
    BY <1>7, KeyFacts
  <2>2. lines'[p] = lines[p]
    BY <1>3, <1>4, <2>1
  <2>3. \A u \in Threads : Writes(u, p)' <=> Writes(u, p)
    BY <1>1, <1>2, <1>5, <1>7 DEF Writes
  <2> QED
    BY <1>2, <1>3, <2>2, <2>3 DEF Untouched
<1> QED
  BY <1>6, <1>7

\* What each step does to the records of a payment.
RecordStep(p) ==
  \/ Untouched(p) \/ Reopened(p)
  \/ \E e \in Event : Begun(p, e)
  \/ \E t \in Threads : Ended(p, t)

LEMMA NewEvent ==
  ASSUME NEW name \in StatusEvents \union MovementEvents, NEW r \in Requests
  PROVE  \E e \in Event : e = [name |-> name, of |-> r] /\ e.of = r
<1>1. [name |-> name, of |-> r] \in Event
  BY EventFacts
<1> QED
  BY <1>1

LEMMA CreateSaveRecords ==
  ASSUME ReadInv, NEW r \in Payments, CreateSave(r), NEW p \in Payments
  PROVE  RecordStep(p)
<1>1. PICK e \in Event : e = [name |-> "payment.created", of |-> r] /\ e.of = r
  BY Apart, NewEvent DEF StatusEvents
<1>2. BeginAppend(r, e) /\ http[r] = "start"
  BY <1>1 DEF CreateSave
<1>3. step[r] = "ready" /\ Waiting(r) \intersect About(r) = {}
  BY <1>2 DEF ReadInv, PaymentInv, CreateFirst
<1>4. ~Marking(r)
  BY <1>3, MarkingHead DEF ReadInv
<1> QED
  BY <1>1, <1>2, <1>3, <1>4, Apart, BeginsAppend DEF RecordStep

LEMMA CreateRecords ==
  ASSUME ReadInv, NEW r \in Payments, CreateGoesOn(r), NEW p \in Payments
  PROVE  RecordStep(p)
<1>1. r \in Threads /\ step \in [Threads -> {"ready", "file", "publish", "announce"}]
      /\ hand \in [Threads -> Event]
  BY Apart DEF ReadInv, TypeOK
<1>2. CASE CreatePublishCreated(r)
  <2>1. PICK e \in Event : e = [name |-> "payment.initialized", of |-> r] /\ e.of = r
    BY Apart, NewEvent DEF StatusEvents
  <2>2. BeginAppend(r, e) /\ step[r] = "publish"
    BY <1>2, <2>1 DEF CreatePublishCreated, AtPublish
  <2>3. Waiting(r) \intersect Workflow(r) = {}
    BY <2>2 DEF ReadInv, PaymentInv, CreateFirst
  <2>4. ~Marking(r)
    BY <2>3, MarkingHead DEF ReadInv
  <2> QED
    BY <1>1, <2>1, <2>2, <2>4, BeginsAppend DEF RecordStep
<1>3. CASE CreatePublishInitialized(r) \/ CreateAnnounce(r)
  <2>1. /\ UNCHANGED <<streams, lines, writeFailures>> /\ fileOpen' = fileOpen
        /\ \A t \in Threads : /\ step'[t] = "file" <=> step[t] = "file"
                              /\ step[t] = "file" => hand'[t] = hand[t]
    BY <1>1, <1>3 DEF CreatePublishInitialized, CreateAnnounce, AtPublish, PutDown, storeVars
  <2> QED
    BY <2>1, LeavesRecords DEF RecordStep
<1> QED
  BY <1>2, <1>3 DEF CreateGoesOn

LEMMA CreditRecords ==
  ASSUME ReadInv, NEW c \in Credits, CreditSave(c) \/ CreditPublish(c), NEW p \in Payments
  PROVE  RecordStep(p)
<1>1. c \in Threads /\ c \in Requests /\ c \notin Payments
      /\ step \in [Threads -> {"ready", "file", "publish", "announce"}]
      /\ hand \in [Threads -> Event]
  BY Apart DEF ReadInv, TypeOK
<1>2. CASE CreditSave(c)
  <2>1. PICK e \in Event : e = [name |-> "wallet.credited", of |-> c] /\ e.of = c
    BY <1>1, NewEvent DEF MovementEvents
  <2>2. BeginAppend(c, e) /\ http[c] = "start"
    BY <1>2, <2>1 DEF CreditSave
  <2>3. step[c] = "ready"
    BY <1>1, <2>2 DEF ReadInv, RequestsOwn
  <2> QED
    BY <1>1, <2>1, <2>2, <2>3, BeginsAppend DEF RecordStep
<1>3. CASE CreditPublish(c)
  <2>1. /\ UNCHANGED <<streams, lines, writeFailures>> /\ fileOpen' = fileOpen
        /\ \A t \in Threads : /\ step'[t] = "file" <=> step[t] = "file"
                              /\ step[t] = "file" => hand'[t] = hand[t]
    BY <1>1, <1>3 DEF CreditPublish, AtPublish, PutDown, storeVars
  <2> QED
    BY <2>1, LeavesRecords DEF RecordStep
<1> QED
  BY <1>2, <1>3

LEMMA WorkerRecords ==
  ASSUME ReadInv, NEW s \in Shards, Worker(s) \/ Recover(s), NEW p \in Payments
  PROVE  RecordStep(p)
<1>1. s \in Threads /\ step \in [Threads -> {"ready", "file", "publish", "announce"}]
      /\ hand \in [Threads -> Event]
  BY Apart DEF ReadInv, TypeOK
<1>2. CASE MarkSave(s)
  <2>1. PICK q \in Seq(Delivery) : q = queue[s]
    BY DEF ReadInv, TypeOK
  <2>2. PICK r : r = Head(q).event.of
    OBVIOUS
  <2>3. PICK name : name = Head(q).event.name
    OBVIOUS
  <2>4. /\ Takes(s, "workflow") /\ name \in DOMAIN Marks /\ step[s] = "ready" /\ q # <<>>
        /\ Head(q).to = "workflow"
    BY <1>2, <2>1, <2>3 DEF MarkSave, Takes
  <2>5. r \in Payments /\ ShardOf[r] = s /\ Head(q) \in Workflow(r) /\ Head(q) \in Waiting(r)
    BY <2>1, <2>2, <2>3, <2>4, WorkAhead
  <2>6. PICK e \in Event : e = [name |-> Marks[name], of |-> r] /\ e.of = r
    BY <2>4, <2>5, Apart, EventFacts, NewEvent
  <2>7. BeginAppend(s, e)
    BY <1>2, <2>1, <2>2, <2>3, <2>6 DEF MarkSave
  <2>8. step[r] # "file"
    BY <2>5, AtWork
  <2>9. ~Marking(r)
    BY <2>4, <2>5 DEF Marking
  <2> QED
    BY <1>1, <2>4, <2>6, <2>7, <2>8, <2>9, BeginsAppend DEF RecordStep
<1>3. ASSUME ~MarkSave(s) PROVE RecordStep(p)
  <2>1. ASSUME NEW outcome, HandleMoney(s, outcome) PROVE UNCHANGED <<step, hand, storeVars>>
    BY <2>1 DEF HandleMoney
  <2>2. Recover(s) => UNCHANGED <<step, hand, storeVars>>
    BY DEF Recover
  <2>3. ProjectStatus(s) => UNCHANGED <<step, hand, storeVars>>
    BY DEF ProjectStatus
  <2>4. ProjectMovement(s) => UNCHANGED <<step, hand, storeVars>>
    BY DEF ProjectMovement
  <2>5. MarkPublish(s) \/ UNCHANGED <<step, hand, storeVars>>
    BY <1>3, <2>1, <2>2, <2>3, <2>4 DEF Worker
  <2>6. /\ UNCHANGED <<streams, lines, writeFailures>> /\ fileOpen' = fileOpen
        /\ \A t \in Threads : /\ step'[t] = "file" <=> step[t] = "file"
                              /\ step[t] = "file" => hand'[t] = hand[t]
    BY <1>1, <2>5 DEF MarkPublish, PutDown, storeVars
  <2> QED
    BY <2>6, LeavesRecords DEF RecordStep
<1> QED
  BY <1>2, <1>3

LEMMA RestartRecords ==
  ASSUME ReadInv, Restart, NEW p \in Payments
  PROVE  RecordStep(p)
<1>1. streams' = lines /\ UNCHANGED <<lines, writeFailures>> /\ \A t \in Threads : step'[t] = "ready"
  BY DEF Restart, ReopenStore
<1> QED
  BY <1>1 DEF RecordStep, Reopened, Writes

LEMMA NextRecords ==
  ASSUME ReadInv, [Next]_vars, NEW p \in Payments
  PROVE  RecordStep(p)
<1>1. ASSUME NEW r \in Payments, CreateSave(r) \/ CreateGoesOn(r) PROVE RecordStep(p)
  BY <1>1, CreateSaveRecords, CreateRecords
<1>2. ASSUME NEW c \in Credits, CreditSave(c) \/ CreditPublish(c) PROVE RecordStep(p)
  BY <1>2, CreditRecords
<1>3. ASSUME NEW s \in Shards, Worker(s) \/ Recover(s) PROVE RecordStep(p)
  BY <1>3, WorkerRecords
<1>4. ASSUME NEW t \in Threads, FinishAppend(t) PROVE RecordStep(p)
  BY <1>4, EndsAppend DEF RecordStep
<1>5. CASE Shutdown
  BY <1>5, LeavesRecords DEF Shutdown, CloseStore, readVars, RecordStep
<1>6. CASE Restart
  BY <1>6, RestartRecords
<1>7. CASE UNCHANGED vars
  BY <1>7, LeavesRecords DEF vars, readVars, storeVars, RecordStep
<1> QED
  BY <1>1, <1>2, <1>3, <1>4, <1>5, <1>6, <1>7 DEF Next

LEMMA InitLosses ==
  ASSUME Init, NEW p \in Payments
  PROVE  LossInv(p)
<1>1. streams[p] = <<>> /\ lines[p] = <<>> /\ writeFailures = 0
  BY Apart DEF Init, StoreInit
<1>2. \A t \in Threads : ~Writes(t, p)
  BY DEF Init, Writes
<1>3. Past(p) = Len(<<>>) - 0
  BY <1>1, <1>2, PastIs
<1>4. Past(p) = 0 /\ Len(<<>>) = 0
  BY <1>3
<1> QED
  BY <1>1, <1>2, <1>4 DEF LossInv, AmongFirst

\* What the file has of a payment is in the order of the memory and lacks, until main
\* closes it, one record at most for each write that failed, whichever requests and
\* workers append at the same time, and over restarts (kit/db/store.go:124-147,
\* NewWithFile).
THEOREM LossesCounted ==
  ASSUME Requests # {}
  PROVE  Spec => []FailuresLoseTheirOwn
<1> DEFINE I == \A p \in Payments : LossInv(p)
<1>1. Init => I
  BY InitLosses
<1>2. ASSUME ReadInv, ReadInv', I, [Next]_vars PROVE I'
  <2>1. TypeOK /\ TypeOK'
    BY <1>2 DEF ReadInv
  <2>2. ASSUME NEW p \in Payments PROVE LossInv(p)'
    <3>1. RecordStep(p)
      BY <1>2, NextRecords
    <3> QED
      BY <1>2, <2>1, <3>1, LossKept DEF RecordStep
  <2> QED
    BY <2>2
<1>3. I => FailuresLoseTheirOwn
  BY DEF LossInv, FailuresLoseTheirOwn
<1> HIDE DEF I
<1> QED
  BY <1>1, <1>2, <1>3, InStep, PTL DEF Spec

================================================================================
