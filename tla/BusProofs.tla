------------------------------ MODULE BusProofs ------------------------------
(***************************************************************************)
(* Proofs about Bus, for any number of shards, publishers, events and      *)
(* handlers, any capacity and any limit on attempts.                       *)
(*                                                                         *)
(* SettledInOrder is inductive together with TypeOK: while the bus is      *)
(* open, a delivery moves from the end of the log to the channel, to the   *)
(* worker's hand and to the settled part without a gap.  On top of it      *)
(* FollowUpInv keeps an account of each cause and follow-up: what is ahead *)
(* of a handler, what it has behind it, and what failures have paid for.   *)
(* The refinement of EventLines needs TriesLeft besides.                   *)
(***************************************************************************)
EXTENDS Bus, FiniteSetTheorems, TLAPS

\* The inductive invariant.
BusInv == TypeOK /\ SettledInOrder

-----------------------------------------------------------------------------
(* Sequences and deliveries. *)

\* The head and the tail of a sequence that is not empty.
LEMMA HeadTail ==
  ASSUME NEW M, NEW q \in Seq(M), q # <<>>
  PROVE  /\ Head(q) \in M /\ Tail(q) \in Seq(M)
         /\ Len(q) > 0 /\ Head(q) = q[1]
         /\ Len(Tail(q)) = Len(q) - 1
         /\ \A i \in DOMAIN Tail(q) : i + 1 \in DOMAIN q /\ Tail(q)[i] = q[i + 1]
  OBVIOUS

\* A sequence with a member appended.
LEMMA Appended ==
  ASSUME NEW M, NEW q \in Seq(M), NEW m \in M
  PROVE  /\ Append(q, m) \in Seq(M)
         /\ Len(Append(q, m)) = Len(q) + 1
         /\ Append(q, m)[Len(q) + 1] = m
         /\ \A i \in DOMAIN q : i \in DOMAIN Append(q, m) /\ Append(q, m)[i] = q[i]
         /\ \A i \in DOMAIN Append(q, m) : i \in DOMAIN q \/ i = Len(q) + 1
  OBVIOUS

\* What a delivery consists of.
LEMMA DeliveryFacts ==
  ASSUME NEW d \in Delivery
  PROVE  d.ev \in Events /\ ShardOf[d.ev] \in Shards /\ ReactionTo(d) \in Seq(Events)
<1>1. PICK e \in Events : d \in [ev : {e}, handler : DOMAIN Reactions[e]]
  BY DEF Delivery
<1>2. d.ev = e /\ d.handler \in DOMAIN Reactions[e]
  BY <1>1
<1>3. Reactions[e] \in Seq(Seq(Events))
  BY BusAssumption
<1>4. Reactions[e][d.handler] \in Seq(Events)
  BY <1>2, <1>3
<1> QED
  BY <1>2, <1>4, BusAssumption DEF ReactionTo

\* Publish makes a sequence of deliveries of an event.
LEMMA DeliveriesType ==
  ASSUME NEW e \in Events
  PROVE  Deliveries(e) \in Seq(Delivery)
<1>1. Reactions[e] \in Seq(Seq(Events))
  BY BusAssumption
<1>2. \A i \in DOMAIN Reactions[e] : [ev |-> e, handler |-> i] \in Delivery
  BY DEF Delivery
<1>3. DOMAIN Reactions[e] = 1 .. Len(Reactions[e]) /\ Len(Reactions[e]) \in Nat
  BY <1>1
<1> QED
  BY <1>2, <1>3 DEF Deliveries

\* The channel q holds what the log l has after its first n deliveries.
InLine(l, q, n) ==
  /\ Len(l) = n + Len(q)
  /\ \A i \in DOMAIN q : q[i] = l[n + i]

\* Appended to both, a delivery keeps the channel in line with the log.
LEMMA AppendInLine ==
  ASSUME NEW M, NEW l \in Seq(M), NEW q \in Seq(M), NEW d \in M, NEW n \in Nat,
         InLine(l, q, n)
  PROVE  /\ InLine(Append(l, d), Append(q, d), n)
         /\ \A i \in 1 .. n : Append(l, d)[i] = l[i]
<1>1. /\ Len(q) \in Nat /\ DOMAIN q = 1 .. Len(q)
      /\ Len(l) \in Nat /\ DOMAIN l = 1 .. Len(l)
  OBVIOUS
<1>2. Len(l) = n + Len(q) /\ \A i \in DOMAIN q : q[i] = l[n + i]
  BY DEF InLine
<1>3. /\ Len(Append(q, d)) = Len(q) + 1
      /\ Append(q, d)[Len(q) + 1] = d
      /\ \A i \in DOMAIN q : Append(q, d)[i] = q[i]
      /\ \A i \in DOMAIN Append(q, d) : i \in DOMAIN q \/ i = Len(q) + 1
  BY Appended
<1>4. /\ Len(Append(l, d)) = Len(l) + 1
      /\ Append(l, d)[Len(l) + 1] = d
      /\ \A i \in DOMAIN l : Append(l, d)[i] = l[i]
  BY Appended
<1> DEFINE q2 == Append(q, d)
           l2 == Append(l, d)
<1> HIDE DEF q2, l2
<1>5. ASSUME NEW i \in DOMAIN q2 PROVE q2[i] = l2[n + i]
  <2>1. CASE i \in DOMAIN q
    <3>1. n + i \in DOMAIN l
      BY <1>1, <1>2, <2>1
    <3> QED
      BY <1>2, <1>3, <1>4, <2>1, <3>1 DEF q2, l2
  <2>2. CASE i = Len(q) + 1
    <3>1. n + i = Len(l) + 1
      BY <1>1, <1>2, <2>2
    <3> QED
      BY <1>3, <1>4, <2>2, <3>1 DEF q2, l2
  <2> QED
    BY <1>3, <2>1, <2>2 DEF q2
<1>6. ASSUME NEW i \in 1 .. n PROVE l2[i] = l[i]
  <2>1. i \in DOMAIN l
    BY <1>1, <1>2
  <2> QED
    BY <1>4, <2>1 DEF l2
<1>7. Len(l2) = n + Len(q2)
  BY <1>1, <1>2, <1>3, <1>4 DEF l2, q2
<1>8. InLine(l2, q2, n)
  BY <1>5, <1>7 DEF InLine
<1> QED
  BY <1>6, <1>8 DEF l2, q2

\* The head of the channel is the next in the log, and the tail follows it.
LEMMA TakeInLine ==
  ASSUME NEW M, NEW l \in Seq(M), NEW q \in Seq(M), q # <<>>, NEW n \in Nat,
         InLine(l, q, n)
  PROVE  InLine(l, Tail(q), n + 1) /\ Head(q) = l[n + 1]
<1> USE DEF InLine
<1>1. /\ Len(q) \in Nat /\ Len(q) > 0 /\ DOMAIN q = 1 .. Len(q)
      /\ Tail(q) \in Seq(M) /\ Len(Tail(q)) = Len(q) - 1 /\ Head(q) = q[1]
      /\ \A i \in DOMAIN Tail(q) : i \in Nat /\ i + 1 \in DOMAIN q /\ Tail(q)[i] = q[i + 1]
  OBVIOUS
<1>2. ASSUME NEW i \in DOMAIN Tail(q) PROVE Tail(q)[i] = l[n + 1 + i]
  <2>1. i \in Nat /\ i + 1 \in DOMAIN q /\ Tail(q)[i] = q[i + 1]
    BY <1>1
  <2>2. q[i + 1] = l[n + (i + 1)]
    BY <2>1
  <2>3. n + (i + 1) = n + 1 + i
    BY <2>1
  <2> QED
    BY <2>1, <2>2, <2>3
<1>3. Len(l) = n + 1 + Len(Tail(q))
  BY <1>1
<1>4. Head(q) = l[n + 1]
  BY <1>1
<1> QED
  BY <1>2, <1>3, <1>4

-----------------------------------------------------------------------------
(* The initial states, and each action. *)

\* The bus starts empty.
LEMMA InitInv == Init => BusInv
<1> SUFFICES ASSUME Init PROVE BusInv
  OBVIOUS
<1>1. /\ queue = [s \in Shards |-> <<>>]
      /\ sending = [t \in Threads |-> <<>>]
      /\ pc = [s \in Shards |-> "idle"]
      /\ current = [s \in Shards |-> Nothing]
      /\ log = [s \in Shards |-> <<>>]
      /\ settled = [s \in Shards |-> 0]
      /\ attempt = [s \in Shards |-> 0]
      /\ failures = 0
  BY DEF Init
<1>2. agenda \in [Threads -> Seq(Events)]
  <2>1. \A t \in Publishers : Script[t] \in Seq(Events)
    BY BusAssumption
  <2> QED
    BY <2>1 DEF Init
<1>3. done \in BOOLEAN
  BY DEF Init
<1>4. TypeOK
  BY <1>1, <1>2, <1>3, BusAssumption DEF TypeOK
<1>5. SettledInOrder
  <2>1. InHand = [s \in Shards |-> 0]
    BY <1>1 DEF InHand
  <2> SUFFICES ASSUME NEW s \in Shards
               PROVE  /\ Len(log[s]) = settled[s] + InHand[s] + Len(queue[s])
                      /\ InHand[s] # 1
                      /\ DOMAIN queue[s] = {}
    BY DEF SettledInOrder
  <2>2. Len(log[s]) = 0 /\ Len(queue[s]) = 0 /\ settled[s] = 0 /\ InHand[s] = 0
    BY <1>1, <2>1
  <2> QED
    BY <1>1, <2>2
<1> QED
  BY <1>4, <1>5 DEF BusInv

\* Setting out on a Publish touches no shard.
LEMMA StartPublishInv ==
  ASSUME BusInv, NEW t \in Threads, StartPublish(t)
  PROVE  BusInv'
<1>1. /\ sending' = [sending EXCEPT ![t] = Deliveries(Head(agenda[t]))]
      /\ agenda' = [agenda EXCEPT ![t] = Tail(agenda[t])]
      /\ UNCHANGED <<busVars, workerVars, done>>
      /\ agenda[t] # <<>> /\ agenda[t] \in Seq(Events)
  BY DEF StartPublish, BusInv, TypeOK
<1>2. Head(agenda[t]) \in Events /\ Tail(agenda[t]) \in Seq(Events)
  BY <1>1, HeadTail
<1>3. Deliveries(Head(agenda[t])) \in Seq(Delivery)
  BY <1>2, DeliveriesType
<1>4. TypeOK'
  BY <1>1, <1>2, <1>3 DEF BusInv, TypeOK, busVars, workerVars
<1>5. SettledInOrder'
  BY <1>1 DEF BusInv, SettledInOrder, InHand, busVars, workerVars
<1> QED
  BY <1>4, <1>5 DEF BusInv

\* An enqueued delivery is the last of its channel and of its log.
LEMMA EnqueueInv ==
  ASSUME BusInv, NEW t \in Threads, Enqueue(t)
  PROVE  BusInv'
<1> DEFINE d == Head(sending[t])
           s == ShardOf[d.ev]
<1>1. /\ sending[t] # <<>> /\ sending[t] \in Seq(Delivery)
      /\ Len(queue[s]) < Capacity
      /\ queue' = [queue EXCEPT ![s] = Append(queue[s], d)]
      /\ log' = [log EXCEPT ![s] = Append(log[s], d)]
      /\ sending' = [sending EXCEPT ![t] = Tail(sending[t])]
      /\ UNCHANGED <<workerVars, agenda, done>>
  BY DEF Enqueue, BusInv, TypeOK
<1>2. d \in Delivery /\ s \in Shards /\ Tail(sending[t]) \in Seq(Delivery)
  BY <1>1, HeadTail, DeliveryFacts
<1> HIDE DEF d, s
<1>3. queue[s] \in Seq(Delivery) /\ log[s] \in Seq(Delivery)
  BY <1>2 DEF BusInv, TypeOK
<1>4. /\ queue'[s] = Append(queue[s], d) /\ log'[s] = Append(log[s], d)
      /\ \A r \in Shards \ {s} : queue'[r] = queue[r] /\ log'[r] = log[r]
  BY <1>1, <1>2 DEF BusInv, TypeOK
<1>5. TypeOK'
  <2>1. /\ queue' \in [Shards -> Seq(Delivery)] /\ log' \in [Shards -> Seq(Delivery)]
        /\ sending' \in [Threads -> Seq(Delivery)]
    BY <1>1, <1>2, <1>3, Appended DEF BusInv, TypeOK
  <2>2. \A r \in Shards : Len(queue'[r]) <= Capacity
    <3>1. Len(queue'[s]) = Len(queue[s]) + 1 /\ Len(queue[s]) \in Nat
      BY <1>2, <1>3, <1>4, Appended
    <3> QED
      BY <1>1, <1>4, <3>1, BusAssumption DEF BusInv, TypeOK
  <2> QED
    BY <1>1, <2>1, <2>2 DEF BusInv, TypeOK, workerVars
<1>6. SettledInOrder'
  <2>0. InHand' = InHand /\ done' = done /\ settled' = settled /\ current' = current
    BY <1>1 DEF InHand, workerVars
  <2> SUFFICES ASSUME ~done, NEW r \in Shards
               PROVE  /\ Len(log'[r]) = settled[r] + InHand[r] + Len(queue'[r])
                      /\ InHand[r] = 1 => current[r] = log'[r][settled[r] + 1]
                      /\ \A i \in DOMAIN queue'[r] :
                           queue'[r][i] = log'[r][settled[r] + InHand[r] + i]
    BY <2>0 DEF SettledInOrder
  <2>1. /\ Len(log[r]) = settled[r] + InHand[r] + Len(queue[r])
        /\ InHand[r] = 1 => current[r] = log[r][settled[r] + 1]
        /\ \A i \in DOMAIN queue[r] : queue[r][i] = log[r][settled[r] + InHand[r] + i]
    BY DEF BusInv, SettledInOrder
  <2>2. settled[r] \in Nat /\ InHand[r] \in {0, 1} /\ Len(queue[r]) \in Nat
    BY DEF BusInv, TypeOK, InHand
  <2>3. CASE r = s
    <3>1. log'[r] = Append(log[r], d) /\ queue'[r] = Append(queue[r], d)
      BY <1>4, <2>3
    <3>2. log[r] \in Seq(Delivery) /\ queue[r] \in Seq(Delivery)
      BY <1>3, <2>3
    <3> DEFINE n == settled[r] + InHand[r]
    <3>3. n \in Nat /\ (InHand[r] = 1 => settled[r] + 1 \in 1 .. n)
      BY <2>2
    <3>4. InLine(log[r], queue[r], n)
      BY <2>1 DEF InLine
    <3>5. InLine(log'[r], queue'[r], n) /\ \A i \in 1 .. n : log'[r][i] = log[r][i]
      <4> DEFINE l == log[r]
                 q == queue[r]
      <4>1. n \in Nat /\ l \in Seq(Delivery) /\ q \in Seq(Delivery) /\ d \in Delivery
            /\ InLine(l, q, n) /\ log'[r] = Append(l, d) /\ queue'[r] = Append(q, d)
        BY <1>2, <3>1, <3>2, <3>3, <3>4
      <4> HIDE DEF n, l, q
      <4>2. InLine(Append(l, d), Append(q, d), n)
        BY <4>1, AppendInLine
      <4>3. \A i \in 1 .. n : Append(l, d)[i] = l[i]
        BY <4>1, AppendInLine
      <4> QED
        BY <4>1, <4>2, <4>3 DEF l
    <3> QED
      BY <2>1, <3>3, <3>5 DEF InLine
  <2>4. CASE r # s
    BY <1>4, <2>1, <2>4
  <2> QED
    BY <2>3, <2>4
<1> QED
  BY <1>5, <1>6 DEF BusInv

\* A refused delivery touches no shard.
LEMMA RefuseClosedInv ==
  ASSUME BusInv, NEW t \in Threads, RefuseClosed(t)
  PROVE  BusInv'
<1>1. /\ sending' = [sending EXCEPT ![t] = Tail(sending[t])]
      /\ UNCHANGED <<busVars, workerVars, agenda, done>>
      /\ sending[t] # <<>> /\ sending[t] \in Seq(Delivery)
  BY DEF RefuseClosed, BusInv, TypeOK
<1>2. Tail(sending[t]) \in Seq(Delivery)
  BY <1>1, HeadTail
<1>3. TypeOK'
  BY <1>1, <1>2 DEF BusInv, TypeOK, busVars, workerVars
<1>4. SettledInOrder'
  BY <1>1 DEF BusInv, SettledInOrder, InHand, busVars, workerVars
<1> QED
  BY <1>3, <1>4 DEF BusInv

\* A worker takes the head of its channel, which is the next in the log.
LEMMA ReceiveInv ==
  ASSUME BusInv, NEW s \in Shards, Receive(s)
  PROVE  BusInv'
<1> DEFINE d == Head(queue[s])
<1>1. /\ pc[s] = "idle" /\ queue[s] # <<>> /\ queue[s] \in Seq(Delivery)
      /\ log[s] \in Seq(Delivery) /\ settled[s] \in Nat
      /\ current' = [current EXCEPT ![s] = d]
      /\ agenda' = [agenda EXCEPT ![s] = ReactionTo(d)]
      /\ queue' = [queue EXCEPT ![s] = Tail(queue[s])]
      /\ pc' = [pc EXCEPT ![s] = "running"]
      /\ attempt' = [attempt EXCEPT ![s] = 0]
      /\ UNCHANGED <<sending, done, failures, log, settled>>
  BY DEF Receive, BusInv, TypeOK
<1>2. /\ d \in Delivery /\ Tail(queue[s]) \in Seq(Delivery)
      /\ Len(Tail(queue[s])) = Len(queue[s]) - 1 /\ Len(queue[s]) \in Nat
  BY <1>1, HeadTail
<1>3. ReactionTo(d) \in Seq(Events)
  BY <1>2, DeliveryFacts
<1> HIDE DEF d
<1>4. TypeOK'
  <2>1. /\ queue' \in [Shards -> Seq(Delivery)]
        /\ \A r \in Shards : Len(queue'[r]) <= Capacity
    BY <1>1, <1>2, BusAssumption DEF BusInv, TypeOK
  <2>2. /\ agenda' \in [Threads -> Seq(Events)]
        /\ pc' \in [Shards -> {"idle", "running", "backoff", "exited"}]
        /\ current' \in [Shards -> Delivery \union {Nothing}]
        /\ \A r \in Shards : pc'[r] \in {"running", "backoff"} => current'[r] \in Delivery
        /\ attempt' \in [Shards -> Nat]
    BY <1>1, <1>2, <1>3 DEF BusInv, TypeOK
  <2> QED
    BY <1>1, <2>1, <2>2 DEF BusInv, TypeOK
<1>5. SettledInOrder'
  <2>1. /\ InHand[s] = 0 /\ InHand'[s] = 1
        /\ \A r \in Shards \ {s} : InHand'[r] = InHand[r]
    BY <1>1 DEF InHand, BusInv, TypeOK
  <2>2. /\ queue'[s] = Tail(queue[s]) /\ current'[s] = d
        /\ \A r \in Shards \ {s} : queue'[r] = queue[r] /\ current'[r] = current[r]
    BY <1>1 DEF BusInv, TypeOK
  <2> SUFFICES ASSUME ~done, NEW r \in Shards
               PROVE  /\ Len(log[r]) = settled[r] + InHand'[r] + Len(queue'[r])
                      /\ InHand'[r] = 1 => current'[r] = log[r][settled[r] + 1]
                      /\ \A i \in DOMAIN queue'[r] :
                           queue'[r][i] = log[r][settled[r] + InHand'[r] + i]
    BY <1>1 DEF SettledInOrder
  <2>3. /\ Len(log[r]) = settled[r] + InHand[r] + Len(queue[r])
        /\ InHand[r] = 1 => current[r] = log[r][settled[r] + 1]
        /\ \A i \in DOMAIN queue[r] : queue[r][i] = log[r][settled[r] + InHand[r] + i]
    BY DEF BusInv, SettledInOrder
  <2>4. CASE r = s
    <3>1. settled[s] + InHand[s] = settled[s]
      BY <1>1, <2>1
    <3>2. InLine(log[s], queue[s], settled[s])
      BY <2>3, <2>4, <3>1 DEF InLine
    <3>3. InLine(log[s], Tail(queue[s]), settled[s] + 1) /\ Head(queue[s]) = log[s][settled[s] + 1]
      BY <1>1, <3>2, TakeInLine
    <3> QED
      BY <2>1, <2>2, <2>4, <3>3 DEF d, InLine
  <2>5. CASE r # s
    BY <2>1, <2>2, <2>3, <2>5
  <2> QED
    BY <2>4, <2>5
<1> QED
  BY <1>4, <1>5 DEF BusInv

\* The worker of s is finished with the delivery in hand.
LEMMA FinishInOrder ==
  ASSUME BusInv, NEW s \in Shards, pc[s] = "running",
         pc' = [pc EXCEPT ![s] = "idle"],
         settled' = [settled EXCEPT ![s] = settled[s] + 1],
         UNCHANGED <<queue, log, current, done>>
  PROVE  SettledInOrder'
<1>1. /\ InHand[s] = 1 /\ InHand'[s] = 0 /\ settled[s] \in Nat
      /\ settled'[s] = settled[s] + 1
      /\ \A r \in Shards \ {s} : InHand'[r] = InHand[r] /\ settled'[r] = settled[r]
  BY DEF InHand, BusInv, TypeOK
<1> SUFFICES ASSUME ~done, NEW r \in Shards
             PROVE  /\ Len(log[r]) = settled'[r] + InHand'[r] + Len(queue[r])
                    /\ InHand'[r] = 1 => current[r] = log[r][settled'[r] + 1]
                    /\ \A i \in DOMAIN queue[r] :
                         queue[r][i] = log[r][settled'[r] + InHand'[r] + i]
  BY DEF SettledInOrder
<1>2. /\ Len(log[r]) = settled[r] + InHand[r] + Len(queue[r])
      /\ InHand[r] = 1 => current[r] = log[r][settled[r] + 1]
      /\ \A i \in DOMAIN queue[r] : queue[r][i] = log[r][settled[r] + InHand[r] + i]
  BY DEF BusInv, SettledInOrder
<1>3. CASE r = s
  <2>1. settled'[r] + InHand'[r] = settled[r] + InHand[r]
    BY <1>1, <1>3
  <2> QED
    BY <1>1, <1>2, <1>3, <2>1
<1>4. CASE r # s
  BY <1>1, <1>2, <1>4
<1> QED
  BY <1>3, <1>4

\* A step of a worker that keeps what it has in hand.
LEMMA HoldInOrder ==
  ASSUME BusInv, InHand' = InHand, UNCHANGED <<queue, log, current, settled, done>>
  PROVE  SettledInOrder'
  BY DEF BusInv, SettledInOrder

\* A handler that returns finishes its delivery.
LEMMA HandlerReturnsInv ==
  ASSUME BusInv, NEW s \in Shards, HandlerReturns(s)
  PROVE  BusInv'
<1>1. TypeOK'
  BY DEF HandlerReturns, BetweenCalls, busVars, BusInv, TypeOK
<1>2. SettledInOrder'
  BY FinishInOrder DEF HandlerReturns, BetweenCalls, busVars
<1> QED
  BY <1>1, <1>2 DEF BusInv

\* A handler that fails keeps its delivery in hand, or gives it up at the last
\* attempt.
LEMMA HandlerFailsInv ==
  ASSUME BusInv, NEW s \in Shards, HandlerFails(s)
  PROVE  BusInv'
<1>1. /\ pc[s] = "running" /\ failures' \in 0 .. MaxFailures
      /\ UNCHANGED <<queue, log, current, sending, done>>
      /\ agenda' \in [Threads -> Seq(Events)]
      /\ attempt' \in [Shards -> Nat]
  <2>1. failures' = failures + 1 /\ failures < MaxFailures /\ failures \in 0 .. MaxFailures
    BY DEF HandlerFails, BusInv, TypeOK
  <2>2. failures' \in 0 .. MaxFailures
    BY <2>1, BusAssumption
  <2>3. /\ pc[s] = "running"
        /\ UNCHANGED <<queue, log, current, sending, done>>
        /\ agenda' = [agenda EXCEPT ![s] = <<>>]
        /\ attempt' = [attempt EXCEPT ![s] = attempt[s] + 1]
    BY DEF HandlerFails, BetweenCalls, busVars
  <2>4. agenda' \in [Threads -> Seq(Events)]
    <3>1. agenda \in [Threads -> Seq(Events)] /\ <<>> \in Seq(Events)
      BY DEF BusInv, TypeOK
    <3> QED
      BY <2>3, <3>1
  <2>5. attempt' \in [Shards -> Nat]
    BY <2>3 DEF BusInv, TypeOK
  <2> QED
    BY <2>2, <2>3, <2>4, <2>5
<1>2. CASE /\ pc' = [pc EXCEPT ![s] = "idle"]
           /\ settled' = [settled EXCEPT ![s] = settled[s] + 1]
  <2>1. TypeOK'
    BY <1>1, <1>2 DEF BusInv, TypeOK
  <2> QED
    BY <1>1, <1>2, <2>1, FinishInOrder DEF BusInv
<1>3. CASE pc' = [pc EXCEPT ![s] = "backoff"] /\ settled' = settled
  <2>1. TypeOK'
    BY <1>1, <1>3 DEF BusInv, TypeOK
  <2>2. InHand' = InHand
    BY <1>1, <1>3 DEF InHand, BusInv, TypeOK
  <2> QED
    BY <1>1, <1>3, <2>1, <2>2, HoldInOrder DEF BusInv
<1> QED
  BY <1>2, <1>3 DEF HandlerFails

\* A retry keeps the delivery in hand.
LEMMA BackoffOverInv ==
  ASSUME BusInv, NEW s \in Shards, BackoffOver(s)
  PROVE  BusInv'
<1>1. /\ pc[s] = "backoff" /\ pc' = [pc EXCEPT ![s] = "running"]
      /\ agenda' = [agenda EXCEPT ![s] = ReactionTo(current[s])]
      /\ UNCHANGED <<queue, log, current, attempt, failures, settled, sending, done>>
  BY DEF BackoffOver, busVars
<1>2. ReactionTo(current[s]) \in Seq(Events)
  BY <1>1, DeliveryFacts DEF BusInv, TypeOK
<1>3. TypeOK'
  BY <1>1, <1>2 DEF BusInv, TypeOK
<1>4. InHand' = InHand
  BY <1>1 DEF InHand, BusInv, TypeOK
<1> QED
  BY <1>1, <1>3, <1>4, HoldInOrder DEF BusInv

\* Once the bus is closed only the types are left to keep.
LEMMA ClosingInv ==
  ASSUME BusInv, NEW s \in Shards, BackoffClosed(s) \/ Exit(s)
  PROVE  BusInv'
<1>1. done /\ done' = done
  BY DEF BackoffClosed, Exit
<1>2. TypeOK'
  BY DEF BackoffClosed, Exit, busVars, BusInv, TypeOK
<1> QED
  BY <1>1, <1>2 DEF BusInv, SettledInOrder

-----------------------------------------------------------------------------
(* Every step preserves the invariant. *)

\* Each action, closing and stuttering.
LEMMA NextInv == BusInv /\ [Next]_vars => BusInv'
<1> SUFFICES ASSUME BusInv, [Next]_vars PROVE BusInv'
  OBVIOUS
<1>1. CASE Close
  BY <1>1 DEF Close, busVars, workerVars, BusInv, TypeOK, SettledInOrder
<1>2. CASE UNCHANGED vars
  BY <1>2 DEF vars, busVars, workerVars, BusInv, TypeOK, SettledInOrder, InHand
<1>3. ASSUME NEW t \in Threads, Publish(t) PROVE BusInv'
  BY <1>3, StartPublishInv, EnqueueInv, RefuseClosedInv DEF Publish
<1>4. ASSUME NEW s \in Shards, Work(s) PROVE BusInv'
  BY <1>4, ReceiveInv, HandlerReturnsInv, BackoffOverInv, ClosingInv DEF Work
<1>5. ASSUME NEW s \in Shards, HandlerFails(s) PROVE BusInv'
  BY <1>5, HandlerFailsInv
<1> QED
  BY <1>1, <1>2, <1>3, <1>4, <1>5 DEF Next

\* The invariant holds in every reachable state.
LEMMA Invariance == Spec => []BusInv
  BY InitInv, NextInv, PTL DEF Spec

-----------------------------------------------------------------------------
(* Counting in a log. *)

\* One entry more adds one if it is d.
LEMMA AmongFacts ==
  ASSUME NEW l, NEW n \in Nat, NEW d
  PROVE  /\ Among(l, n, d) \in Nat
         /\ Among(l, 0, d) = 0
         /\ Among(l, n + 1, d) = Among(l, n, d) + (IF l[n + 1] = d THEN 1 ELSE 0)
<1> DEFINE I(m) == {i \in 1 .. m : l[i] = d}
<1>1. ASSUME NEW m \in Nat PROVE IsFiniteSet(I(m)) /\ Among(l, m, d) = Cardinality(I(m))
                                 /\ Among(l, m, d) \in Nat
  <2>1. IsFiniteSet(1 .. m)
    BY FS_Interval
  <2>2. I(m) \subseteq 1 .. m
    OBVIOUS
  <2>3. IsFiniteSet(I(m))
    BY <2>1, <2>2, FS_Subset
  <2>4. Cardinality(I(m)) \in Nat
    BY <2>3, FS_CardinalityType
  <2> QED
    BY <2>3, <2>4 DEF Among
<1>2. Among(l, 0, d) = 0
  <2>1. I(0) = {}
    OBVIOUS
  <2> QED
    BY <2>1, FS_EmptySet DEF Among
<1>3. CASE l[n + 1] = d
  <2>1. I(n + 1) = I(n) \union {n + 1} /\ n + 1 \notin I(n)
    BY <1>3
  <2> HIDE DEF I
  <2>2. Cardinality(I(n + 1)) = Cardinality(I(n)) + 1
    BY <1>1, <2>1, FS_AddElement
  <2> QED
    BY <1>1, <1>2, <1>3, <2>2
<1>4. CASE l[n + 1] # d
  <2>1. I(n + 1) = I(n)
    BY <1>4
  <2> HIDE DEF I
  <2> QED
    BY <1>1, <1>2, <1>4, <2>1
<1> QED
  BY <1>3, <1>4

\* A longer part of a log has as many at least.
LEMMA AmongFewer ==
  ASSUME NEW l, NEW m \in Nat, NEW n \in Nat, m <= n, NEW d
  PROVE  Among(l, m, d) <= Among(l, n, d)
<1>1. IsFiniteSet(1 .. n)
  BY FS_Interval
<1>2. {i \in 1 .. n : l[i] = d} \subseteq 1 .. n
  OBVIOUS
<1>3. IsFiniteSet({i \in 1 .. n : l[i] = d})
  BY <1>1, <1>2, FS_Subset
<1>4. {i \in 1 .. m : l[i] = d} \subseteq {i \in 1 .. n : l[i] = d}
  OBVIOUS
<1> QED
  BY <1>3, <1>4, FS_Subset DEF Among

-----------------------------------------------------------------------------
(* What a thread has ahead of it. *)

\* q has x, and once.
Has(q, x) == \E i \in DOMAIN q : q[i] = x
Once(q, x) == \A i, j \in DOMAIN q : q[i] = x /\ q[j] = x => i = j

\* The tail of a sequence that has x once lacks x if x was its head.
LEMMA HasTail ==
  ASSUME NEW M, NEW q \in Seq(M), q # <<>>, NEW x, Once(q, x)
  PROVE  /\ Once(Tail(q), x)
         /\ Head(q) = x => ~Has(Tail(q), x) /\ Has(q, x)
         /\ Head(q) # x => (Has(Tail(q), x) <=> Has(q, x))
<1>1. /\ Tail(q) \in Seq(M) /\ Head(q) = q[1] /\ 1 \in DOMAIN q
      /\ \A i \in DOMAIN Tail(q) : i \in Nat /\ i + 1 \in DOMAIN q /\ Tail(q)[i] = q[i + 1]
      /\ \A i \in DOMAIN q : i = 1 \/ (i \in Nat /\ i - 1 \in DOMAIN Tail(q) /\ Tail(q)[i - 1] = q[i])
  OBVIOUS
<1> DEFINE w == Tail(q)
<1> HIDE DEF w
<1>2. Once(w, x)
  <2> SUFFICES ASSUME NEW i \in DOMAIN w, NEW j \in DOMAIN w, w[i] = x, w[j] = x PROVE i = j
    BY DEF Once
  <2>1. i + 1 = j + 1 /\ i \in Nat /\ j \in Nat
    BY <1>1 DEF Once, w
  <2> QED
    BY <2>1
<1>3. Head(q) = x => ~Has(w, x) /\ Has(q, x)
  <2>1. ASSUME Head(q) = x, NEW i \in DOMAIN w, w[i] = x PROVE FALSE
    <3>1. i + 1 = 1 /\ i \in Nat /\ i # 0
      BY <1>1, <2>1 DEF Once, w
    <3> QED
      BY <3>1
  <2> QED
    BY <1>1, <2>1 DEF Has
<1>4. Head(q) # x => (Has(w, x) <=> Has(q, x))
  BY <1>1 DEF Has, w
<1> QED
  BY <1>2, <1>3, <1>4 DEF w

\* In these words, and for the state after a step.
LEMMA AheadIs ==
  ASSUME NEW d
  PROVE  /\ \A t : Ahead(t, d) <=> Has(agenda[t], d.ev) \/ Has(sending[t], d)
         /\ \A t : Ahead(t, d)' <=> Has(agenda'[t], d.ev) \/ Has(sending'[t], d)
         /\ \A c : AheadOnce(c, d) <=>
              \A t \in Threads :
                /\ Ahead(t, d) => t = ShardOf[c.ev] /\ pc[t] = "running" /\ current[t] = c
                /\ Once(agenda[t], d.ev) /\ Once(sending[t], d)
                /\ ~(Has(agenda[t], d.ev) /\ Has(sending[t], d))
         /\ \A c : AheadOnce(c, d)' <=>
              \A t \in Threads :
                /\ Ahead(t, d)' => t = ShardOf[c.ev] /\ pc'[t] = "running" /\ current'[t] = c
                /\ Once(agenda'[t], d.ev) /\ Once(sending'[t], d)
                /\ ~(Has(agenda'[t], d.ev) /\ Has(sending'[t], d))
  BY DEF Ahead, AheadOnce, Has, Once

\* Publish has one delivery for each handler.
LEMMA DeliveriesHave ==
  ASSUME NEW e \in Events, NEW d \in Delivery
  PROVE  Once(Deliveries(e), d) /\ (Has(Deliveries(e), d) <=> d.ev = e)
<1>1. PICK f \in Events : d \in [ev : {f}, handler : DOMAIN Reactions[f]]
  BY DEF Delivery
<1>2. d = [ev |-> f, handler |-> d.handler] /\ d.ev = f /\ d.handler \in DOMAIN Reactions[f]
  BY <1>1
<1>3. \A i \in DOMAIN Reactions[e] : [ev |-> e, handler |-> i].ev = e /\ [ev |-> e, handler |-> i].handler = i
  OBVIOUS
<1>4. Once(Deliveries(e), d)
  BY <1>3 DEF Once, Deliveries
<1>5. Has(Deliveries(e), d) <=> d.ev = e
  BY <1>2, <1>3 DEF Has, Deliveries
<1> QED
  BY <1>4, <1>5

\* A handler that starts has a follow-up ahead of it if it is the one it follows.
LEMMA ReactionHas ==
  ASSUME NEW c \in Delivery, NEW d \in Delivery, LeadsTo(c, d), NEW b \in Delivery
  PROVE  Once(ReactionTo(b), d.ev) /\ (Has(ReactionTo(b), d.ev) <=> b = c)
<1>1. PICK i \in DOMAIN ReactionTo(c) :
        \A a \in Delivery : \A j \in DOMAIN ReactionTo(a) :
          ReactionTo(a)[j] = d.ev <=> a = c /\ j = i
  BY DEF LeadsTo
<1> QED
  BY <1>1 DEF Has, Once

-----------------------------------------------------------------------------
(* The account of a cause c and a follow-up d. *)

\* c and d, the shards they wait on, and what is known of them.
Cause(c, d, s, r) ==
  /\ c \in Delivery /\ d \in Delivery /\ LeadsTo(c, d)
  /\ s = ShardOf[c.ev] /\ r = ShardOf[d.ev] /\ s \in Shards /\ r \in Shards /\ s \in Threads

\* The account with its shard named, now and after a step.
LEMMA AccountedIs ==
  ASSUME NEW c, NEW d, NEW s, NEW r, Cause(c, d, s, r)
  PROVE  /\ Accounted(c, d) <=>
              /\ AheadOnce(c, d)
              /\ Enqueued(d) + ToCome(c, d) <= Among(log[s], Taken(s), c) + failures
              /\ ~done => Settled(c) + Behind(c, d) <= Enqueued(d) + failures
         /\ Accounted(c, d)' <=>
              /\ AheadOnce(c, d)'
              /\ Enqueued(d)' + ToCome(c, d)' <= Among(log'[s], Taken(s)', c) + failures'
              /\ ~done' => Settled(c)' + Behind(c, d)' <= Enqueued(d)' + failures'
         /\ ToCome(c, d) =
              IF current[s] = c /\ (pc[s] = "backoff" \/ (pc[s] = "running" /\ Ahead(s, d))) THEN 1 ELSE 0
         /\ ToCome(c, d)' =
              IF current'[s] = c /\ (pc'[s] = "backoff" \/ (pc'[s] = "running" /\ Ahead(s, d)')) THEN 1 ELSE 0
         /\ Behind(c, d) =
              IF current[s] = c /\ pc[s] = "running" /\ ~Ahead(s, d) THEN 1 ELSE 0
         /\ Behind(c, d)' =
              IF current'[s] = c /\ pc'[s] = "running" /\ ~Ahead(s, d)' THEN 1 ELSE 0
<1>1. s = ShardOf[c.ev] /\ r = ShardOf[d.ev]
  BY DEF Cause
<1> QED
  BY <1>1 DEF Accounted, ToCome, Behind

\* The counts with the logs named.
LEMMA CountsAre ==
  ASSUME NEW c, NEW d, NEW s, NEW r, Cause(c, d, s, r)
  PROVE  /\ \A l : l = log[r] => Enqueued(d) = Among(l, Len(l), d)
         /\ \A l : l = log'[r] => Enqueued(d)' = Among(l, Len(l), d)
         /\ \A l : l = log[s] => Settled(c) = Among(l, settled[s], c)
         /\ \A l : l = log'[s] => Settled(c)' = Among(l, settled'[s], c)
  BY DEF Cause, Enqueued, Settled

\* The numbers in it.
LEMMA Numbers ==
  ASSUME BusInv, NEW c, NEW d, NEW s, NEW r, Cause(c, d, s, r), InChannel(s)
  PROVE  /\ Enqueued(d) \in Nat /\ Settled(c) \in Nat /\ Taken(s) \in Nat
         /\ Among(log[s], Taken(s), c) \in Nat
         /\ ToCome(c, d) \in {0, 1} /\ Behind(c, d) \in {0, 1}
         /\ ToCome(c, d)' \in {0, 1} /\ Behind(c, d)' \in {0, 1}
         /\ failures \in Nat
<1>1. s \in Shards /\ r \in Shards
  BY DEF Cause
<1>2. log[s] \in Seq(Delivery) /\ log[r] \in Seq(Delivery) /\ queue[s] \in Seq(Delivery)
      /\ settled[s] \in Nat /\ failures \in Nat
  BY <1>1, BusAssumption DEF BusInv, TypeOK
<1>3. Len(log[s]) \in Nat /\ Len(log[r]) \in Nat /\ Len(queue[s]) \in Nat
  BY <1>2
<1>4. Taken(s) \in Nat
  BY <1>3 DEF InChannel, Taken
<1>5. Enqueued(d) \in Nat /\ Settled(c) \in Nat /\ Among(log[s], Taken(s), c) \in Nat
  <2>1. PICK k : k = log[s]
    OBVIOUS
  <2>2. PICK l : l = log[r]
    OBVIOUS
  <2>3. Among(l, Len(l), d) \in Nat /\ Among(k, settled[s], c) \in Nat /\ Among(k, Taken(s), c) \in Nat
    BY <1>2, <1>3, <1>4, <2>1, <2>2, AmongFacts
  <2>4. Enqueued(d) = Among(l, Len(l), d) /\ Settled(c) = Among(k, settled[s], c)
    BY <2>1, <2>2, CountsAre
  <2> QED
    BY <2>1, <2>3, <2>4
<1>6. /\ ToCome(c, d) \in {0, 1} /\ Behind(c, d) \in {0, 1}
      /\ ToCome(c, d)' \in {0, 1} /\ Behind(c, d)' \in {0, 1}
  BY AccountedIs
<1> QED
  BY <1>2, <1>4, <1>5, <1>6

\* A step that enqueues and takes nothing keeps the account if what it adds to
\* what is to come, or to what is settled or in hand, was paid for by a failure.
LEMMA PaidFor ==
  ASSUME BusInv, NEW c, NEW d, NEW s, NEW r, Cause(c, d, s, r), InChannel(s),
         Accounted(c, d), log' = log, queue' = queue, AheadOnce(c, d)',
         NEW f \in {0, 1}, failures' = failures + f,
         ToCome(c, d)' <= ToCome(c, d) + f,
         done => done',
         done' \/ (/\ Settled(c)' \in Nat
                   /\ Settled(c)' + Behind(c, d)' <= Settled(c) + Behind(c, d) + f)
  PROVE  Accounted(c, d)'
<1>1. /\ Enqueued(d)' = Enqueued(d)
      /\ Among(log'[s], Taken(s)', c) = Among(log[s], Taken(s), c)
  <2>1. PICK l : l = log[r]
    OBVIOUS
  <2>2. Enqueued(d) = Among(l, Len(l), d) /\ Enqueued(d)' = Among(l, Len(l), d)
    BY <2>1, CountsAre
  <2>3. Taken(s)' = Taken(s)
    BY DEF Taken
  <2> QED
    BY <2>2, <2>3
<1>2. /\ Enqueued(d) + ToCome(c, d) <= Among(log[s], Taken(s), c) + failures
      /\ ~done => Settled(c) + Behind(c, d) <= Enqueued(d) + failures
  BY AccountedIs
<1>3. Enqueued(d) + ToCome(c, d)' <= Among(log[s], Taken(s), c) + failures'
  BY <1>2, Numbers
<1>4. ~done' => Settled(c)' + Behind(c, d)' <= Enqueued(d) + failures'
  BY <1>2, Numbers
<1> QED
  BY <1>1, <1>3, <1>4, AccountedIs

\* The channels and logs are the same after such a step.
LEMMA ChannelStays ==
  ASSUME NEW s, InChannel(s), log' = log, queue' = queue,
         pc'[s] \in {"running", "backoff"} =>
           pc[s] \in {"running", "backoff"} /\ current'[s] = current[s]
  PROVE  InChannel(s)'
  BY DEF InChannel, Taken

-----------------------------------------------------------------------------
(* Each action. *)

\* An event that sets out is still ahead, now as deliveries.
LEMMA StartPublishAccounts ==
  ASSUME BusInv, NEW t \in Threads, StartPublish(t)
  PROVE  /\ \A s \in Shards : InChannel(s) => InChannel(s)'
         /\ \A c, d, s, r : Cause(c, d, s, r) /\ InChannel(s) /\ Accounted(c, d) => Accounted(c, d)'
<1>1. PICK q \in Seq(Events) : q = agenda[t]
  BY DEF BusInv, TypeOK
<1>2. /\ q # <<>> /\ sending[t] = <<>>
      /\ sending' = [sending EXCEPT ![t] = Deliveries(Head(q))]
      /\ agenda' = [agenda EXCEPT ![t] = Tail(q)]
      /\ log' = log /\ queue' = queue /\ settled' = settled /\ pc' = pc /\ current' = current
      /\ failures' = failures /\ done' = done
  BY <1>1 DEF StartPublish, busVars, workerVars
<1>3. \A s \in Shards : InChannel(s) => InChannel(s)'
  BY <1>2, ChannelStays
<1>4. ASSUME NEW c, NEW d, NEW s, NEW r, Cause(c, d, s, r), InChannel(s), Accounted(c, d)
      PROVE  Accounted(c, d)'
  <2>0. d \in Delivery /\ AheadOnce(c, d) /\ Head(q) \in Events
    BY <1>2, <1>4, AccountedIs, HeadTail DEF Cause
  <2>1. PICK w : w = Deliveries(Head(q))
    OBVIOUS
  <2>2. Once(w, d) /\ (Has(w, d) <=> d.ev = Head(q))
    BY <2>0, <2>1, DeliveriesHave
  <2>3. /\ agenda'[t] = Tail(q) /\ sending'[t] = w
        /\ \A h \in Threads \ {t} : agenda'[h] = agenda[h] /\ sending'[h] = sending[h]
    BY <1>2, <2>1 DEF BusInv, TypeOK
  <2>4. Once(q, d.ev) /\ ~Has(sending[t], d)
    BY <1>1, <1>2, <2>0, AheadIs DEF Has
  <2>5. /\ Once(Tail(q), d.ev)
        /\ Head(q) = d.ev => ~Has(Tail(q), d.ev) /\ Has(q, d.ev)
        /\ Head(q) # d.ev => (Has(Tail(q), d.ev) <=> Has(q, d.ev))
    BY <1>2, <2>4, HasTail
  <2>6. \A h \in Threads : Has(agenda'[h], d.ev) \/ Has(sending'[h], d)
                           <=> Has(agenda[h], d.ev) \/ Has(sending[h], d)
    BY <1>1, <2>2, <2>3, <2>4, <2>5
  <2>7. AheadOnce(c, d)'
    <3>1. ASSUME NEW h \in Threads
          PROVE  /\ Ahead(h, d)' => h = ShardOf[c.ev] /\ pc'[h] = "running" /\ current'[h] = c
                 /\ Once(agenda'[h], d.ev) /\ Once(sending'[h], d)
                 /\ ~(Has(agenda'[h], d.ev) /\ Has(sending'[h], d))
      <4>1. Ahead(h, d)' => h = ShardOf[c.ev] /\ pc'[h] = "running" /\ current'[h] = c
        <5>1. Ahead(h, d) => h = ShardOf[c.ev] /\ pc[h] = "running" /\ current[h] = c
          BY <2>0 DEF AheadOnce
        <5>2. Ahead(h, d)' <=> Ahead(h, d)
          BY <2>6, AheadIs
        <5> QED
          BY <1>2, <5>1, <5>2
      <4>2. Once(agenda[h], d.ev) /\ Once(sending[h], d)
            /\ ~(Has(agenda[h], d.ev) /\ Has(sending[h], d))
        BY <2>0, AheadIs
      <4> QED
        BY <2>2, <2>3, <2>5, <4>1, <4>2
    <3> QED
      BY <3>1, AheadIs
  <2>8. ToCome(c, d)' = ToCome(c, d) /\ Behind(c, d)' = Behind(c, d) /\ Settled(c)' = Settled(c)
    <3>0. Ahead(s, d)' <=> Ahead(s, d)
      BY <1>4, <2>6, AheadIs DEF Cause
    <3>1. ToCome(c, d)' = ToCome(c, d) /\ Behind(c, d)' = Behind(c, d)
      BY <1>2, <1>4, <3>0, AccountedIs
    <3>2. PICK l : l = log[s]
      OBVIOUS
    <3> QED
      BY <1>2, <1>4, <3>1, <3>2, CountsAre
  <2> QED
    BY <1>2, <1>4, <2>7, <2>8, PaidFor, Numbers
<1> QED
  BY <1>3, <1>4

\* What is ahead of whom, in terms of the variables it depends on.
One(ag, se, p, cu, c, d) ==
  \A h \in Threads :
    /\ Has(ag[h], d.ev) \/ Has(se[h], d) =>
         h = ShardOf[c.ev] /\ p[h] = "running" /\ cu[h] = c
    /\ Once(ag[h], d.ev) /\ Once(se[h], d) /\ ~(Has(ag[h], d.ev) /\ Has(se[h], d))

\* That is AheadOnce, now and after a step.
LEMMA OneIs ==
  ASSUME NEW c, NEW d
  PROVE  /\ AheadOnce(c, d) <=> One(agenda, sending, pc, current, c, d)
         /\ AheadOnce(c, d)' <=> One(agenda', sending', pc', current', c, d)
<1>1. AheadOnce(c, d) <=> One(agenda, sending, pc, current, c, d)
  BY DEF AheadOnce, Ahead, One, Has, Once
<1>2. AheadOnce(c, d)' <=> One(agenda', sending', pc', current', c, d)
  BY DEF AheadOnce, Ahead, One, Has, Once
<1> QED
  BY <1>1, <1>2

\* A delivery that is refused is not ahead any more.
LEMMA RefuseClosedAccounts ==
  ASSUME BusInv, NEW t \in Threads, RefuseClosed(t)
  PROVE  /\ \A s \in Shards : InChannel(s) => InChannel(s)'
         /\ \A c, d, s, r : Cause(c, d, s, r) /\ InChannel(s) /\ Accounted(c, d) => Accounted(c, d)'
<1>1. PICK q \in Seq(Delivery) : q = sending[t]
  BY DEF BusInv, TypeOK
<1>2. /\ q # <<>> /\ done
      /\ sending' = [sending EXCEPT ![t] = Tail(q)]
      /\ agenda' = agenda
      /\ log' = log /\ queue' = queue /\ settled' = settled /\ pc' = pc /\ current' = current
      /\ failures' = failures /\ done' = done
  BY <1>1 DEF RefuseClosed, busVars, workerVars
<1>3. \A s \in Shards : InChannel(s) => InChannel(s)'
  BY <1>2, ChannelStays
<1>4. ASSUME NEW c, NEW d, NEW s, NEW r, Cause(c, d, s, r), InChannel(s), Accounted(c, d)
      PROVE  Accounted(c, d)'
  <2>1. One(agenda, sending, pc, current, c, d)
    BY <1>4, AccountedIs, OneIs
  <2>2. /\ sending'[t] = Tail(q)
        /\ \A h \in Threads \ {t} : sending'[h] = sending[h]
    BY <1>2 DEF BusInv, TypeOK
  <2>3. Once(q, d)
    BY <1>1, <2>1 DEF One
  <2>4. Once(Tail(q), d) /\ (Has(Tail(q), d) => Has(q, d))
    BY <1>2, <2>3, HasTail
  <2>5. One(agenda', sending', pc', current', c, d)
    BY <1>1, <1>2, <2>1, <2>2, <2>4 DEF One
  <2>6. Ahead(s, d)' => Ahead(s, d)
    <3>1. Has(agenda'[s], d.ev) \/ Has(sending'[s], d) => Has(agenda[s], d.ev) \/ Has(sending[s], d)
      BY <1>1, <1>2, <1>4, <2>2, <2>4 DEF Cause
    <3> QED
      BY <3>1, AheadIs
  <2>7. ToCome(c, d)' <= ToCome(c, d) + 0
    BY <1>2, <1>4, <2>6, AccountedIs
  <2>8. AheadOnce(c, d)'
    BY <2>5, OneIs
  <2> QED
    BY <1>2, <1>4, <2>7, <2>8, PaidFor, Numbers
<1> QED
  BY <1>3, <1>4

\* What an Enqueue of y makes of the log k of a shard x, which becomes l.
Grown(x, y, k, l) ==
  /\ Taken(x)' = Taken(x) /\ Taken(x) \in 0 .. Len(k) /\ InChannel(x)'
  /\ \A z : \A n \in 0 .. Len(k) : Among(l, n, z) = Among(k, n, z)
  /\ \A z : Among(l, Len(l), z) = Among(k, Len(k), z)
              + (IF y = z /\ ShardOf[y.ev] = x THEN 1 ELSE 0)

\* The log of the shard of y has y in addition, the others are as they were.
LEMMA LogGrows ==
  ASSUME BusInv, NEW t \in Threads, Enqueue(t), NEW x \in Shards, InChannel(x)
  PROVE  Grown(x, Head(sending[t]), log[x], log'[x])
<1> PICK y : y = Head(sending[t])
  OBVIOUS
<1> PICK k : k = log[x]
  OBVIOUS
<1> PICK l : l = log'[x]
  OBVIOUS
<1>1. PICK q : q = queue[x]
  OBVIOUS
<1>2. PICK n : n = Taken(x)
  OBVIOUS
<1>3. k \in Seq(Delivery) /\ q \in Seq(Delivery) /\ Len(k) \in Nat /\ Len(q) \in Nat
  BY <1>1 DEF BusInv, TypeOK
<1>4. n \in Nat /\ n = Len(k) - Len(q) /\ Len(k) = n + Len(q) /\ n \in 0 .. Len(k)
      /\ InLine(k, q, n)
  <2>1. n >= 0 /\ n = Len(k) - Len(q) /\ \A i \in DOMAIN q : q[i] = k[n + i]
    BY <1>1, <1>2 DEF InChannel, Taken
  <2>2. n \in Nat /\ Len(k) = n + Len(q) /\ n \in 0 .. Len(k)
    BY <1>3, <2>1
  <2> QED
    BY <2>1, <2>2 DEF InLine
<1>5. y \in Delivery /\ ShardOf[y.ev] \in Shards
  BY HeadTail, DeliveryFacts DEF Enqueue, BusInv, TypeOK
<1>6. pc' = pc /\ current' = current
  BY DEF Enqueue, workerVars
<1>7. \A z : Among(k, Len(k), z) \in Nat
  BY <1>3, AmongFacts
<1>8. CASE ShardOf[y.ev] = x
  <2>1. l = Append(k, y) /\ queue'[x] = Append(q, y)
    BY <1>1, <1>8 DEF Enqueue, BusInv, TypeOK
  <2>2. /\ Len(l) = Len(k) + 1 /\ l[Len(k) + 1] = y
        /\ \A i \in 1 .. Len(k) : l[i] = k[i]
        /\ DOMAIN l = 1 .. Len(k) + 1
    BY <1>3, <1>5, <2>1
  <2>3. InLine(l, Append(q, y), n) /\ Len(Append(q, y)) = Len(q) + 1
    BY <1>3, <1>4, <1>5, <2>1, AppendInLine
  <2>4. Taken(x)' = n
    <3>1. Taken(x)' = Len(l) - Len(queue'[x])
      BY DEF Taken
    <3>2. Len(queue'[x]) = Len(q) + 1
      BY <2>1, <2>3
    <3> QED
      BY <1>3, <1>4, <2>2, <3>1, <3>2
  <2>5. ASSUME NEW z, NEW m \in 0 .. Len(k) PROVE Among(l, m, z) = Among(k, m, z)
    <3>1. m \in Nat /\ \A i \in 1 .. m : l[i] = k[i]
      BY <1>3, <2>2
    <3>2. {i \in 1 .. m : l[i] = z} = {i \in 1 .. m : k[i] = z}
      BY <3>1
    <3> QED
      BY <3>2 DEF Among
  <2>6. ASSUME NEW z
        PROVE  Among(l, Len(l), z) = Among(k, Len(k), z) + (IF y = z THEN 1 ELSE 0)
    <3>1. Among(l, Len(k) + 1, z) = Among(l, Len(k), z) + (IF l[Len(k) + 1] = z THEN 1 ELSE 0)
      <4>1. PICK m \in Nat : m = Len(k)
        BY <1>3
      <4>2. Among(l, m + 1, z) = Among(l, m, z) + (IF l[m + 1] = z THEN 1 ELSE 0)
        BY AmongFacts
      <4> QED
        BY <4>1, <4>2
    <3>2. Among(l, Len(k), z) = Among(k, Len(k), z)
      BY <1>3, <2>5
    <3> QED
      BY <2>2, <3>1, <3>2
  <2>7. InChannel(x)'
    <3>1. \A i \in DOMAIN l : ShardOf[l[i].ev] = x
      <4>1. \A i \in 1 .. Len(k) : ShardOf[k[i].ev] = x
        BY <1>3 DEF InChannel
      <4>2. \A i \in DOMAIN l : i \in 1 .. Len(k) \/ i = Len(k) + 1
        BY <1>3, <2>2
      <4> QED
        BY <1>8, <2>2, <4>1, <4>2
    <3>2. \A i \in DOMAIN queue'[x] : queue'[x][i] = l[n + i]
      BY <2>1, <2>3 DEF InLine
    <3>3. pc'[x] \in {"running", "backoff"} => ShardOf[current'[x].ev] = x
      BY <1>6 DEF InChannel
    <3>4. n >= 0
      BY <1>4
    <3> QED
      BY <2>4, <3>1, <3>2, <3>3, <3>4 DEF InChannel
  <2> QED
    BY <1>2, <1>4, <1>7, <1>8, <2>4, <2>5, <2>6, <2>7 DEF Grown
<1>9. CASE ShardOf[y.ev] # x
  <2>1. l = k /\ queue'[x] = q
    BY <1>1, <1>5, <1>9 DEF Enqueue, BusInv, TypeOK
  <2>2. Taken(x)' = Taken(x)
    BY <1>1, <2>1 DEF Taken
  <2>3. InChannel(x)'
    BY <1>1, <1>6, <2>1, <2>2 DEF InChannel
  <2>4. \A z : Among(k, Len(k), z) + 0 = Among(k, Len(k), z)
    BY <1>7
  <2> QED
    BY <1>2, <1>4, <1>7, <1>9, <2>1, <2>2, <2>3, <2>4 DEF Grown
<1> QED
  BY <1>8, <1>9

\* A delivery that is enqueued was still to come, and has come now.
LEMMA EnqueueAccounts ==
  ASSUME BusInv, NEW t \in Threads, Enqueue(t),
         NEW c, NEW d, NEW s, NEW r, Cause(c, d, s, r), InChannel(s), InChannel(r), Accounted(c, d)
  PROVE  Accounted(c, d)'
<1>1. PICK q \in Seq(Delivery) : q = sending[t]
  BY DEF BusInv, TypeOK
<1>2. PICK y : y = Head(q)
  OBVIOUS
<1>3. /\ q # <<>> /\ sending' = [sending EXCEPT ![t] = Tail(q)]
      /\ agenda' = agenda /\ settled' = settled /\ pc' = pc /\ current' = current
      /\ failures' = failures /\ done' = done
  BY <1>1 DEF Enqueue, workerVars
<1>4. /\ sending'[t] = Tail(q)
      /\ \A h \in Threads \ {t} : sending'[h] = sending[h]
  BY <1>3 DEF BusInv, TypeOK
<1>5. One(agenda, sending, pc, current, c, d)
  BY AccountedIs, OneIs
<1>6. /\ Once(Tail(q), d) /\ Once(q, d)
      /\ y = d => ~Has(Tail(q), d) /\ Has(q, d)
      /\ y # d => (Has(Tail(q), d) <=> Has(q, d))
  <2>1. Once(q, d)
    BY <1>1, <1>5 DEF One
  <2> QED
    BY <1>2, <1>3, <2>1, HasTail
<1>7. AheadOnce(c, d)'
  <2>1. One(agenda', sending', pc', current', c, d)
    BY <1>1, <1>3, <1>4, <1>5, <1>6 DEF One
  <2> QED
    BY <2>1, OneIs
<1>8. PICK l : l = log[s]
  OBVIOUS
<1>9. PICK m : m = log'[s]
  OBVIOUS
<1>10. PICK k : k = log[r]
  OBVIOUS
<1>11. PICK o : o = log'[r]
  OBVIOUS
<1>0. y = Head(sending[t]) /\ s \in Shards /\ r \in Shards /\ r = ShardOf[d.ev]
  BY <1>1, <1>2 DEF Cause
<1>20. /\ Taken(s)' = Taken(s) /\ Taken(s) \in 0 .. Len(l)
       /\ \A z : \A n \in 0 .. Len(l) : Among(m, n, z) = Among(l, n, z)
  <2>1. Grown(s, y, l, m)
    BY <1>0, <1>8, <1>9, LogGrows
  <2> QED
    BY <2>1 DEF Grown
<1>21. \A z : Among(o, Len(o), z) = Among(k, Len(k), z)
                 + (IF y = z /\ ShardOf[y.ev] = r THEN 1 ELSE 0)
  <2>1. Grown(r, y, k, o)
    BY <1>0, <1>10, <1>11, LogGrows
  <2> QED
    BY <2>1 DEF Grown
<1>12. Among(m, Taken(s)', c) = Among(l, Taken(s), c)
  BY <1>20
<1>13. /\ Enqueued(d) = Among(k, Len(k), d) /\ Enqueued(d)' = Among(o, Len(o), d)
       /\ Settled(c) = Among(l, settled[s], c) /\ Settled(c)' = Among(m, settled[s], c)
  BY <1>3, <1>8, <1>9, <1>10, <1>11, CountsAre
<1>14. Enqueued(d)' = Enqueued(d) + (IF y = d THEN 1 ELSE 0)
  <2>1. Among(o, Len(o), d) = Among(k, Len(k), d) + (IF y = d /\ ShardOf[y.ev] = r THEN 1 ELSE 0)
    BY <1>21
  <2>2. y = d => ShardOf[y.ev] = r
    BY <1>0
  <2> QED
    BY <1>13, <2>1, <2>2
<1>15. ~done => Settled(c)' = Settled(c)
  <2>1. ASSUME ~done PROVE settled[s] \in 0 .. Len(l)
    <3>1. Len(l) = settled[s] + InHand[s] + Len(queue[s])
      BY <1>8, <2>1 DEF BusInv, SettledInOrder, Cause
    <3>2. settled[s] \in Nat /\ InHand[s] \in Nat /\ Len(queue[s]) \in Nat
      BY DEF BusInv, TypeOK, InHand, Cause
    <3> QED
      BY <3>1, <3>2
  <2>2. \A n \in 0 .. Len(l) : Among(m, n, c) = Among(l, n, c)
    BY <1>20
  <2> QED
    BY <1>13, <2>1, <2>2
<1>16. /\ Enqueued(d) \in Nat /\ Settled(c) \in Nat /\ Among(l, Taken(s), c) \in Nat
       /\ ToCome(c, d) \in {0, 1} /\ Behind(c, d) \in {0, 1}
       /\ ToCome(c, d)' \in {0, 1} /\ Behind(c, d)' \in {0, 1}
       /\ failures \in Nat
  BY <1>8, Numbers
<1>17. /\ Enqueued(d) + ToCome(c, d) <= Among(l, Taken(s), c) + failures
       /\ ~done => Settled(c) + Behind(c, d) <= Enqueued(d) + failures
  BY <1>8, AccountedIs
<1>18. CASE y = d
  <2>1. t = s /\ pc[s] = "running" /\ current[s] = c /\ ~Has(agenda[s], d.ev)
    BY <1>1, <1>5, <1>6, <1>18 DEF One, Cause
  <2>2. Ahead(s, d) /\ ~Ahead(s, d)'
    BY <1>1, <1>3, <1>4, <1>6, <1>18, <2>1, AheadIs
  <2>3. ToCome(c, d) = 1 /\ ToCome(c, d)' = 0 /\ Behind(c, d) = 0
    BY <1>3, <2>1, <2>2, AccountedIs
  <2>4. Enqueued(d)' = Enqueued(d) + 1
    BY <1>14, <1>18
  <2>5. /\ Enqueued(d)' + ToCome(c, d)' <= Among(m, Taken(s)', c) + failures'
        /\ ~done' => Settled(c)' + Behind(c, d)' <= Enqueued(d)' + failures'
    BY <1>3, <1>12, <1>15, <1>16, <1>17, <2>3, <2>4
  <2> QED
    BY <1>7, <1>9, <2>5, AccountedIs
<1>19. CASE y # d
  <2>1. Ahead(s, d)' <=> Ahead(s, d)
    <3>1. Has(sending'[s], d) <=> Has(sending[s], d)
      BY <1>1, <1>4, <1>6, <1>19 DEF Cause
    <3> QED
      BY <1>3, <3>1, AheadIs
  <2>2. ToCome(c, d)' = ToCome(c, d) /\ Behind(c, d)' = Behind(c, d)
    BY <1>3, <2>1, AccountedIs
  <2>3. Enqueued(d)' = Enqueued(d)
    BY <1>14, <1>16, <1>19
  <2>4. /\ Enqueued(d)' + ToCome(c, d)' <= Among(m, Taken(s)', c) + failures'
        /\ ~done' => Settled(c)' + Behind(c, d)' <= Enqueued(d)' + failures'
    BY <1>3, <1>12, <1>15, <1>17, <2>2, <2>3
  <2> QED
    BY <1>7, <1>9, <2>4, AccountedIs
<1> QED
  BY <1>18, <1>19

\* The worker of x starts on b, or stops with nothing ahead of it.
StartsOn(x, b) ==
  /\ b \in Delivery /\ ShardOf[b.ev] = x
  /\ pc[x] # "running" /\ pc' = [pc EXCEPT ![x] = "running"]
  /\ current' = [current EXCEPT ![x] = b]
  /\ agenda' = [agenda EXCEPT ![x] = ReactionTo(b)] /\ sending' = sending

StopsAt(x, d) ==
  /\ \E p : p # "running" /\ pc' = [pc EXCEPT ![x] = p]
  /\ current' = current /\ sending' = sending /\ ~Has(sending[x], d)
  /\ \A h \in Threads \ {x} : agenda'[h] = agenda[h]
  /\ ~Has(agenda'[x], d.ev)

\* A handler that starts on a delivery of its shard has d ahead of it if that is
\* the cause.
LEMMA Starts ==
  ASSUME BusInv, NEW c, NEW d, NEW s, NEW r, Cause(c, d, s, r), AheadOnce(c, d),
         NEW x \in Shards, NEW b, StartsOn(x, b)
  PROVE  AheadOnce(c, d)' /\ (Ahead(s, d)' <=> IF x = s THEN b = c ELSE Ahead(s, d))
<1>1. One(agenda, sending, pc, current, c, d)
  BY OneIs
<1>2. PICK w : w = ReactionTo(b)
  OBVIOUS
<1>3. Once(w, d.ev) /\ (Has(w, d.ev) <=> b = c)
  BY <1>2, ReactionHas DEF Cause, StartsOn
<1>4. /\ x \in Threads /\ s \in Threads /\ s = ShardOf[c.ev]
      /\ agenda'[x] = w /\ pc'[x] = "running" /\ current'[x] = b
      /\ \A h \in Threads \ {x} : agenda'[h] = agenda[h] /\ pc'[h] = pc[h] /\ current'[h] = current[h]
      /\ sending' = sending /\ pc[x] # "running" /\ ShardOf[b.ev] = x
  BY <1>2 DEF BusInv, TypeOK, Threads, Cause, StartsOn
<1>5. ~Has(agenda[x], d.ev) /\ ~Has(sending[x], d) /\ Once(sending[x], d)
  BY <1>1, <1>4 DEF One
<1>6. One(agenda', sending', pc', current', c, d)
  BY <1>1, <1>3, <1>4, <1>5 DEF One
<1>7. Has(agenda'[s], d.ev) \/ Has(sending'[s], d)
        <=> IF x = s THEN b = c ELSE Has(agenda[s], d.ev) \/ Has(sending[s], d)
  BY <1>3, <1>4, <1>5
<1> QED
  BY <1>6, <1>7, OneIs, AheadIs

\* A worker x that stops has nothing ahead of it.
LEMMA Stops ==
  ASSUME BusInv, NEW c, NEW d, NEW s, NEW r, Cause(c, d, s, r), AheadOnce(c, d),
         NEW x \in Shards, StopsAt(x, d)
  PROVE  AheadOnce(c, d)' /\ (Ahead(s, d)' <=> x # s /\ Ahead(s, d))
<1>1. One(agenda, sending, pc, current, c, d)
  BY OneIs
<1>2. /\ x \in Threads /\ s \in Threads
      /\ \A h \in Threads \ {x} : pc'[h] = pc[h] /\ agenda'[h] = agenda[h]
      /\ current' = current /\ sending' = sending
      /\ ~Has(sending[x], d) /\ ~Has(agenda'[x], d.ev)
  BY DEF BusInv, TypeOK, Threads, Cause, StopsAt
<1>3. Once(agenda'[x], d.ev) /\ Once(sending'[x], d)
  BY <1>2 DEF Once, Has
<1>4. One(agenda', sending', pc', current', c, d)
  BY <1>1, <1>2, <1>3 DEF One
<1>5. Has(agenda'[s], d.ev) \/ Has(sending'[s], d)
        <=> x # s /\ (Has(agenda[s], d.ev) \/ Has(sending[s], d))
  BY <1>2
<1> QED
  BY <1>4, <1>5, OneIs, AheadIs

\* A worker that settles one more delivery may settle the cause.
LEMMA SettlesOneMore ==
  ASSUME BusInv, NEW c, NEW d, NEW s, NEW r, Cause(c, d, s, r), NEW x \in Shards,
         settled' = [settled EXCEPT ![x] = settled[x] + 1], log' = log
  PROVE  /\ Settled(c) \in Nat
         /\ s # x => Settled(c)' = Settled(c)
         /\ s = x => Settled(c)' = Settled(c) + (IF log[s][settled[s] + 1] = c THEN 1 ELSE 0)
<1>1. PICK l : l = log[s]
  OBVIOUS
<1>2. PICK n \in Nat : n = settled[s]
  BY DEF BusInv, TypeOK, Cause
<1>3. Settled(c) = Among(l, n, c) /\ Settled(c)' = Among(l, settled'[s], c)
  BY <1>1, <1>2, CountsAre
<1>4. settled'[s] = IF s = x THEN n + 1 ELSE n
  BY <1>2 DEF BusInv, TypeOK, Cause
<1>5. /\ Among(l, n, c) \in Nat
      /\ Among(l, n + 1, c) = Among(l, n, c) + (IF l[n + 1] = c THEN 1 ELSE 0)
  BY AmongFacts
<1> QED
  BY <1>1, <1>2, <1>3, <1>4, <1>5

\* What a worker takes is the next of its log.
LEMMA ReceiveTakes ==
  ASSUME BusInv, NEW x \in Shards, Receive(x), InChannel(x), NEW y, y = Head(queue[x])
  PROVE  /\ y \in Delivery /\ ShardOf[y.ev] = x
         /\ Taken(x) \in Nat /\ Taken(x)' = Taken(x) + 1 /\ y = log[x][Taken(x) + 1]
         /\ InChannel(x)'
<1>1. PICK q \in Seq(Delivery) : q = queue[x]
  BY DEF BusInv, TypeOK
<1>2. PICK k \in Seq(Delivery) : k = log[x]
  BY DEF BusInv, TypeOK
<1>3. PICK n : n = Taken(x)
  OBVIOUS
<1>4. q # <<>> /\ y = Head(q) /\ Len(q) \in Nat /\ Len(k) \in Nat
  BY <1>1, <1>2 DEF Receive
<1>5. n \in Nat /\ Len(k) = n + Len(q) /\ InLine(k, q, n)
  <2>1. n >= 0 /\ n = Len(k) - Len(q) /\ \A i \in DOMAIN q : q[i] = k[n + i]
    BY <1>1, <1>2, <1>3 DEF InChannel, Taken
  <2>2. n \in Nat /\ Len(k) = n + Len(q)
    BY <1>4, <2>1
  <2> QED
    BY <2>1, <2>2 DEF InLine
<1>6. InLine(k, Tail(q), n + 1) /\ y = k[n + 1]
  BY <1>4, <1>5, TakeInLine
<1>7. /\ queue'[x] = Tail(q) /\ log'[x] = k /\ current'[x] = y /\ y \in Delivery
  BY <1>1, <1>2, <1>4, HeadTail DEF Receive, BusInv, TypeOK
<1>8. Taken(x)' = n + 1
  <2>1. Taken(x)' = Len(k) - Len(Tail(q)) /\ Len(Tail(q)) = Len(q) - 1
    BY <1>4, <1>7, HeadTail DEF Taken
  <2> QED
    BY <1>4, <1>5, <2>1
<1>9. \A i \in DOMAIN k : ShardOf[k[i].ev] = x
  BY <1>2 DEF InChannel
<1>10. ShardOf[y.ev] = x
  <2>1. n + 1 \in 1 .. Len(k)
    <3>1. Len(q) > 0
      BY <1>4, HeadTail
    <3> QED
      BY <1>4, <1>5, <3>1
  <2> QED
    BY <1>6, <1>9, <2>1
<1>11. InChannel(x)'
  <2>1. n + 1 >= 0 /\ \A i \in DOMAIN Tail(q) : Tail(q)[i] = k[(n + 1) + i]
    BY <1>5, <1>6 DEF InLine
  <2> QED
    BY <1>7, <1>8, <1>9, <1>10, <2>1 DEF InChannel
<1> QED
  BY <1>2, <1>3, <1>5, <1>6, <1>7, <1>8, <1>10, <1>11

\* A cause that is taken has its follow-up to come.
LEMMA ReceiveAccounts ==
  ASSUME BusInv, NEW x \in Shards, Receive(x), InChannel(x)
  PROVE  /\ \A s \in Shards : InChannel(s) => InChannel(s)'
         /\ \A c, d, s, r : Cause(c, d, s, r) /\ InChannel(s) /\ Accounted(c, d) => Accounted(c, d)'
<1>1. PICK y : y = Head(queue[x])
  OBVIOUS
<1>2. /\ y \in Delivery /\ ShardOf[y.ev] = x
      /\ Taken(x) \in Nat /\ Taken(x)' = Taken(x) + 1 /\ y = log[x][Taken(x) + 1]
      /\ InChannel(x)'
  BY <1>1, ReceiveTakes
<1>3. /\ pc[x] = "idle" /\ pc' = [pc EXCEPT ![x] = "running"]
      /\ current' = [current EXCEPT ![x] = y] /\ agenda' = [agenda EXCEPT ![x] = ReactionTo(y)]
      /\ queue' = [queue EXCEPT ![x] = Tail(queue[x])]
      /\ sending' = sending /\ done' = done /\ failures' = failures /\ log' = log /\ settled' = settled
  BY <1>1 DEF Receive
<1>4. /\ pc'[x] = "running" /\ current'[x] = y
      /\ \A h \in Shards \ {x} : pc'[h] = pc[h] /\ current'[h] = current[h] /\ queue'[h] = queue[h]
  BY <1>3 DEF BusInv, TypeOK
<1>5. \A s \in Shards \ {x} : Taken(s)' = Taken(s)
  BY <1>3, <1>4 DEF Taken
<1>6. \A s \in Shards : InChannel(s) => InChannel(s)'
  <2> SUFFICES ASSUME NEW s \in Shards, InChannel(s) PROVE InChannel(s)'
    OBVIOUS
  <2>1. CASE s = x
    BY <1>2, <2>1
  <2>2. CASE s # x
    BY <1>3, <1>4, <1>5, <2>2 DEF InChannel
  <2> QED
    BY <2>1, <2>2
<1>7. ASSUME NEW c, NEW d, NEW s, NEW r, Cause(c, d, s, r), InChannel(s), Accounted(c, d)
      PROVE  Accounted(c, d)'
  <2>0. s \in Shards
    BY <1>7 DEF Cause
  <2>1. /\ AheadOnce(c, d)
        /\ Enqueued(d) + ToCome(c, d) <= Among(log[s], Taken(s), c) + failures
        /\ ~done => Settled(c) + Behind(c, d) <= Enqueued(d) + failures
    BY <1>7, AccountedIs
  <2>2. AheadOnce(c, d)' /\ (Ahead(s, d)' <=> IF x = s THEN y = c ELSE Ahead(s, d))
    <3>1. StartsOn(x, y)
      BY <1>2, <1>3 DEF StartsOn
    <3> QED
      BY <1>7, <2>1, <3>1, Starts
  <2>3. Enqueued(d)' = Enqueued(d) /\ Settled(c)' = Settled(c)
    <3>1. PICK l : l = log[r]
      OBVIOUS
    <3>2. PICK k : k = log[s]
      OBVIOUS
    <3> QED
      BY <1>3, <1>7, <3>1, <3>2, CountsAre
  <2>4. PICK n \in Nat : n = Taken(s)
    BY <1>7, Numbers
  <2>5. PICK k : k = log[s]
    OBVIOUS
  <2>6. /\ Enqueued(d) \in Nat /\ Settled(c) \in Nat /\ Among(k, n, c) \in Nat
        /\ ToCome(c, d) \in {0, 1} /\ Behind(c, d) \in {0, 1}
        /\ ToCome(c, d)' \in {0, 1} /\ Behind(c, d)' \in {0, 1}
        /\ failures \in Nat
    BY <1>7, <2>4, <2>5, Numbers
  <2>7. CASE s = x
    <3>1. ToCome(c, d) = 0
      BY <1>3, <1>7, <2>7, AccountedIs
    <3>2. ToCome(c, d)' = IF y = c THEN 1 ELSE 0
      BY <1>4, <1>7, <2>2, <2>7, AccountedIs
    <3>3. Behind(c, d)' = 0
      BY <1>4, <1>7, <2>2, <2>7, AccountedIs
    <3>4. Taken(s)' = n + 1 /\ y = k[n + 1]
      BY <1>2, <2>4, <2>5, <2>7
    <3>5. Among(k, n + 1, c) = Among(k, n, c) + (IF y = c THEN 1 ELSE 0)
      BY <3>4, AmongFacts
    <3>6. Among(log'[s], Taken(s)', c) = Among(k, n + 1, c)
      BY <1>3, <2>5, <3>4
    <3>7. Enqueued(d)' + ToCome(c, d)' <= Among(k, n + 1, c) + failures
      BY <2>1, <2>3, <2>4, <2>5, <2>6, <3>1, <3>2, <3>5
    <3>8. ~done' => Settled(c)' + Behind(c, d)' <= Enqueued(d)' + failures
      BY <1>3, <2>1, <2>3, <2>6, <3>3
    <3> QED
      BY <1>3, <1>7, <2>2, <3>6, <3>7, <3>8, AccountedIs
  <2>8. CASE s # x
    <3>1. ToCome(c, d)' = ToCome(c, d) /\ Behind(c, d)' = Behind(c, d)
      BY <1>4, <1>7, <2>0, <2>2, <2>8, AccountedIs
    <3>2. Among(log'[s], Taken(s)', c) = Among(log[s], Taken(s), c)
      BY <1>3, <1>5, <2>0, <2>8
    <3> QED
      BY <1>3, <1>7, <2>1, <2>2, <2>3, <3>1, <3>2, AccountedIs
  <2> QED
    BY <2>7, <2>8
<1> QED
  BY <1>6, <1>7

\* A handler that returns has enqueued its follow-ups.
LEMMA HandlerReturnsAccounts ==
  ASSUME BusInv, NEW x \in Shards, HandlerReturns(x)
  PROVE  /\ \A s \in Shards : InChannel(s) => InChannel(s)'
         /\ \A c, d, s, r : Cause(c, d, s, r) /\ InChannel(s) /\ Accounted(c, d) => Accounted(c, d)'
<1>1. /\ pc[x] = "running" /\ sending[x] = <<>> /\ agenda[x] = <<>>
      /\ pc' = [pc EXCEPT ![x] = "idle"]
      /\ settled' = [settled EXCEPT ![x] = settled[x] + 1]
      /\ log' = log /\ queue' = queue /\ current' = current /\ failures' = failures
      /\ agenda' = agenda /\ sending' = sending /\ done' = done
  BY DEF HandlerReturns, BetweenCalls, busVars
<1>2. pc'[x] = "idle" /\ \A h \in Shards \ {x} : pc'[h] = pc[h]
  BY <1>1 DEF BusInv, TypeOK
<1>3. ASSUME NEW s \in Shards, InChannel(s) PROVE InChannel(s)'
  <2>1. pc'[s] \in {"running", "backoff"} => pc[s] \in {"running", "backoff"} /\ current'[s] = current[s]
    BY <1>1, <1>2
  <2> QED
    BY <1>1, <1>3, <2>1, ChannelStays
<1>4. ASSUME NEW c, NEW d, NEW s, NEW r, Cause(c, d, s, r), InChannel(s), Accounted(c, d)
      PROVE  Accounted(c, d)'
  <2>0. s \in Shards
    BY <1>4 DEF Cause
  <2>1. StopsAt(x, d)
    <3>1. ~Has(sending[x], d) /\ ~Has(agenda'[x], d.ev)
      BY <1>1 DEF Has
    <3> QED
      BY <1>1, <3>1 DEF StopsAt
  <2>2. AheadOnce(c, d)' /\ (Ahead(s, d)' <=> x # s /\ Ahead(s, d))
    <3>1. AheadOnce(c, d)
      BY <1>4, AccountedIs
    <3> QED
      BY <1>4, <2>1, <3>1, Stops
  <2>3. /\ Settled(c) \in Nat
        /\ s # x => Settled(c)' = Settled(c)
        /\ s = x => Settled(c)' = Settled(c) + (IF log[s][settled[s] + 1] = c THEN 1 ELSE 0)
    BY <1>1, <1>4, SettlesOneMore
  <2>4. Settled(c)' \in Nat
    BY <2>3
  <2>5. ToCome(c, d) \in {0, 1} /\ Behind(c, d) \in {0, 1} /\ failures \in Nat
    BY <1>4, Numbers
  <2>6. CASE s # x
    <3>1. ToCome(c, d)' = ToCome(c, d) /\ Behind(c, d)' = Behind(c, d)
      BY <1>1, <1>2, <1>4, <2>0, <2>2, <2>6, AccountedIs
    <3>2. ToCome(c, d)' <= ToCome(c, d) + 0 /\ Settled(c)' + Behind(c, d)' <= Settled(c) + Behind(c, d) + 0
      BY <2>3, <2>5, <2>6, <3>1
    <3>3. failures' = failures + 0
      BY <1>1, <2>5
    <3> QED
      BY <1>1, <1>4, <2>2, <2>4, <3>2, <3>3, PaidFor
  <2>7. CASE s = x
    <3>1. ToCome(c, d)' = 0 /\ Behind(c, d)' = 0
      BY <1>2, <1>4, <2>7, AccountedIs
    <3>2. ~Ahead(s, d)
      BY <1>1, <2>7 DEF Ahead
    <3>3. Behind(c, d) = IF current[s] = c THEN 1 ELSE 0
      BY <1>1, <1>4, <2>7, <3>2, AccountedIs
    <3>4. ~done => current[s] = log[s][settled[s] + 1]
      BY <1>1, <2>0, <2>7 DEF BusInv, SettledInOrder, InHand
    <3>5. ~done' => Settled(c)' + Behind(c, d)' <= Settled(c) + Behind(c, d) + 0
      BY <1>1, <2>3, <2>7, <3>1, <3>3, <3>4
    <3>6. ToCome(c, d)' <= ToCome(c, d) + 0 /\ failures' = failures + 0
      BY <1>1, <2>5, <3>1
    <3> QED
      BY <1>1, <1>4, <2>2, <2>4, <3>5, <3>6, PaidFor
  <2> QED
    BY <2>6, <2>7
<1> QED
  BY <1>3, <1>4

\* A handler that fails may leave a follow-up behind, or have to repeat one: the
\* failure pays for either.
LEMMA HandlerFailsAccounts ==
  ASSUME BusInv, NEW x \in Shards, HandlerFails(x)
  PROVE  /\ \A s \in Shards : InChannel(s) => InChannel(s)'
         /\ \A c, d, s, r : Cause(c, d, s, r) /\ InChannel(s) /\ Accounted(c, d) => Accounted(c, d)'
<1>1. /\ pc[x] = "running" /\ sending[x] = <<>>
      /\ agenda' = [agenda EXCEPT ![x] = <<>>] /\ failures' = failures + 1
      /\ log' = log /\ queue' = queue /\ current' = current /\ sending' = sending /\ done' = done
  BY DEF HandlerFails, BetweenCalls, busVars
<1>2. PICK p \in {"idle", "backoff"} :
        /\ pc' = [pc EXCEPT ![x] = p]
        /\ p = "idle" => settled' = [settled EXCEPT ![x] = settled[x] + 1]
        /\ p = "backoff" => settled' = settled
  <2>1. CASE MaxAttempts > 0 /\ attempt[x] + 1 >= MaxAttempts
    BY <2>1 DEF HandlerFails
  <2>2. CASE ~(MaxAttempts > 0 /\ attempt[x] + 1 >= MaxAttempts)
    BY <2>2 DEF HandlerFails
  <2> QED
    BY <2>1, <2>2
<1>3. /\ pc'[x] = p /\ agenda'[x] = <<>>
      /\ \A h \in Shards \ {x} : pc'[h] = pc[h]
      /\ \A h \in Threads \ {x} : agenda'[h] = agenda[h]
  BY <1>1, <1>2 DEF BusInv, TypeOK, Threads
<1>4. ASSUME NEW s \in Shards, InChannel(s) PROVE InChannel(s)'
  <2>1. pc'[s] \in {"running", "backoff"} => pc[s] \in {"running", "backoff"} /\ current'[s] = current[s]
    BY <1>1, <1>3
  <2> QED
    BY <1>1, <1>4, <2>1, ChannelStays
<1>5. ASSUME NEW c, NEW d, NEW s, NEW r, Cause(c, d, s, r), InChannel(s), Accounted(c, d)
      PROVE  Accounted(c, d)'
  <2>0. s \in Shards
    BY <1>5 DEF Cause
  <2>1. StopsAt(x, d)
    <3>1. ~Has(sending[x], d) /\ ~Has(agenda'[x], d.ev)
      BY <1>1, <1>3 DEF Has
    <3>2. p # "running" /\ pc' = [pc EXCEPT ![x] = p]
      BY <1>2
    <3>3. \E o : o # "running" /\ pc' = [pc EXCEPT ![x] = o]
      BY <3>2
    <3>4. /\ current' = current /\ sending' = sending
          /\ \A h \in Threads \ {x} : agenda'[h] = agenda[h]
      BY <1>1, <1>3
    <3> QED
      BY <3>1, <3>3, <3>4 DEF StopsAt
  <2>2. AheadOnce(c, d)' /\ (Ahead(s, d)' <=> x # s /\ Ahead(s, d))
    <3>1. AheadOnce(c, d)
      BY <1>5, AccountedIs
    <3> QED
      BY <1>5, <2>1, <3>1, Stops
  <2>3. /\ Settled(c) \in Nat
        /\ s # x => Settled(c)' = Settled(c)
        /\ p = "backoff" => Settled(c)' = Settled(c)
        /\ Settled(c)' \in {Settled(c), Settled(c) + 1}
    <3>1. CASE p = "idle"
      BY <1>1, <1>2, <1>5, <3>1, SettlesOneMore
    <3>2. CASE p = "backoff"
      <4>1. PICK l : l = log[s]
        OBVIOUS
      <4>2. Settled(c)' = Settled(c)
        BY <1>1, <1>2, <1>5, <3>2, <4>1, CountsAre
      <4> QED
        BY <1>5, <3>2, <4>2, Numbers
    <3> QED
      BY <1>2, <3>1, <3>2
  <2>4. Settled(c)' \in Nat
    BY <2>3
  <2>5. ToCome(c, d) \in {0, 1} /\ Behind(c, d) \in {0, 1} /\ ToCome(c, d)' \in {0, 1}
    BY <1>5, Numbers
  <2>6. ToCome(c, d)' <= ToCome(c, d) + 1
    BY <2>5
  <2>7. Settled(c)' + Behind(c, d)' <= Settled(c) + Behind(c, d) + 1
    <3>1. CASE s # x
      <4>1. Behind(c, d)' = Behind(c, d)
        BY <1>1, <1>3, <1>5, <2>0, <2>2, <3>1, AccountedIs
      <4> QED
        BY <2>3, <2>5, <3>1, <4>1
    <3>2. CASE s = x
      <4>1. Behind(c, d)' = 0
        BY <1>2, <1>3, <1>5, <3>2, AccountedIs
      <4> QED
        BY <2>3, <2>5, <4>1
    <3> QED
      BY <3>1, <3>2
  <2> QED
    BY <1>1, <1>5, <2>2, <2>4, <2>6, <2>7, PaidFor
<1> QED
  BY <1>4, <1>5

\* A retry has the follow-up ahead of it that the backoff had to come.
LEMMA BackoffOverAccounts ==
  ASSUME BusInv, NEW x \in Shards, BackoffOver(x), InChannel(x)
  PROVE  /\ \A s \in Shards : InChannel(s) => InChannel(s)'
         /\ \A c, d, s, r : Cause(c, d, s, r) /\ InChannel(s) /\ Accounted(c, d) => Accounted(c, d)'
<1>1. /\ pc[x] = "backoff" /\ pc' = [pc EXCEPT ![x] = "running"]
      /\ agenda' = [agenda EXCEPT ![x] = ReactionTo(current[x])]
      /\ log' = log /\ queue' = queue /\ current' = current /\ sending' = sending /\ done' = done
      /\ failures' = failures /\ settled' = settled
  BY DEF BackoffOver, busVars
<1>2. PICK b : b = current[x]
  OBVIOUS
<1>3. /\ b \in Delivery /\ ShardOf[b.ev] = x /\ current' = [current EXCEPT ![x] = b]
      /\ pc'[x] = "running" /\ current'[x] = b
      /\ \A h \in Shards \ {x} : pc'[h] = pc[h]
  BY <1>1, <1>2 DEF BusInv, TypeOK, InChannel
<1>4. ASSUME NEW s \in Shards, InChannel(s) PROVE InChannel(s)'
  <2>1. pc'[s] \in {"running", "backoff"} => pc[s] \in {"running", "backoff"} /\ current'[s] = current[s]
    BY <1>1, <1>3
  <2> QED
    BY <1>1, <1>4, <2>1, ChannelStays
<1>5. ASSUME NEW c, NEW d, NEW s, NEW r, Cause(c, d, s, r), InChannel(s), Accounted(c, d)
      PROVE  Accounted(c, d)'
  <2>0. s \in Shards
    BY <1>5 DEF Cause
  <2>1. StartsOn(x, b)
    BY <1>1, <1>2, <1>3 DEF StartsOn
  <2>2. AheadOnce(c, d)' /\ (Ahead(s, d)' <=> IF x = s THEN b = c ELSE Ahead(s, d))
    <3>1. AheadOnce(c, d)
      BY <1>5, AccountedIs
    <3> QED
      BY <1>5, <2>1, <3>1, Starts
  <2>3. ToCome(c, d)' = ToCome(c, d) /\ Behind(c, d)' = Behind(c, d)
    <3>1. CASE s = x
      <4>1. ToCome(c, d)' = (IF b = c THEN 1 ELSE 0) /\ Behind(c, d)' = 0
        BY <1>3, <1>5, <2>2, <3>1, AccountedIs
      <4>2. ToCome(c, d) = (IF b = c THEN 1 ELSE 0) /\ Behind(c, d) = 0
        BY <1>1, <1>2, <1>5, <3>1, AccountedIs
      <4> QED
        BY <4>1, <4>2
    <3>2. CASE s # x
      BY <1>1, <1>3, <1>5, <2>0, <2>2, <3>2, AccountedIs
    <3> QED
      BY <3>1, <3>2
  <2>4. Settled(c)' = Settled(c)
    <3>1. PICK l : l = log[s]
      OBVIOUS
    <3> QED
      BY <1>1, <1>5, <3>1, CountsAre
  <2> QED
    BY <1>1, <1>5, <2>2, <2>3, <2>4, PaidFor, Numbers
<1> QED
  BY <1>4, <1>5

\* Once the bus is closed a follow-up may be missing, but none is enqueued for
\* nothing.
LEMMA ClosingAccounts ==
  ASSUME BusInv, NEW x \in Shards, BackoffClosed(x) \/ Exit(x)
  PROVE  /\ \A s \in Shards : InChannel(s) => InChannel(s)'
         /\ \A c, d, s, r : Cause(c, d, s, r) /\ InChannel(s) /\ Accounted(c, d) => Accounted(c, d)'
<1>1. PICK p \in {"idle", "exited"} : pc' = [pc EXCEPT ![x] = p]
  BY DEF BackoffClosed, Exit
<1>2. /\ pc[x] # "running" /\ done /\ done' = done
      /\ log' = log /\ queue' = queue /\ current' = current /\ sending' = sending
      /\ failures' = failures /\ agenda' = agenda
  BY DEF BackoffClosed, Exit, busVars
<1>3. pc'[x] = p /\ \A h \in Shards \ {x} : pc'[h] = pc[h]
  BY <1>1 DEF BusInv, TypeOK
<1>4. ASSUME NEW s \in Shards, InChannel(s) PROVE InChannel(s)'
  <2>1. pc'[s] \in {"running", "backoff"} => pc[s] \in {"running", "backoff"} /\ current'[s] = current[s]
    BY <1>1, <1>2, <1>3
  <2> QED
    BY <1>2, <1>4, <2>1, ChannelStays
<1>5. ASSUME NEW c, NEW d, NEW s, NEW r, Cause(c, d, s, r), InChannel(s), Accounted(c, d)
      PROVE  Accounted(c, d)'
  <2>0. s \in Shards /\ AheadOnce(c, d)
    BY <1>5, AccountedIs DEF Cause
  <2>1. StopsAt(x, d)
    <3>1. ~Has(sending[x], d) /\ ~Has(agenda[x], d.ev)
      <4>1. One(agenda, sending, pc, current, c, d) /\ x \in Threads
        BY <2>0, OneIs DEF Threads
      <4> QED
        BY <1>2, <4>1 DEF One
    <3> QED
      BY <1>1, <1>2, <3>1 DEF StopsAt
  <2>2. AheadOnce(c, d)' /\ (Ahead(s, d)' <=> x # s /\ Ahead(s, d))
    BY <1>5, <2>0, <2>1, Stops
  <2>3. ToCome(c, d)' <= ToCome(c, d) + 0
    <3>1. ToCome(c, d) \in {0, 1}
      BY <1>5, Numbers
    <3>2. CASE s = x
      <4>1. ToCome(c, d)' = 0
        BY <1>1, <1>3, <1>5, <3>2, AccountedIs
      <4> QED
        BY <3>1, <4>1
    <3>3. CASE s # x
      <4>1. ToCome(c, d)' = ToCome(c, d)
        BY <1>2, <1>3, <1>5, <2>0, <2>2, <3>3, AccountedIs
      <4> QED
        BY <3>1, <4>1
    <3> QED
      BY <3>2, <3>3
  <2> QED
    BY <1>2, <1>5, <2>2, <2>3, PaidFor, Numbers
<1> QED
  BY <1>4, <1>5

\* Nor does the account depend on whether the bus is closed, but for what is missing.
LEMMA CloseAccounts ==
  ASSUME BusInv, Close \/ UNCHANGED vars
  PROVE  /\ \A s \in Shards : InChannel(s) => InChannel(s)'
         /\ \A c, d, s, r : Cause(c, d, s, r) /\ InChannel(s) /\ Accounted(c, d) => Accounted(c, d)'
<1>1. /\ log' = log /\ queue' = queue /\ current' = current /\ sending' = sending
      /\ failures' = failures /\ agenda' = agenda /\ pc' = pc /\ settled' = settled
      /\ done => done'
  BY DEF Close, vars, busVars, workerVars
<1>2. \A s \in Shards : InChannel(s) => InChannel(s)'
  BY <1>1, ChannelStays
<1>3. ASSUME NEW c, NEW d, NEW s, NEW r, Cause(c, d, s, r), InChannel(s), Accounted(c, d)
      PROVE  Accounted(c, d)'
  <2>1. AheadOnce(c, d)'
    BY <1>1, <1>3, AccountedIs, OneIs
  <2>2. Ahead(s, d)' <=> Ahead(s, d)
    BY <1>1, AheadIs
  <2>3. ToCome(c, d)' = ToCome(c, d) /\ Behind(c, d)' = Behind(c, d)
    BY <1>1, <1>3, <2>2, AccountedIs
  <2>4. Settled(c)' = Settled(c)
    <3>1. PICK l : l = log[s]
      OBVIOUS
    <3> QED
      BY <1>1, <1>3, <3>1, CountsAre
  <2> QED
    BY <1>1, <1>3, <2>1, <2>3, <2>4, PaidFor, Numbers
<1> QED
  BY <1>2, <1>3

-----------------------------------------------------------------------------
(* Every step keeps the accounts. *)

\* At first nothing is enqueued, and the publishers publish no follow-up.
LEMMA InitFollow == Init => FollowUpInv
<1> SUFFICES ASSUME Init PROVE FollowUpInv
  OBVIOUS
<1>1. /\ queue = [s \in Shards |-> <<>>] /\ log = [s \in Shards |-> <<>>]
      /\ agenda = [t \in Threads |-> IF t \in Publishers THEN Script[t] ELSE <<>>]
      /\ sending = [t \in Threads |-> <<>>] /\ pc = [s \in Shards |-> "idle"]
      /\ settled = [s \in Shards |-> 0] /\ failures = 0
  BY DEF Init
<1>2. ASSUME NEW s \in Shards PROVE InChannel(s)
  <2>1. queue[s] = <<>> /\ log[s] = <<>> /\ pc[s] = "idle"
    BY <1>1
  <2>2. Taken(s) >= 0
    BY <2>1 DEF Taken
  <2> QED
    BY <2>1, <2>2 DEF InChannel
<1>3. ASSUME NEW link \in Causal PROVE Accounted(link.cause, link.followUp)
  <2>1. PICK c \in Delivery, d \in Delivery : link.cause = c /\ link.followUp = d /\ LeadsTo(c, d)
    BY <1>3 DEF Causal
  <2>2. PICK s \in Shards : s = ShardOf[c.ev]
    BY DeliveryFacts
  <2>3. PICK r \in Shards : r = ShardOf[d.ev]
    BY DeliveryFacts
  <2>4. Cause(c, d, s, r)
    BY <2>1, <2>2, <2>3 DEF Cause, Threads
  <2>5. AheadOnce(c, d)
    <3>1. ASSUME NEW t \in Threads PROVE ~Has(agenda[t], d.ev) /\ ~Has(sending[t], d)
      BY <1>1, <2>1 DEF Has, LeadsTo
    <3>2. One(agenda, sending, pc, current, c, d)
      BY <3>1 DEF One, Once, Has
    <3> QED
      BY <3>2, OneIs
  <2>6. ToCome(c, d) = 0 /\ Behind(c, d) = 0
    BY <1>1, <2>4, AccountedIs
  <2>7. Enqueued(d) = 0 /\ Settled(c) = 0 /\ Among(log[s], Taken(s), c) = 0
    <3>1. PICK l : l = <<>>
      OBVIOUS
    <3>2. log[s] = l /\ log[r] = l /\ settled[s] = 0 /\ queue[s] = l /\ Len(l) = 0
      BY <1>1, <3>1
    <3>3. Taken(s) = 0
      BY <3>2 DEF Taken
    <3>4. Among(l, 0, d) = 0 /\ Among(l, 0, c) = 0
      BY AmongFacts
    <3> QED
      BY <2>4, <3>2, <3>3, <3>4, CountsAre
  <2>8. Accounted(c, d)
    <3>1. /\ Enqueued(d) + ToCome(c, d) <= Among(log[s], Taken(s), c) + failures
          /\ ~done => Settled(c) + Behind(c, d) <= Enqueued(d) + failures
      BY <1>1, <2>6, <2>7
    <3> QED
      BY <2>4, <2>5, <3>1, AccountedIs
  <2> QED
    BY <2>1, <2>8
<1> QED
  BY <1>2, <1>3 DEF FollowUpInv

\* Each action keeps the accounts of all causes and follow-ups.
LEMMA NextFollow == BusInv /\ FollowUpInv /\ [Next]_vars => FollowUpInv'
<1> SUFFICES ASSUME BusInv, FollowUpInv, [Next]_vars PROVE FollowUpInv'
  OBVIOUS
<1>1. \A s \in Shards : InChannel(s)
  BY DEF FollowUpInv
<1>2. ASSUME NEW c, NEW d, NEW s, NEW r, Cause(c, d, s, r), Accounted(c, d), NEW t \in Threads, Enqueue(t)
      PROVE  Accounted(c, d)'
  BY <1>1, <1>2, EnqueueAccounts DEF Cause
<1>3. ASSUME NEW t \in Threads, Enqueue(t), NEW s \in Shards PROVE InChannel(s)'
  <2>1. Grown(s, Head(sending[t]), log[s], log'[s])
    BY <1>1, <1>3, LogGrows
  <2> QED
    BY <2>1 DEF Grown
<1>4. /\ \A s \in Shards : InChannel(s) => InChannel(s)'
      /\ \A c, d, s, r : Cause(c, d, s, r) /\ InChannel(s) /\ Accounted(c, d) => Accounted(c, d)'
  <2>1. ASSUME NEW t \in Threads, Enqueue(t)
        PROVE  /\ \A s \in Shards : InChannel(s) => InChannel(s)'
               /\ \A c, d, s, r : Cause(c, d, s, r) /\ InChannel(s) /\ Accounted(c, d) => Accounted(c, d)'
    BY <1>2, <1>3, <2>1
  <2>2. CASE \E t \in Threads : Publish(t)
    BY <2>1, <2>2, StartPublishAccounts, RefuseClosedAccounts DEF Publish
  <2>3. CASE \E x \in Shards : Work(x)
    BY <1>1, <2>3, ReceiveAccounts, HandlerReturnsAccounts, BackoffOverAccounts, ClosingAccounts DEF Work
  <2>4. CASE \E x \in Shards : HandlerFails(x)
    BY <2>4, HandlerFailsAccounts
  <2>5. CASE Close \/ UNCHANGED vars
    BY <2>5, CloseAccounts
  <2> QED
    BY <2>2, <2>3, <2>4, <2>5 DEF Next
<1>5. ASSUME NEW link \in Causal PROVE Accounted(link.cause, link.followUp)'
  <2>1. PICK c \in Delivery, d \in Delivery : link.cause = c /\ link.followUp = d /\ LeadsTo(c, d)
    BY <1>5 DEF Causal
  <2>2. PICK s \in Shards : s = ShardOf[c.ev]
    BY DeliveryFacts
  <2>3. PICK r \in Shards : r = ShardOf[d.ev]
    BY DeliveryFacts
  <2>4. Cause(c, d, s, r)
    BY <2>1, <2>2, <2>3 DEF Cause, Threads
  <2>5. Accounted(c, d)
    BY <1>5, <2>1 DEF FollowUpInv
  <2>6. Accounted(c, d)'
    BY <1>1, <1>4, <2>4, <2>5
  <2> QED
    BY <2>1, <2>6
<1> QED
  BY <1>1, <1>4, <1>5 DEF FollowUpInv

\* What has been enqueued of a follow-up fits what has been taken of its cause.
LEMMA CountsFollow == BusInv /\ FollowUpInv => FollowUpsKeepCount
<1> SUFFICES ASSUME BusInv, FollowUpInv, NEW link \in Causal
             PROVE  /\ Enqueued(link.followUp) <= Enqueued(link.cause) + failures
                    /\ ~done => Settled(link.cause) <= Enqueued(link.followUp) + failures
  BY DEF FollowUpsKeepCount
<1>1. PICK c \in Delivery, d \in Delivery : link.cause = c /\ link.followUp = d /\ LeadsTo(c, d)
  BY DEF Causal
<1>2. PICK s \in Shards : s = ShardOf[c.ev]
  BY DeliveryFacts
<1>3. PICK r \in Shards : r = ShardOf[d.ev]
  BY DeliveryFacts
<1>4. Cause(c, d, s, r) /\ InChannel(s)
  BY <1>1, <1>2, <1>3 DEF Cause, Threads, FollowUpInv
<1>5. Accounted(c, d)
  BY <1>1 DEF FollowUpInv
<1>6. PICK l \in Seq(Delivery) : l = log[s]
  BY DEF BusInv, TypeOK
<1>7. PICK n \in Nat : n = Taken(s)
  BY <1>4, Numbers
<1>8. n <= Len(l) /\ Len(l) \in Nat
  <2>1. PICK q \in Seq(Delivery) : q = queue[s]
    BY DEF BusInv, TypeOK
  <2>2. n = Len(l) - Len(q)
    BY <1>6, <1>7, <2>1 DEF Taken
  <2>3. Len(q) \in Nat /\ Len(l) \in Nat
    OBVIOUS
  <2> QED
    BY <2>2, <2>3
<1>9. Among(l, n, c) <= Enqueued(c)
  <2>1. Enqueued(c) = Among(l, Len(l), c)
    BY <1>2, <1>6 DEF Enqueued
  <2> QED
    BY <1>8, <2>1, AmongFewer
<1>10. /\ Enqueued(d) \in Nat /\ Settled(c) \in Nat /\ Among(l, n, c) \in Nat /\ failures \in Nat
       /\ ToCome(c, d) \in {0, 1} /\ Behind(c, d) \in {0, 1}
  BY <1>4, <1>6, <1>7, Numbers
<1>11. /\ Enqueued(d) + ToCome(c, d) <= Among(l, n, c) + failures
       /\ ~done => Settled(c) + Behind(c, d) <= Enqueued(d) + failures
  BY <1>4, <1>5, <1>6, <1>7, AccountedIs
<1>12. Enqueued(c) \in Nat
  BY <1>2, <1>6, <1>8, AmongFacts DEF Enqueued
<1> QED
  BY <1>1, <1>9, <1>10, <1>11, <1>12

-----------------------------------------------------------------------------
(* Each shard serves its deliveries as a line. *)

\* A sequence behind one more member.
LEMMA FirstInLine ==
  ASSUME NEW M, NEW m \in M, NEW q \in Seq(M)
  PROVE  /\ <<m>> \o q # <<>> /\ Tail(<<m>> \o q) = q
         /\ \A o \in M : Append(<<m>> \o q, o) = <<m>> \o Append(q, o)
         /\ q # <<>> => <<Head(q)>> \o Tail(q) = q
<1> DEFINE w == <<m>> \o q
<1>1. /\ w \in Seq(M) /\ Len(w) = Len(q) + 1 /\ Len(q) \in Nat
      /\ w[1] = m /\ \A i \in 1 .. Len(q) : w[i + 1] = q[i]
  OBVIOUS
<1>2. w # <<>>
  BY <1>1
<1>3. Tail(w) = q
  BY <1>1
<1>4. ASSUME NEW o \in M PROVE Append(<<m>> \o q, o) = <<m>> \o Append(q, o)
  OBVIOUS
<1>5. q # <<>> => <<Head(q)>> \o Tail(q) = q
  OBVIOUS
<1> QED
  BY <1>2, <1>3, <1>4, <1>5

\* The worker of s has a delivery in hand.
Busy(s) == pc[s] \in {"running", "backoff"}

\* What a worker has in hand may be tried again; what waits for that has failed.
TriesLeft ==
  \A s \in Shards :
    /\ Busy(s) /\ MaxAttempts > 0 => attempt[s] < MaxAttempts
    /\ pc[s] = "backoff" => attempt[s] > 0

\* At first nothing is in hand.
LEMMA InitTries == Init => TriesLeft
  BY DEF Init, TriesLeft, Busy

\* Only a failure uses up a try, and the last one frees the hand.
LEMMA NextTries == BusInv /\ TriesLeft /\ [Next]_vars => TriesLeft'
<1> SUFFICES ASSUME BusInv, TriesLeft, [Next]_vars, NEW s \in Shards
             PROVE  /\ Busy(s)' /\ MaxAttempts > 0 => attempt'[s] < MaxAttempts
                    /\ pc'[s] = "backoff" => attempt'[s] > 0
  BY DEF TriesLeft
<1>1. /\ Busy(s) /\ MaxAttempts > 0 => attempt[s] < MaxAttempts
      /\ pc[s] = "backoff" => attempt[s] > 0
      /\ attempt[s] \in Nat /\ MaxAttempts \in Nat
      /\ attempt \in [Shards -> Nat] /\ pc \in [Shards -> {"idle", "running", "backoff", "exited"}]
  BY BusAssumption DEF TriesLeft, BusInv, TypeOK
<1>2. CASE attempt' = attempt /\ pc' = pc
  BY <1>1, <1>2 DEF Busy
<1>3. CASE \E t \in Threads : Publish(t)
  BY <1>2, <1>3 DEF Publish, StartPublish, Enqueue, RefuseClosed, workerVars
<1>4. ASSUME NEW x \in Shards, Receive(x) PROVE attempt'[s] < MaxAttempts \/ ~Busy(s)' \/ MaxAttempts = 0
  BY <1>1, <1>4 DEF Receive, Busy
<1>5. ASSUME NEW x \in Shards, Receive(x) PROVE pc'[s] = "backoff" => attempt'[s] > 0
  BY <1>1, <1>5 DEF Receive
<1>6. ASSUME NEW x \in Shards,
             \/ HandlerReturns(x) \/ BackoffClosed(x) \/ Exit(x)
             \/ BackoffOver(x)
      PROVE  /\ Busy(s)' /\ MaxAttempts > 0 => attempt'[s] < MaxAttempts
             /\ pc'[s] = "backoff" => attempt'[s] > 0
  <2>1. PICK p \in {"idle", "running", "exited"} :
          attempt' = attempt /\ pc' = [pc EXCEPT ![x] = p] /\ (p = "running" => pc[x] = "backoff")
    BY <1>6 DEF HandlerReturns, BackoffClosed, Exit, BackoffOver
  <2> QED
    BY <1>1, <2>1 DEF Busy
<1>7. ASSUME NEW x \in Shards, HandlerFails(x)
      PROVE  /\ Busy(s)' /\ MaxAttempts > 0 => attempt'[s] < MaxAttempts
             /\ pc'[s] = "backoff" => attempt'[s] > 0
  <2>1. attempt' = [attempt EXCEPT ![x] = attempt[x] + 1] /\ attempt[x] \in Nat
    BY <1>1, <1>7 DEF HandlerFails
  <2>2. CASE MaxAttempts > 0 /\ attempt[x] + 1 >= MaxAttempts
    <3>1. pc' = [pc EXCEPT ![x] = "idle"]
      BY <1>7, <2>2 DEF HandlerFails
    <3> QED
      BY <1>1, <2>1, <3>1 DEF Busy
  <2>3. CASE ~(MaxAttempts > 0 /\ attempt[x] + 1 >= MaxAttempts)
    <3>1. pc' = [pc EXCEPT ![x] = "backoff"]
      BY <1>7, <2>3 DEF HandlerFails
    <3> QED
      BY <1>1, <2>1, <2>3, <3>1 DEF Busy
  <2> QED
    BY <2>2, <2>3
<1>8. CASE Close \/ UNCHANGED vars
  BY <1>2, <1>8 DEF Close, vars, workerVars
<1> QED
  BY <1>1, <1>3, <1>4, <1>5, <1>6, <1>7, <1>8 DEF Next, Work

\* The line and the tries of a shard, now and after the step.
LEMMA LineIs ==
  ASSUME NEW s \in Shards
  PROVE  /\ Busy(s) => Waiting[s] = <<current[s]>> \o queue[s] /\ Tries[s] = attempt[s]
         /\ ~Busy(s) => Waiting[s] = queue[s] /\ Tries[s] = 0
         /\ Busy(s)' => Waiting'[s] = <<current'[s]>> \o queue'[s] /\ Tries'[s] = attempt'[s]
         /\ ~Busy(s)' => Waiting'[s] = queue'[s] /\ Tries'[s] = 0
  BY DEF Busy, Waiting, Tries, InHand

\* What differs at one shard only, as an EXCEPT.
LEMMA Differs ==
  ASSUME NEW x \in Shards,
         \A s \in Shards \ {x} : Waiting'[s] = Waiting[s] /\ Tries'[s] = Tries[s]
  PROVE  /\ \A w : Waiting'[x] = w => Waiting' = [Waiting EXCEPT ![x] = w]
         /\ \A n : Tries'[x] = n => Tries' = [Tries EXCEPT ![x] = n]
         /\ Waiting'[x] = Waiting[x] => Waiting' = Waiting
         /\ Tries'[x] = Tries[x] => Tries' = Tries
<1>1. /\ Waiting = [s \in Shards |-> Waiting[s]] /\ Waiting' = [s \in Shards |-> Waiting'[s]]
      /\ Tries = [s \in Shards |-> Tries[s]] /\ Tries' = [s \in Shards |-> Tries'[s]]
  BY DEF Waiting, Tries
<1> QED
  BY <1>1

\* What another worker or thread does leaves a shard as it is.
LEMMA OthersStay ==
  ASSUME NEW x \in Shards,
         \A s \in Shards \ {x} : pc'[s] = pc[s] /\ current'[s] = current[s]
                                 /\ queue'[s] = queue[s] /\ attempt'[s] = attempt[s]
  PROVE  \A s \in Shards \ {x} : Waiting'[s] = Waiting[s] /\ Tries'[s] = Tries[s]
<1> SUFFICES ASSUME NEW s \in Shards \ {x} PROVE Waiting'[s] = Waiting[s] /\ Tries'[s] = Tries[s]
  OBVIOUS
<1>1. Busy(s)' <=> Busy(s)
  BY DEF Busy
<1> QED
  BY <1>1, LineIs

\* What the lines see of a step.
Same == Waiting' = Waiting /\ Tries' = Tries /\ settled' = settled /\ failures' = failures /\ done' = done

\* The first of the line of x leaves it.
Leaves(x) ==
  /\ Waiting[x] # <<>>
  /\ Waiting' = [Waiting EXCEPT ![x] = Tail(Waiting[x])]
  /\ Tries' = [Tries EXCEPT ![x] = 0]
  /\ done' = done

\* A worker that lets go of its delivery takes it out of the line.
LEMMA WorkerLeaves ==
  ASSUME BusInv, NEW x \in Shards, Busy(x), NEW p \in {"idle", "exited"}, pc' = [pc EXCEPT ![x] = p],
         queue' = queue, current' = current, done' = done,
         \A s \in Shards \ {x} : attempt'[s] = attempt[s]
  PROVE  Leaves(x)
<1>1. PICK q \in Seq(Delivery) : q = queue[x]
  BY DEF BusInv, TypeOK
<1>2. PICK m \in Delivery : m = current[x]
  BY DEF BusInv, TypeOK, Busy
<1>3. pc'[x] = p /\ \A s \in Shards \ {x} : pc'[s] = pc[s]
  BY DEF BusInv, TypeOK
<1>4. Waiting[x] = <<m>> \o q /\ Waiting'[x] = q /\ Tries'[x] = 0
  BY <1>1, <1>2, <1>3, LineIs DEF Busy
<1>5. Waiting[x] # <<>> /\ Tail(Waiting[x]) = q
  BY <1>4, FirstInLine
<1>6. \A s \in Shards \ {x} : Waiting'[s] = Waiting[s] /\ Tries'[s] = Tries[s]
  BY <1>3, OthersStay
<1>7. Waiting' = [Waiting EXCEPT ![x] = q] /\ Tries' = [Tries EXCEPT ![x] = 0]
  BY <1>4, <1>6, Differs
<1> QED
  BY <1>5, <1>7 DEF Leaves

\* Enqueueing is joining; the rest of Publish is not seen.
LEMMA PublishServes ==
  ASSUME BusInv, NEW t \in Threads, Publish(t)
  PROVE  Same \/ \E m \in Delivery : Served!Join(m)
<1>1. CASE StartPublish(t) \/ RefuseClosed(t)
  <2>1. queue' = queue /\ pc' = pc /\ current' = current /\ attempt' = attempt /\ settled' = settled
        /\ failures' = failures /\ done' = done
    BY <1>1 DEF StartPublish, RefuseClosed, busVars, workerVars
  <2> QED
    BY <2>1 DEF Same, Waiting, Tries, InHand
<1>2. CASE Enqueue(t)
  <2>1. PICK m \in Delivery : m = Head(sending[t])
    BY <1>2, HeadTail DEF Enqueue, BusInv, TypeOK
  <2>2. PICK x \in Shards : x = ShardOf[m.ev]
    BY DeliveryFacts
  <2>3. PICK q \in Seq(Delivery) : q = queue[x]
    BY DEF BusInv, TypeOK
  <2>4. /\ queue' = [queue EXCEPT ![x] = Append(q, m)]
        /\ pc' = pc /\ current' = current /\ attempt' = attempt /\ settled' = settled
        /\ failures' = failures /\ done' = done
    BY <1>2, <2>1, <2>2, <2>3 DEF Enqueue, workerVars
  <2>5. queue'[x] = Append(q, m) /\ \A s \in Shards \ {x} : queue'[s] = queue[s]
    BY <2>4 DEF BusInv, TypeOK
  <2>6. \A s \in Shards \ {x} : Waiting'[s] = Waiting[s] /\ Tries'[s] = Tries[s]
    BY <2>4, <2>5, OthersStay
  <2>7. Waiting'[x] = Append(Waiting[x], m) /\ Tries'[x] = Tries[x]
    <3>1. CASE Busy(x)
      <4>1. PICK c \in Delivery : c = current[x]
        BY <3>1 DEF BusInv, TypeOK, Busy
      <4>2. Busy(x)'
        BY <2>4, <3>1 DEF Busy
      <4>3. Waiting[x] = <<c>> \o q /\ Waiting'[x] = <<c>> \o Append(q, m) /\ Tries'[x] = Tries[x]
        BY <2>3, <2>4, <2>5, <3>1, <4>1, <4>2, LineIs
      <4>4. Append(<<c>> \o q, m) = <<c>> \o Append(q, m)
        BY FirstInLine
      <4> QED
        BY <4>3, <4>4
    <3>2. CASE ~Busy(x)
      <4>1. ~Busy(x)'
        BY <2>4, <3>2 DEF Busy
      <4> QED
        BY <2>3, <2>5, <3>2, <4>1, LineIs
    <3> QED
      BY <3>1, <3>2
  <2>8. Waiting' = [Waiting EXCEPT ![x] = Append(Waiting[x], m)] /\ Tries' = Tries
    BY <2>6, <2>7, Differs
  <2>9. [d \in Delivery |-> ShardOf[d.ev]][m] = x
    BY <2>2
  <2>10. Served!Join(m)
    BY <2>4, <2>8, <2>9 DEF Served!Join
  <2> QED
    BY <2>10
<1> QED
  BY <1>1, <1>2 DEF Publish

\* The delivery that a worker starts on is the first already.
LEMMA StartServes ==
  ASSUME BusInv, NEW x \in Shards, Receive(x) \/ BackoffOver(x)
  PROVE  Same
<1>1. CASE Receive(x)
  <2>1. PICK q \in Seq(Delivery) : q = queue[x]
    BY DEF BusInv, TypeOK
  <2>2. /\ q # <<>> /\ pc[x] = "idle" /\ pc'[x] = "running" /\ current'[x] = Head(q)
        /\ queue'[x] = Tail(q) /\ attempt'[x] = 0
        /\ settled' = settled /\ failures' = failures /\ done' = done
        /\ \A s \in Shards \ {x} : pc'[s] = pc[s] /\ current'[s] = current[s]
                                   /\ queue'[s] = queue[s] /\ attempt'[s] = attempt[s]
    BY <1>1, <2>1 DEF Receive, BusInv, TypeOK
  <2>3. \A s \in Shards \ {x} : Waiting'[s] = Waiting[s] /\ Tries'[s] = Tries[s]
    BY <2>2, OthersStay
  <2>4. ~Busy(x) /\ Busy(x)'
    BY <2>2 DEF Busy
  <2>5. Waiting[x] = q /\ Waiting'[x] = <<Head(q)>> \o Tail(q) /\ Tries[x] = 0 /\ Tries'[x] = 0
    BY <2>1, <2>2, <2>4, LineIs
  <2>6. <<Head(q)>> \o Tail(q) = q
    BY <2>2
  <2>7. Waiting' = Waiting /\ Tries' = Tries
    BY <2>3, <2>5, <2>6, Differs
  <2> QED
    BY <2>2, <2>7 DEF Same
<1>2. CASE BackoffOver(x)
  <2>1. /\ pc[x] = "backoff" /\ pc' = [pc EXCEPT ![x] = "running"]
        /\ queue' = queue /\ current' = current /\ attempt' = attempt /\ settled' = settled
        /\ failures' = failures /\ done' = done
    BY <1>2 DEF BackoffOver, busVars
  <2>2. InHand' = InHand
    BY <2>1 DEF InHand, BusInv, TypeOK
  <2> QED
    BY <2>1, <2>2 DEF Same, Waiting, Tries
<1> QED
  BY <1>1, <1>2

\* A handler that returns serves its delivery.
LEMMA HandlerReturnsServes ==
  ASSUME BusInv, NEW x \in Shards, HandlerReturns(x)
  PROVE  Served!Succeed(x)
<1>1. /\ pc[x] = "running" /\ pc' = [pc EXCEPT ![x] = "idle"]
      /\ settled' = [settled EXCEPT ![x] = settled[x] + 1]
      /\ queue' = queue /\ current' = current /\ attempt' = attempt
      /\ failures' = failures /\ done' = done
  BY DEF HandlerReturns, BetweenCalls, busVars
<1>2. Leaves(x)
  BY <1>1, WorkerLeaves DEF Busy
<1> QED
  BY <1>1, <1>2 DEF Leaves, Served!Succeed, Served!Leave

\* One that fails is tried again, or gives up at the last try.
LEMMA HandlerFailsServes ==
  ASSUME BusInv, TriesLeft, NEW x \in Shards, HandlerFails(x)
  PROVE  Served!FailAgain(x) \/ Served!GiveUp(x)
<1>1. /\ pc[x] = "running" /\ failures' = failures + 1
      /\ attempt' = [attempt EXCEPT ![x] = attempt[x] + 1]
      /\ queue' = queue /\ current' = current /\ done' = done
  BY DEF HandlerFails, BetweenCalls, busVars
<1>2. /\ Busy(x) /\ attempt[x] \in Nat /\ attempt'[x] = attempt[x] + 1 /\ MaxAttempts \in Nat
      /\ \A s \in Shards \ {x} : attempt'[s] = attempt[s]
      /\ MaxAttempts > 0 => attempt[x] < MaxAttempts
  BY <1>1, BusAssumption DEF Busy, BusInv, TypeOK, TriesLeft
<1>3. Tries[x] = attempt[x] /\ Waiting[x] = <<current[x]>> \o queue[x]
  BY <1>2, LineIs
<1>4. CASE MaxAttempts > 0 /\ attempt[x] + 1 >= MaxAttempts
  <2>1. pc' = [pc EXCEPT ![x] = "idle"] /\ settled' = [settled EXCEPT ![x] = settled[x] + 1]
    BY <1>4 DEF HandlerFails
  <2>2. Leaves(x)
    BY <1>1, <1>2, <2>1, WorkerLeaves
  <2>3. MaxAttempts > 0 /\ Tries[x] + 1 = MaxAttempts
    BY <1>2, <1>3, <1>4
  <2>4. Served!GiveUp(x)
    BY <1>1, <2>1, <2>2, <2>3 DEF Leaves, Served!GiveUp, Served!Leave, Served!LastTry
  <2> QED
    BY <2>4
<1>5. CASE ~(MaxAttempts > 0 /\ attempt[x] + 1 >= MaxAttempts)
  <2>1. pc' = [pc EXCEPT ![x] = "backoff"] /\ settled' = settled
    BY <1>5 DEF HandlerFails
  <2>2. pc'[x] = "backoff" /\ \A s \in Shards \ {x} : pc'[s] = pc[s]
    BY <2>1 DEF BusInv, TypeOK
  <2>3. \A s \in Shards \ {x} : Waiting'[s] = Waiting[s] /\ Tries'[s] = Tries[s]
    BY <1>1, <1>2, <2>2, OthersStay
  <2>4. Waiting'[x] = Waiting[x] /\ Tries'[x] = Tries[x] + 1
    <3>1. Busy(x)'
      BY <2>2 DEF Busy
    <3> QED
      BY <1>1, <1>2, <1>3, <3>1, LineIs
  <2>5. Waiting' = Waiting /\ Tries' = [Tries EXCEPT ![x] = Tries[x] + 1]
    BY <2>3, <2>4, Differs
  <2>6. Waiting[x] # <<>>
    <3>1. PICK q \in Seq(Delivery) : q = queue[x]
      BY DEF BusInv, TypeOK
    <3>2. PICK m \in Delivery : m = current[x]
      BY <1>1 DEF BusInv, TypeOK
    <3> QED
      BY <1>3, <3>1, <3>2, FirstInLine
  <2>7. ~(MaxAttempts > 0 /\ Tries[x] + 1 = MaxAttempts)
    BY <1>2, <1>3, <1>5
  <2>8. Served!FailAgain(x)
    BY <1>1, <2>1, <2>5, <2>6, <2>7 DEF Served!FailAgain, Served!LastTry
  <2> QED
    BY <2>8
<1> QED
  BY <1>4, <1>5

\* A backoff that the closed bus ends abandons its delivery.
LEMMA ClosingServes ==
  ASSUME BusInv, TriesLeft, NEW x \in Shards, BackoffClosed(x) \/ Exit(x)
  PROVE  Same \/ Served!Abandon(x)
<1>1. /\ done /\ done' = done /\ queue' = queue /\ current' = current /\ attempt' = attempt
      /\ failures' = failures /\ settled' = settled
  BY DEF BackoffClosed, Exit, busVars
<1>2. CASE BackoffClosed(x)
  <2>1. pc[x] = "backoff" /\ pc' = [pc EXCEPT ![x] = "idle"]
    BY <1>2 DEF BackoffClosed
  <2>2. Busy(x) /\ attempt[x] > 0
    BY <2>1 DEF Busy, TriesLeft
  <2>3. Leaves(x)
    BY <1>1, <2>1, <2>2, WorkerLeaves
  <2>4. Tries[x] > 0
    BY <2>2, LineIs
  <2>5. Served!Abandon(x)
    BY <1>1, <2>3, <2>4 DEF Leaves, Served!Abandon, Served!Leave
  <2> QED
    BY <2>5
<1>3. CASE Exit(x)
  <2>1. InHand' = InHand
    BY <1>3 DEF Exit, InHand, BusInv, TypeOK
  <2> QED
    BY <1>1, <2>1 DEF Same, Waiting, Tries
<1> QED
  BY <1>2, <1>3

\* Close leaves the lines as they are.
LEMMA CloseServes ==
  ASSUME Close \/ UNCHANGED vars
  PROVE  Same \/ Served!CloseLines
<1>1. /\ queue' = queue /\ current' = current /\ attempt' = attempt /\ pc' = pc
      /\ failures' = failures /\ settled' = settled
  BY DEF Close, vars, busVars, workerVars
<1>2. Waiting' = Waiting /\ Tries' = Tries
  BY <1>1 DEF Waiting, Tries, InHand
<1> QED
  BY <1>1, <1>2 DEF Close, vars, Same, Served!CloseLines

\* Every step is one of the lines, or none.
LEMMA StepServes ==
  BusInv /\ TriesLeft /\ [Next]_vars => [Served!LinesNext]_(Served!linesVars)
<1> SUFFICES ASSUME BusInv, TriesLeft, [Next]_vars
             PROVE  Same \/ Served!LinesNext
  BY DEF Same, Served!linesVars
<1>1. CASE \E t \in Threads : Publish(t)
  BY <1>1, PublishServes DEF Served!LinesNext
<1>2. ASSUME NEW x \in Shards, Work(x) PROVE Same \/ Served!LinesNext
  <2>1. CASE Receive(x) \/ BackoffOver(x)
    BY <2>1, StartServes
  <2>2. CASE HandlerReturns(x)
    BY <2>2, HandlerReturnsServes DEF Served!LinesNext
  <2>3. CASE BackoffClosed(x) \/ Exit(x)
    BY <2>3, ClosingServes DEF Served!LinesNext
  <2> QED
    BY <1>2, <2>1, <2>2, <2>3 DEF Work
<1>3. ASSUME NEW x \in Shards, HandlerFails(x) PROVE Served!LinesNext
  BY <1>3, HandlerFailsServes DEF Served!LinesNext
<1>4. CASE Close \/ UNCHANGED vars
  BY <1>4, CloseServes DEF Served!LinesNext
<1> QED
  BY <1>1, <1>2, <1>3, <1>4 DEF Next

\* The lines are empty at first.
LEMMA InitServes == Init => Served!LinesInit
<1> SUFFICES ASSUME Init PROVE Served!LinesInit
  OBVIOUS
<1>1. ASSUME NEW s \in Shards PROVE Waiting[s] = <<>> /\ Tries[s] = 0
  BY LineIs DEF Init, Busy
<1>2. Waiting = [s \in Shards |-> <<>>] /\ Tries = [s \in Shards |-> 0]
  BY <1>1 DEF Waiting, Tries
<1> QED
  BY <1>2 DEF Init, Served!LinesInit

-----------------------------------------------------------------------------
(* The theorems. *)

\* No shard ever holds more than its capacity, and all state has its type.
THEOREM BusTypeCorrect == Spec => []TypeOK
<1>1. BusInv => TypeOK
  BY DEF BusInv
<1> QED
  BY <1>1, Invariance, PTL

\* While the bus is open a shard settles its deliveries in the order in which
\* they were enqueued and loses none, whoever publishes and whatever fails.
THEOREM BusSettlesInOrder == Spec => []SettledInOrder
<1>1. BusInv => SettledInOrder
  BY DEF BusInv
<1> QED
  BY <1>1, Invariance, PTL

\* The account of every cause and its follow-up is right at every moment.
THEOREM FollowUpsAccounted == Spec => []FollowUpInv
  BY InitFollow, NextFollow, Invariance, PTL DEF Spec

\* A follow-up is enqueued too often, or is missing once its cause is settled, no
\* more often than handlers failed, whatever is full, blocked or retried.
THEOREM FollowUpsCounted == Spec => []FollowUpsKeepCount
  BY CountsFollow, FollowUpsAccounted, Invariance, PTL

\* Each shard serves its deliveries as a line of EventLines does, also when it is
\* full, a handler fails or the bus is closed.
THEOREM BusServesLines == Spec => ImplementsLines
<1>1. Spec => []TriesLeft
  BY InitTries, NextTries, Invariance, PTL DEF Spec
<1> QED
  BY <1>1, InitServes, StepServes, Invariance, PTL DEF Spec, ImplementsLines, Served!LinesSpec

=============================================================================
