--------------------------------- MODULE Bus ---------------------------------
(***************************************************************************)
(* kit/broker: the in-process bus.  Publish copies an event to the shard   *)
(* of its partition key once per handler, blocking while the shard is      *)
(* full; one worker per shard takes the deliveries in order and repeats    *)
(* each until its handler returns nil.  A handler publishes from inside    *)
(* its worker.                                                             *)
(*                                                                         *)
(* What the workflow makes of the bus is PaymentWorkflow, where queues are *)
(* unbounded and Publish is one step; here are the steps of Publish, the   *)
(* capacity of a shard, Close, and any graph of events and handlers.       *)
(***************************************************************************)
EXTENDS Integers, Sequences, FiniteSets

CONSTANTS
  Shards,       \* shards, each with its worker
  Capacity,     \* BufferPerShard
  MaxAttempts,  \* how often a delivery is attempted; 0 for ever
  Publishers,   \* goroutines that publish and are no workers
  Events,       \* events published, each with its name and key
  ShardOf,      \* shardForKey(partitionKey(event))
  Reactions,    \* for each event and handler of it, the events that publishes
  Script,       \* the events each publisher publishes, in order
  MaxFailures   \* bound: how often handlers return an error or panic

Threads == Publishers \union Shards

\* NewWithConfig replaces a size below 1 by 1.
ASSUME BusAssumption ==
  /\ Capacity \in Nat \ {0}
  /\ MaxAttempts \in Nat
  /\ MaxFailures \in Nat
  /\ ShardOf \in [Events -> Shards]
  /\ Reactions \in [Events -> Seq(Seq(Events))]
  /\ Script \in [Publishers -> Seq(Events)]
  /\ Publishers \intersect Shards = {}

\* delivery: an event and the index of one of its handlers.
Delivery == UNION {[ev : {e}, handler : DOMAIN Reactions[e]] : e \in Events}

VARIABLES
  queue,     \* b.shards: the deliveries in each shard's channel
  agenda,    \* events each thread has still to publish
  sending,   \* deliveries the Publish a thread is in has still to enqueue
  pc,        \* each worker: idle, running a handler, backoff, exited
  current,   \* the delivery of each worker that runs or backs off
  attempt,   \* failed attempts at it
  done,      \* b.done is closed
  failures,
  \* History, for the properties:
  log,       \* every delivery that has been enqueued, in order
  settled    \* how many of them the worker is finished with

busVars == <<queue, log>>
workerVars == <<pc, current, attempt, failures, settled>>
vars == <<busVars, workerVars, agenda, sending, done>>

\* No worker has a delivery at first; this one is overwritten before it is used.
Nothing == [ev |-> CHOOSE e \in Events : TRUE, handler |-> 0]

Init ==
  /\ queue = [s \in Shards |-> <<>>]
  /\ agenda = [t \in Threads |-> IF t \in Publishers THEN Script[t] ELSE <<>>]
  /\ sending = [t \in Threads |-> <<>>]
  /\ pc = [s \in Shards |-> "idle"]
  /\ current = [s \in Shards |-> Nothing]
  /\ attempt = [s \in Shards |-> 0]
  /\ done = FALSE
  /\ failures = 0
  /\ log = [s \in Shards |-> <<>>]
  /\ settled = [s \in Shards |-> 0]

-----------------------------------------------------------------------------
(* Publish. *)

\* One delivery for each handler, in the order of subscription.
Deliveries(e) == [i \in DOMAIN Reactions[e] |-> [ev |-> e, handler |-> i]]

StartPublish(t) ==
  /\ sending[t] = <<>>
  /\ agenda[t] # <<>>
  /\ sending' = [sending EXCEPT ![t] = Deliveries(Head(agenda[t]))]
  /\ agenda' = [agenda EXCEPT ![t] = Tail(@)]
  /\ UNCHANGED <<busVars, workerVars, done>>

\* Mutant: one more than the channel holds.
EnqueueOneMore(t) ==
  /\ sending[t] # <<>>
  /\ LET d == Head(sending[t])
         s == ShardOf[d.ev]
     IN /\ Len(queue[s]) <= Capacity
        /\ queue' = [queue EXCEPT ![s] = Append(@, d)]
        /\ log' = [log EXCEPT ![s] = Append(@, d)]
  /\ sending' = [sending EXCEPT ![t] = Tail(@)]
  /\ UNCHANGED <<workerVars, agenda, done>>

\* The channel takes the delivery, closed or not, when it has room.
Enqueue(t) ==
  /\ sending[t] # <<>>
  /\ LET d == Head(sending[t])
         s == ShardOf[d.ev]
     IN /\ Len(queue[s]) < Capacity
        /\ queue' = [queue EXCEPT ![s] = Append(@, d)]
        /\ log' = [log EXCEPT ![s] = Append(@, d)]
  /\ sending' = [sending EXCEPT ![t] = Tail(@)]
  /\ UNCHANGED <<workerVars, agenda, done>>

\* Mutant: the sender that waits for room does not look at done.
RefuseUnlessBlocked(t) ==
  /\ sending[t] # <<>>
  /\ done
  /\ Len(queue[ShardOf[Head(sending[t]).ev]]) < Capacity
  /\ sending' = [sending EXCEPT ![t] = Tail(@)]
  /\ UNCHANGED <<busVars, workerVars, agenda, done>>

\* Mutant: the sender does not wait for room.
RefuseWhenFull(t) ==
  /\ sending[t] # <<>>
  /\ done \/ Len(queue[ShardOf[Head(sending[t]).ev]]) = Capacity
  /\ sending' = [sending EXCEPT ![t] = Tail(@)]
  /\ UNCHANGED <<busVars, workerVars, agenda, done>>

\* <-b.done is chosen: the delivery is reported as an error, the next is tried.
RefuseClosed(t) ==
  /\ sending[t] # <<>>
  /\ done
  /\ sending' = [sending EXCEPT ![t] = Tail(@)]
  /\ UNCHANGED <<busVars, workerVars, agenda, done>>

Publish(t) == StartPublish(t) \/ Enqueue(t) \/ RefuseClosed(t)

-----------------------------------------------------------------------------
(* worker, processDelivery and safeHandle. *)

\* The events the handler of a delivery publishes when all goes well.
ReactionTo(d) == Reactions[d.ev][d.handler]

\* Mutant: the last delivery is taken first.
ReceiveLast(s) ==
  /\ pc[s] = "idle"
  /\ queue[s] # <<>>
  /\ LET d == queue[s][Len(queue[s])]
     IN /\ current' = [current EXCEPT ![s] = d]
        /\ agenda' = [agenda EXCEPT ![s] = ReactionTo(d)]
  /\ queue' = [queue EXCEPT ![s] = SubSeq(@, 1, Len(@) - 1)]
  /\ pc' = [pc EXCEPT ![s] = "running"]
  /\ attempt' = [attempt EXCEPT ![s] = 0]
  /\ UNCHANGED <<sending, done, failures, log, settled>>

\* Taken from the channel, whose room is free again, and handled.
Receive(s) ==
  /\ pc[s] = "idle"
  /\ queue[s] # <<>>
  /\ LET d == Head(queue[s])
     IN /\ current' = [current EXCEPT ![s] = d]
        /\ agenda' = [agenda EXCEPT ![s] = ReactionTo(d)]
  /\ queue' = [queue EXCEPT ![s] = Tail(@)]
  /\ pc' = [pc EXCEPT ![s] = "running"]
  /\ attempt' = [attempt EXCEPT ![s] = 0]
  /\ UNCHANGED <<sending, done, failures, log, settled>>

\* The handler of s is not inside a call of Publish.
BetweenCalls(s) == pc[s] = "running" /\ sending[s] = <<>>

\* Mutant: a handler that returns nil uses up an attempt like one that fails.
HandlerReturnsAgain(s) ==
  /\ BetweenCalls(s)
  /\ agenda[s] = <<>>
  /\ attempt' = [attempt EXCEPT ![s] = @ + 1]
  /\ IF attempt[s] + 1 >= MaxAttempts
     THEN /\ pc' = [pc EXCEPT ![s] = "idle"]
          /\ settled' = [settled EXCEPT ![s] = @ + 1]
     ELSE /\ pc' = [pc EXCEPT ![s] = "backoff"]
          /\ UNCHANGED settled
  /\ UNCHANGED <<busVars, current, failures, agenda, sending, done>>

HandlerReturns(s) ==
  /\ BetweenCalls(s)
  /\ agenda[s] = <<>>
  /\ pc' = [pc EXCEPT ![s] = "idle"]
  /\ settled' = [settled EXCEPT ![s] = @ + 1]
  /\ UNCHANGED <<busVars, current, attempt, failures, agenda, sending, done>>

\* Mutant: a delivery is attempted once more than MaxAttempts.
HandlerFailsOnceMore(s) ==
  /\ BetweenCalls(s)
  /\ failures < MaxFailures
  /\ failures' = failures + 1
  /\ agenda' = [agenda EXCEPT ![s] = <<>>]
  /\ attempt' = [attempt EXCEPT ![s] = @ + 1]
  /\ IF MaxAttempts > 0 /\ attempt[s] >= MaxAttempts
     THEN /\ pc' = [pc EXCEPT ![s] = "idle"]
          /\ settled' = [settled EXCEPT ![s] = @ + 1]
     ELSE /\ pc' = [pc EXCEPT ![s] = "backoff"]
          /\ UNCHANGED settled
  /\ UNCHANGED <<busVars, current, sending, done>>

\* The handler returns an error, or panics, which safeHandle makes one.
HandlerFails(s) ==
  /\ BetweenCalls(s)
  /\ failures < MaxFailures
  /\ failures' = failures + 1
  /\ agenda' = [agenda EXCEPT ![s] = <<>>]
  /\ attempt' = [attempt EXCEPT ![s] = @ + 1]
  /\ IF MaxAttempts > 0 /\ attempt[s] + 1 >= MaxAttempts
     THEN /\ pc' = [pc EXCEPT ![s] = "idle"]
          /\ settled' = [settled EXCEPT ![s] = @ + 1]
     ELSE /\ pc' = [pc EXCEPT ![s] = "backoff"]
          /\ UNCHANGED settled
  /\ UNCHANGED <<busVars, current, sending, done>>

\* Mutant: the worker goes on to the next delivery.
BackoffOverNext(s) ==
  /\ pc[s] = "backoff"
  /\ pc' = [pc EXCEPT ![s] = "idle"]
  /\ UNCHANGED <<busVars, current, attempt, failures, settled, agenda, sending, done>>

BackoffOver(s) ==
  /\ pc[s] = "backoff"
  /\ pc' = [pc EXCEPT ![s] = "running"]
  /\ agenda' = [agenda EXCEPT ![s] = ReactionTo(current[s])]
  /\ UNCHANGED <<busVars, current, attempt, failures, settled, sending, done>>

\* The bus is closed during the backoff: the delivery is given up, and the
\* worker's loop chooses again.
BackoffClosed(s) ==
  /\ pc[s] = "backoff"
  /\ done
  /\ pc' = [pc EXCEPT ![s] = "idle"]
  /\ UNCHANGED <<busVars, current, attempt, failures, settled, agenda, sending, done>>

Exit(s) ==
  /\ pc[s] = "idle"
  /\ done
  /\ pc' = [pc EXCEPT ![s] = "exited"]
  /\ UNCHANGED <<busVars, current, attempt, failures, settled, agenda, sending, done>>

Work(s) ==
  \/ Receive(s)
  \/ HandlerReturns(s)
  \/ BackoffOver(s)
  \/ BackoffClosed(s)
  \/ Exit(s)

-----------------------------------------------------------------------------

\* Close, up to the wait for the workers.
Close ==
  /\ ~done
  /\ done' = TRUE
  /\ UNCHANGED <<busVars, workerVars, agenda, sending>>

Next ==
  \/ \E t \in Threads : Publish(t)
  \/ \E s \in Shards : Work(s) \/ HandlerFails(s)
  \/ Close

Spec == Init /\ [][Next]_vars

\* Goroutines run, handlers that do not fail return, and a channel with room
\* takes what a blocked sender holds.  Nothing has to fail or to be closed.
Fairness ==
  /\ \A t \in Threads : WF_vars(Publish(t))
  /\ \A s \in Shards : WF_vars(Work(s))

FairSpec == Spec /\ Fairness

-----------------------------------------------------------------------------
(* Properties. *)

\* The type of the state.
TypeOK ==
  /\ queue \in [Shards -> Seq(Delivery)]
  /\ \A s \in Shards : Len(queue[s]) <= Capacity
  /\ agenda \in [Threads -> Seq(Events)]
  /\ sending \in [Threads -> Seq(Delivery)]
  /\ pc \in [Shards -> {"idle", "running", "backoff", "exited"}]
  /\ current \in [Shards -> Delivery \union {Nothing}]
  /\ \A s \in Shards : pc[s] \in {"running", "backoff"} => current[s] \in Delivery
  /\ attempt \in [Shards -> Nat]
  /\ done \in BOOLEAN
  /\ failures \in 0 .. MaxFailures
  /\ log \in [Shards -> Seq(Delivery)]
  /\ settled \in [Shards -> Nat]

\* How many deliveries each worker has in hand.
InHand == [s \in Shards |-> IF pc[s] \in {"running", "backoff"} THEN 1 ELSE 0]

\* README, Ordering and Delivery: until the bus is closed, a shard's deliveries
\* are settled one by one in the order in which they were enqueued, none lost,
\* repeated or overtaken, whatever fails and is retried: those not settled are
\* the one in hand and then those in the channel.
SettledInOrder ==
  ~done => \A s \in Shards :
    /\ Len(log[s]) = settled[s] + InHand[s] + Len(queue[s])
    /\ InHand[s] = 1 => current[s] = log[s][settled[s] + 1]
    /\ \A i \in DOMAIN queue[s] : queue[s][i] = log[s][settled[s] + InHand[s] + i]

\* How often d is among the first n deliveries of l, among all that were enqueued,
\* and among those a worker is finished with.
Among(l, n, d) == Cardinality({i \in 1 .. n : l[i] = d})
Enqueued(d) == LET l == log[ShardOf[d.ev]] IN Among(l, Len(l), d)
Settled(d) == LET s == ShardOf[d.ev] IN Among(log[s], settled[s], d)

\* The handler of c publishes the event of d, once, and nothing else does.
LeadsTo(c, d) ==
  /\ \A p \in Publishers : \A i \in DOMAIN Script[p] : Script[p][i] # d.ev
  /\ \E i \in DOMAIN ReactionTo(c) :
       \A b \in Delivery : \A j \in DOMAIN ReactionTo(b) :
         ReactionTo(b)[j] = d.ev <=> b = c /\ j = i

Causal ==
  {[cause |-> pair[1], followUp |-> pair[2]] :
     pair \in {p \in Delivery \X Delivery : LeadsTo(p[1], p[2])}}

\* A handler that fails is started again and publishes again what it had published
\* already (bus.go:153).  Each follow-up that is enqueued too often was paid for by
\* a failure, and, until the bus is closed, each that is missing once its cause is
\* settled was given up after one: without failures it is enqueued exactly once for
\* each delivery of its cause, whatever shards are full and whoever waits.
FollowUpsKeepCount ==
  \A link \in Causal :
    /\ Enqueued(link.followUp) <= Enqueued(link.cause) + failures
    /\ ~done => Settled(link.cause) <= Enqueued(link.followUp) + failures

\* t has still to enqueue d, in the Publish it is in or in a later one.
Ahead(t, d) ==
  \/ \E i \in DOMAIN agenda[t] : agenda[t][i] = d.ev
  \/ \E i \in DOMAIN sending[t] : sending[t][i] = d

\* Only the handler of c has d ahead of it, and that once.
AheadOnce(c, d) ==
  \A t \in Threads :
    /\ Ahead(t, d) => t = ShardOf[c.ev] /\ pc[t] = "running" /\ current[t] = c
    /\ \A i, j \in DOMAIN agenda[t] : agenda[t][i] = d.ev /\ agenda[t][j] = d.ev => i = j
    /\ \A i, j \in DOMAIN sending[t] : sending[t][i] = d /\ sending[t][j] = d => i = j
    /\ ~ \E i \in DOMAIN agenda[t], j \in DOMAIN sending[t] :
           agenda[t][i] = d.ev /\ sending[t][j] = d

\* What the worker that has c in hand may still enqueue of d, and what it has
\* enqueued of it in this attempt, before c is settled.
ToCome(c, d) ==
  LET s == ShardOf[c.ev] IN
  IF current[s] = c /\ (pc[s] = "backoff" \/ (pc[s] = "running" /\ Ahead(s, d))) THEN 1 ELSE 0
Behind(c, d) ==
  LET s == ShardOf[c.ev] IN
  IF current[s] = c /\ pc[s] = "running" /\ ~Ahead(s, d) THEN 1 ELSE 0

\* How many deliveries the worker of s has taken.
Taken(s) == Len(log[s]) - Len(queue[s])

\* The log of s has its own deliveries only, the channel holds those of them that
\* the worker has not taken, and the worker has one of them in hand.
InChannel(s) ==
  /\ \A n \in DOMAIN log[s] : ShardOf[log[s][n].ev] = s
  /\ Taken(s) >= 0 /\ \A i \in DOMAIN queue[s] : queue[s][i] = log[s][Taken(s) + i]
  /\ pc[s] \in {"running", "backoff"} => ShardOf[current[s].ev] = s

\* The account of cause and follow-up at every moment.
Accounted(c, d) ==
  LET s == ShardOf[c.ev] IN
  /\ AheadOnce(c, d)
  /\ Enqueued(d) + ToCome(c, d) <= Among(log[s], Taken(s), c) + failures
  /\ ~done => Settled(c) + Behind(c, d) <= Enqueued(d) + failures

\* What FollowUpsKeepCount needs to be preserved by every step, before a cause is
\* settled and its follow-ups enqueued.  (bus.go, Publish and processDelivery.)
FollowUpInv ==
  /\ \A s \in Shards : InChannel(s)
  /\ \A link \in Causal : Accounted(link.cause, link.followUp)

\* The deliveries of a shard: the one in hand and then those in the channel; and the
\* failed attempts at the first of them.
Waiting == [s \in Shards |-> IF InHand[s] = 1 THEN <<current[s]>> \o queue[s] ELSE queue[s]]
Tries == [s \in Shards |-> IF InHand[s] = 1 THEN attempt[s] ELSE 0]

Served == INSTANCE EventLines
  WITH Lines    <- Shards,
       Members  <- Delivery,
       LineOf   <- [d \in Delivery |-> ShardOf[d.ev]],
       MaxTries <- MaxAttempts,
       line     <- Waiting,
       tries    <- Tries,
       served   <- settled,
       failed   <- failures,
       closed   <- done

\* Whatever is full, blocked, retried or closed, each shard serves its deliveries as
\* a line: no step of a publisher or worker takes one out of its turn, tries it
\* once more than allowed or once less, or drops it unless the bus is closed.
\* (bus.go, Publish, worker and processDelivery together.)
ImplementsLines == Served!LinesSpec

\* Where a delivery is in a shard's log once it is settled, 0 if it is not.
SettledAt(s, d) ==
  LET places == {n \in 1 .. settled[s] : log[s][n] = d}
  IN IF places = {} THEN 0 ELSE CHOOSE n \in places : \A m \in places : n <= m

\* README:224: "Events with the same PartitionKey() are processed in FIFO order
\* by a single worker."  No two handlers see two events in opposite orders.
HandlersSeeOneOrder ==
  \A s \in Shards : \A e, f \in Events : \A i \in DOMAIN Reactions[e], j \in DOMAIN Reactions[f] :
    i \in DOMAIN Reactions[f] /\ j \in DOMAIN Reactions[e] =>
      LET at(ev, handler) == SettledAt(s, [ev |-> ev, handler |-> handler])
      IN ~ /\ 0 < at(e, i) /\ at(e, i) < at(f, i)
           /\ 0 < at(f, j) /\ at(f, j) < at(e, j)

\* README:226: "At-least-once delivery (in-process) via retries."  What has been
\* enqueued is settled in the end, as long as the bus is not closed (the workers
\* catch up, for what the publishers publish is finite).
EnqueuedIsSettled ==
  \A s \in Shards : settled[s] < Len(log[s]) ~> settled[s] = Len(log[s]) \/ done

\* The workers of some shards wait for each other's, or their own, full shards:
\* each is inside a handler whose Publish is blocked by a shard among them.
Gridlock ==
  \E stuck \in (SUBSET Shards) \ {{}} :
    \A s \in stuck :
      /\ sending[s] # <<>>
      /\ LET shard == ShardOf[Head(sending[s]).ev]
         IN shard \in stuck /\ Len(queue[shard]) = Capacity

\* What EnqueuedIsSettled leaves true: nothing but Close and workers that wait
\* for each other in a cycle keeps an enqueued delivery from being settled, not
\* failures, retries, blocked publishers or other keys (bus.go:119).
SettledUnlessGridlock ==
  \A s \in Shards :
    settled[s] < Len(log[s]) ~> settled[s] = Len(log[s]) \/ done \/ Gridlock

\* Close returns: the workers exit, also those blocked on a full shard.
CloseReturns == done ~> \A s \in Shards : pc[s] = "exited"

=============================================================================
