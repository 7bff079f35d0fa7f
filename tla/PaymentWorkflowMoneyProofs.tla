---------------------- MODULE PaymentWorkflowMoneyProofs ----------------------
(***************************************************************************)
(* The workflow never mishandles money: with unique payment ids, the       *)
(* status of every payment agrees with what was done to its money, but for *)
(* what a failed write of wallets.json left behind, and every step is a    *)
(* step of PaymentLifecycle.                                               *)
(*                                                                         *)
(* The argument: a payment never has more than one message, because its    *)
(* request publishes one and each handler replaces the one it handles by   *)
(* at most one other.  So the step a worker takes for a payment cannot     *)
(* meet another, and the message tells the position of the payment (its    *)
(* status and its money).                                                  *)
(***************************************************************************)
EXTENDS PaymentWorkflowProofs

-----------------------------------------------------------------------------
(* Records and positions. *)

\* What the table and the ledgers have of p, now and after the step.
Record(p) == <<payments[p].status, debits[p], charges[p], refunds[p]>>
NewRecord(p) == <<payments'[p].status, debits'[p], charges'[p], refunds'[p]>>

\* InPosition, Money, DebitsTried and Mishaps as functions of the record of a payment,
\* of the failed writes, and of what is on the bus for it.
MishapsIn(rec, money) ==
  rec[2] + rec[4] - (CASE money = "none"                 -> 0
                       [] money \in {"held", "captured"} -> 1
                       [] money = "released"             -> 2
                       [] OTHER                          -> 0)

LedgerIn(rec, failures, money) ==
  /\ MishapsIn(rec, money) \in 0 .. failures
  /\ rec[2] <= 2
  /\ rec[2] > 0 => rec[1] # "none"
  /\ rec[4] > 0 => rec[1] = "failed"
  /\ money # "none" => rec[2] > 0
  /\ money = "released" => rec[4] > 0
  /\ rec[3] = IF money = "captured" THEN 1 ELSE 0

Stands(rec, failures, position) ==
  rec[1] = position[1] /\ LedgerIn(rec, failures, position[2])

Tried(m, n) ==
  /\ m.ev = "payment.initialized" => n = 0
  /\ m.ev = "wallet.debit_requested" => m.attempt \in {1, 2} /\ n = m.attempt - 1
  /\ m.ev = "recovery.requested" =>
       \/ m.action = "payment.charge"
       \/ m.action = "wallet.debit" /\ m.attempt = 1 /\ n = 1

MoneyIn(rec, debited, busy) ==
  LET held == \/ rec[1] = "initialized" /\ debited
              \/ rec[1] = "pending"
              \/ rec[1] = "failed" /\ busy
  IN CASE rec[3] = 0 /\ held                               -> "held"
       [] rec[3] = 0 /\ ~held                              ->
            IF rec[1] = "failed" THEN "released" ELSE "none"
       [] rec[3] = 1 /\ rec[1] \in {"pending", "succeeded"} -> "captured"
       [] OTHER                                            -> "corrupt"

\* InFlight, Carried and Money after the step.
NewInFlight(p) ==
  \E s \in Shards : \E i \in 1 .. Len(queue'[s]) : queue'[s][i].pid = p
NewCarried(p, ev) ==
  \E s \in Shards : \E i \in 1 .. Len(queue'[s]) : queue'[s][i].pid = p /\ queue'[s][i].ev = ev
NewMoney(p) ==
  MoneyIn(NewRecord(p), NewCarried(p, "wallet.debited"), NewInFlight(p))

\* The positions of payments, and the moves between them.
Positions ==
  {<<"none", "none">>, <<"initialized", "none">>, <<"initialized", "held">>,
   <<"rejected", "none">>, <<"pending", "held">>, <<"pending", "captured">>,
   <<"succeeded", "captured">>, <<"failed", "held">>, <<"failed", "released">>}

LegalMoves ==
  {<< <<"none", "none">>, <<"initialized", "none">> >>,
   << <<"initialized", "none">>, <<"initialized", "held">> >>,
   << <<"initialized", "none">>, <<"rejected", "none">> >>,
   << <<"initialized", "held">>, <<"pending", "held">> >>,
   << <<"pending", "held">>, <<"pending", "captured">> >>,
   << <<"pending", "captured">>, <<"succeeded", "captured">> >>,
   << <<"pending", "held">>, <<"failed", "held">> >>,
   << <<"failed", "held">>, <<"failed", "released">> >>}

\* A step of PaymentLifecycle from a to b, or none: the payment moves and its mishaps
\* stay, or a write fails and they are one more.
LegalStep(before, a, after, b) ==
  \/ a = b /\ after = before /\ ioFailures' = ioFailures
  \/ /\ <<a, b>> \in LegalMoves
     /\ MishapsIn(after, b[2]) = MishapsIn(before, a[2])
     /\ ioFailures' = ioFailures
     /\ after[4] >= before[4]
  \/ /\ a = b /\ a \in {<<"initialized", "none">>, <<"failed", "held">>}
     /\ after[1] = before[1]
     /\ MishapsIn(after, b[2]) = MishapsIn(before, a[2]) + 1
     /\ ioFailures' = ioFailures + 1
     /\ after[4] >= before[4]

\* The step leaves the record and the money of every payment but p.
OthersStay(p) == \A q \in PaymentIDs \ {p} : NewRecord(q) = Record(q)
OthersKeep(p) == \A q \in PaymentIDs \ {p} : NewMoney(q) = Money(q)

\* The step leaves every payment where it is, or moves one.
NoMove ==
  /\ \A p \in PaymentIDs : NewRecord(p) = Record(p) /\ NewMoney(p) = Money(p)
  /\ ioFailures' = ioFailures

MovesTo(p, a, b) ==
  /\ OthersStay(p) /\ OthersKeep(p)
  /\ Stands(Record(p), ioFailures, a) /\ Money(p) = a[2]
  /\ Stands(NewRecord(p), ioFailures', b) /\ NewMoney(p) = b[2]
  /\ LegalStep(Record(p), a, NewRecord(p), b)

Advance ==
  \/ NoMove
  \/ \E p \in PaymentIDs : \E a, b \in Positions : MovesTo(p, a, b)

\* Writes fail, and do not recover.
FailuresGrow == ioFailures \in Nat /\ ioFailures' \in Nat /\ ioFailures' >= ioFailures

\* The definitions of PaymentWorkflow in these terms.
LEMMA PositionIs ==
  ASSUME NEW p, NEW position
  PROVE  /\ InPosition(p, position) <=> Stands(Record(p), ioFailures, position)
         /\ InPosition(p, position)' <=> Stands(NewRecord(p), ioFailures', position)
  BY DEF InPosition, Ledger, Mishaps, Stands, LedgerIn, MishapsIn, Record, NewRecord

LEMMA MoneyIs ==
  ASSUME NEW p
  PROVE  /\ Money(p) = MoneyIn(Record(p), Carried(p, "wallet.debited"), InFlight(p))
         /\ Money(p)' = NewMoney(p)
  BY DEF Money, Held, MoneyIn, Record, NewRecord, NewMoney, InFlight, NewInFlight,
         Carried, NewCarried

LEMMA MishapsIs ==
  ASSUME NEW p, NEW money
  PROVE  /\ Mishaps(p, money) = MishapsIn(Record(p), money)
         /\ Mishaps(p, money)' = MishapsIn(NewRecord(p), money)
  BY DEF Mishaps, MishapsIn, Record, NewRecord

LEMMA TriedIs ==
  ASSUME NEW m
  PROVE  /\ DebitsTried(m) <=> Tried(m, debits[m.pid])
         /\ DebitsTried(m)' <=> Tried(m, debits'[m.pid])
  BY DEF DebitsTried, Tried

\* A delivery of m, with its handler at place at, tells the position of its payment.
Placed(m, at) ==
  Stands(Record(m.pid), ioFailures, Expected(m, at)) /\ Tried(m, debits[m.pid])
NewPlaced(m, at) ==
  Stands(NewRecord(m.pid), ioFailures', Expected(m, at)) /\ Tried(m, debits'[m.pid])

LEMMA PlacedIs ==
  /\ MessagesInPosition <=>
       \A s \in Shards : \A i \in DOMAIN queue[s] : Placed(queue[s][i], Place(s, i))
  /\ MessagesInPosition' <=>
       \A s \in Shards : \A i \in DOMAIN queue'[s] : NewPlaced(queue'[s][i], Place(s, i)')
<1>1. ASSUME NEW m, NEW at
      PROVE  InPosition(m.pid, Expected(m, at)) /\ DebitsTried(m) <=> Placed(m, at)
  BY PositionIs, TriedIs DEF Placed
<1>2. MessagesInPosition <=>
        \A s \in Shards : \A i \in DOMAIN queue[s] : Placed(queue[s][i], Place(s, i))
  BY <1>1 DEF MessagesInPosition
<1>3. ASSUME NEW s, NEW i
      PROVE  (InPosition(queue[s][i].pid, Expected(queue[s][i], Place(s, i))) /\ DebitsTried(queue[s][i]))'
                <=> NewPlaced(queue'[s][i], Place(s, i)')
  BY DEF InPosition, Ledger, Mishaps, DebitsTried, NewPlaced, Stands, LedgerIn, MishapsIn,
         NewRecord, Tried, Expected
<1>4. MessagesInPosition' <=>
        \A s \in Shards : \A i \in DOMAIN queue'[s] : NewPlaced(queue'[s][i], Place(s, i)')
  BY <1>3 DEF MessagesInPosition
<1> QED
  BY <1>2, <1>4

\* What was true of a record stays true of it while writes fail.
LEMMA StandsOn ==
  ASSUME FailuresGrow, NEW rec, NEW position, Stands(rec, ioFailures, position)
  PROVE  Stands(rec, ioFailures', position)
<1>1. MishapsIn(rec, position[2]) \in 0 .. ioFailures'
  <2>1. MishapsIn(rec, position[2]) \in 0 .. ioFailures
    BY DEF Stands, LedgerIn
  <2> QED
    BY <2>1 DEF FailuresGrow
<1> QED
  BY <1>1 DEF Stands, LedgerIn

LEMMA PlacedOn ==
  ASSUME FailuresGrow, NEW m, NEW at, NewRecord(m.pid) = Record(m.pid), Placed(m, at)
  PROVE  NewPlaced(m, at)
<1>1. debits'[m.pid] = debits[m.pid]
  BY DEF NewRecord, Record
<1> QED
  BY <1>1, StandsOn DEF Placed, NewPlaced

\* MoneyMatchesStatus is that every record stands at some position.
LEMMA MoneyIsPosition ==
  ASSUME TypeOK
  PROVE  /\ MoneyMatchesStatus <=>
              \A p \in PaymentIDs :
                \E position \in Positions : Stands(Record(p), ioFailures, position)
         /\ TypeOK' => (MoneyMatchesStatus' <=>
              \A p \in PaymentIDs :
                \E position \in Positions : Stands(NewRecord(p), ioFailures', position))
<1>1. ASSUME NEW status \in Statuses, NEW money
      PROVE  money \in MoneyOf(status) <=> <<status, money>> \in Positions
  BY DEF Statuses, MoneyOf, Positions
<1>2. \A position \in Positions : position = <<position[1], position[2]>>
  BY DEF Positions
<1>3. ASSUME NEW p \in PaymentIDs
      PROVE  (\E money \in MoneyOf(payments[p].status) : Ledger(p, money)) <=>
             (\E position \in Positions : Stands(Record(p), ioFailures, position))
  <2>1. payments[p].status \in Statuses
    BY DEF TypeOK, Payment
  <2>2. ASSUME NEW money
        PROVE  Ledger(p, money) <=> LedgerIn(Record(p), ioFailures, money)
    BY DEF Ledger, Mishaps, LedgerIn, MishapsIn, Record
  <2>3. Record(p)[1] = payments[p].status
    BY DEF Record
  <2>4. ASSUME NEW money \in MoneyOf(payments[p].status), Ledger(p, money)
        PROVE  \E position \in Positions : Stands(Record(p), ioFailures, position)
    <3>1. <<payments[p].status, money>> \in Positions
      BY <1>1, <2>1, <2>4
    <3>2. Stands(Record(p), ioFailures, <<payments[p].status, money>>)
      BY <2>2, <2>3, <2>4 DEF Stands
    <3> QED
      BY <3>1, <3>2
  <2>5. ASSUME NEW position \in Positions, Stands(Record(p), ioFailures, position)
        PROVE  \E money \in MoneyOf(payments[p].status) : Ledger(p, money)
    <3>1. position = <<payments[p].status, position[2]>> /\ LedgerIn(Record(p), ioFailures, position[2])
      BY <1>2, <2>3, <2>5 DEF Stands
    <3>2. position[2] \in MoneyOf(payments[p].status)
      BY <1>1, <2>1, <2>5, <3>1
    <3> QED
      BY <2>2, <3>1, <3>2
  <2> QED
    BY <2>4, <2>5
<1>4. ASSUME NEW p \in PaymentIDs, TypeOK'
      PROVE  (\E money \in MoneyOf(payments'[p].status) : Ledger(p, money)') <=>
             (\E position \in Positions : Stands(NewRecord(p), ioFailures', position))
  <2>1. payments'[p].status \in Statuses
    BY <1>4 DEF TypeOK, Payment
  <2>2. ASSUME NEW money
        PROVE  Ledger(p, money)' <=> LedgerIn(NewRecord(p), ioFailures', money)
    BY DEF Ledger, Mishaps, LedgerIn, MishapsIn, NewRecord
  <2>3. NewRecord(p)[1] = payments'[p].status
    BY DEF NewRecord
  <2>4. ASSUME NEW money \in MoneyOf(payments'[p].status), Ledger(p, money)'
        PROVE  \E position \in Positions : Stands(NewRecord(p), ioFailures', position)
    <3>1. <<payments'[p].status, money>> \in Positions
      BY <1>1, <2>1, <2>4
    <3>2. Stands(NewRecord(p), ioFailures', <<payments'[p].status, money>>)
      BY <2>2, <2>3, <2>4 DEF Stands
    <3> QED
      BY <3>1, <3>2
  <2>5. ASSUME NEW position \in Positions, Stands(NewRecord(p), ioFailures', position)
        PROVE  \E money \in MoneyOf(payments'[p].status) : Ledger(p, money)'
    <3>1. position = <<payments'[p].status, position[2]>> /\ LedgerIn(NewRecord(p), ioFailures', position[2])
      BY <1>2, <2>3, <2>5 DEF Stands
    <3>2. position[2] \in MoneyOf(payments'[p].status)
      BY <1>1, <2>1, <2>5, <3>1
    <3> QED
      BY <2>2, <3>1, <3>2
  <2> QED
    BY <2>4, <2>5
<1> QED
  BY <1>3, <1>4 DEF MoneyMatchesStatus

\* A step that advances keeps MoneyMatchesStatus.
LEMMA AdvanceKeepsMoney ==
  ASSUME TypeOK, TypeOK', MoneyMatchesStatus, Advance, FailuresGrow
  PROVE  MoneyMatchesStatus'
<1>1. \A p \in PaymentIDs : \E position \in Positions : Stands(Record(p), ioFailures, position)
  BY MoneyIsPosition
<1>2. ASSUME NEW p \in PaymentIDs, NewRecord(p) = Record(p)
      PROVE  \E position \in Positions : Stands(NewRecord(p), ioFailures', position)
  BY <1>1, <1>2, StandsOn
<1>3. ASSUME NEW p \in PaymentIDs
      PROVE  \E position \in Positions : Stands(NewRecord(p), ioFailures', position)
  BY <1>2 DEF Advance, NoMove, MovesTo, OthersStay
<1> QED
  BY <1>3, MoneyIsPosition

\* The message of a payment tells its money.
LEMMA MessageTells ==
  ASSUME NEW m \in Message, NEW at, NEW rec, NEW failures, Stands(rec, failures, Expected(m, at))
  PROVE  /\ MoneyIn(rec, m.ev = "wallet.debited", TRUE) = Expected(m, at)[2]
         /\ Expected(m, at) \in Positions
<1>1. m.ev \in EventNames
  BY DEF Message
<1>2. /\ Expected(m, at) \in Positions
      /\ Expected(m, at)[1] = "initialized" =>
           (Expected(m, at)[2] = "held" <=> m.ev = "wallet.debited")
      /\ Expected(m, at)[1] \in {"initialized", "pending", "failed"}
      /\ Expected(m, at) # <<"failed", "released">>
  BY <1>1 DEF Expected, EventNames, Positions
<1> DEFINE e == Expected(m, at)
<1> HIDE DEF e
<1>3. /\ rec[1] = e[1] /\ rec[3] = (IF e[2] = "captured" THEN 1 ELSE 0)
  BY DEF Stands, LedgerIn, e
<1> QED
  BY <1>2, <1>3 DEF MoneyIn, Positions, e

\* So does its status, when it has none.
LEMMA RestTells ==
  ASSUME NEW rec, NEW failures,
         NEW e \in Positions \ {<<"initialized", "held">>, <<"failed", "held">>},
         Stands(rec, failures, e)
  PROVE  MoneyIn(rec, FALSE, FALSE) = e[2]
<1>1. rec[1] = e[1] /\ rec[3] = (IF e[2] = "captured" THEN 1 ELSE 0)
  BY DEF Stands, LedgerIn
<1> QED
  BY <1>1 DEF MoneyIn, Positions

-----------------------------------------------------------------------------
(* One message per payment. *)

\* The delivery a worker is busy with is the only message of its payment.
LEMMA HeadAlone ==
  ASSUME WorkflowInv, NEW s \in Shards, queue[s] # <<>>
  PROVE  /\ Head(queue[s]) = queue[s][1] /\ 1 \in DOMAIN queue[s]
         /\ Head(queue[s]) \in Message /\ Head(queue[s]).pid \in PaymentIDs
         /\ Head(queue[s]).req \in Requests /\ Head(queue[s]).ev \in EventNames
         /\ ShardOf[Head(queue[s]).pid] = s
         /\ ReqPayment[Head(queue[s]).req] = Head(queue[s]).pid
         /\ http[Head(queue[s]).req] \in {"published", "replied"}
         /\ Placed(Head(queue[s]), wpc[s])
         /\ Expected(Head(queue[s]), wpc[s]) \in Positions
         /\ Money(Head(queue[s]).pid) = Expected(Head(queue[s]), wpc[s])[2]
         /\ \A t \in Shards : \A i \in DOMAIN queue[t] :
              queue[t][i].pid = Head(queue[s]).pid => t = s /\ i = 1
<1>1. Head(queue[s]) = queue[s][1] /\ 1 \in DOMAIN queue[s]
  BY HeadFacts DEF WorkflowInv
<1>2. queue \in [Shards -> Seq(Message)]
  BY DEF WorkflowInv, TypeInv, TypeOK
<1>3. /\ queue[s][1] \in Message /\ queue[s][1].pid \in PaymentIDs
      /\ queue[s][1].req \in Requests /\ queue[s][1].ev \in EventNames
  BY <1>1, <1>2, ElementFacts
<1>4. /\ ShardOf[queue[s][1].pid] = s
      /\ ReqPayment[queue[s][1].req] = queue[s][1].pid
      /\ http[queue[s][1].req] \in {"published", "replied"}
  BY <1>1 DEF WorkflowInv, MessagesHome
<1>5. Placed(queue[s][1], wpc[s])
  <2>1. Place(s, 1) = wpc[s]
    BY DEF Place
  <2> QED
    BY <1>1, <2>1, PlacedIs DEF WorkflowInv
<1>6. ASSUME NEW t \in Shards, NEW i \in DOMAIN queue[t], queue[t][i].pid = queue[s][1].pid
      PROVE  t = s /\ i = 1
  <2>1. t = s
    BY <1>4, <1>6 DEF WorkflowInv, MessagesHome
  <2> QED
    BY <1>1, <1>6, <2>1 DEF WorkflowInv, OneMessage
<1>7. /\ Expected(queue[s][1], wpc[s]) \in Positions
      /\ Money(queue[s][1].pid) = Expected(queue[s][1], wpc[s])[2]
  <2> DEFINE p == queue[s][1].pid
  <2>1. queue[s] \in Seq(Message) /\ DOMAIN queue[s] = 1 .. Len(queue[s])
    BY <1>2
  <2>2. InFlight(p)
    BY <1>1, <2>1 DEF InFlight
  <2>3. Carried(p, "wallet.debited") <=> queue[s][1].ev = "wallet.debited"
    <3>1. queue[s][1].ev = "wallet.debited" => Carried(p, "wallet.debited")
      BY <1>1, <2>1 DEF Carried
    <3>2. ASSUME Carried(p, "wallet.debited") PROVE queue[s][1].ev = "wallet.debited"
      <4>1. PICK t \in Shards : \E i \in 1 .. Len(queue[t]) :
              queue[t][i].pid = p /\ queue[t][i].ev = "wallet.debited"
        BY <3>2 DEF Carried
      <4>2. DOMAIN queue[t] = 1 .. Len(queue[t])
        BY <1>2
      <4> QED
        BY <1>6, <4>1, <4>2
    <3> QED
      BY <3>1, <3>2
  <2>4. Stands(Record(p), ioFailures, Expected(queue[s][1], wpc[s]))
    BY <1>5 DEF Placed
  <2> HIDE DEF p
  <2>5. MoneyIn(Record(p), queue[s][1].ev = "wallet.debited", TRUE) = Expected(queue[s][1], wpc[s])[2]
        /\ Expected(queue[s][1], wpc[s]) \in Positions
    BY <1>3, <2>4, MessageTells
  <2>6. MoneyIn(Record(p), Carried(p, "wallet.debited"), InFlight(p)) = Expected(queue[s][1], wpc[s])[2]
    BY <2>2, <2>3, <2>5 DEF MoneyIn
  <2> QED
    BY <2>5, <2>6, MoneyIs DEF p
<1> QED
  BY <1>1, <1>3, <1>4, <1>5, <1>6, <1>7

\* The request of another payment is not the one a message descends from.
LEMMA RequestsStay ==
  ASSUME WorkflowInv, UniqueIDs, NEW s \in Shards, queue[s] # <<>>,
         http' = http, OthersStay(Head(queue[s]).pid), FailuresGrow
  PROVE  RequestsInPosition'
<1> SUFFICES ASSUME NEW r \in Requests, http[r] \in {"start", "saved"}
    PROVE  /\ http[r] = "start" => Stands(NewRecord(ReqPayment[r]), ioFailures', <<"none", "none">>)
           /\ http[r] = "saved" =>
                /\ Stands(NewRecord(ReqPayment[r]), ioFailures', <<"initialized", "none">>)
                /\ debits'[ReqPayment[r]] = 0
  BY PositionIs DEF RequestsInPosition
<1>1. ReqPayment[r] # Head(queue[s]).pid
  BY HeadAlone DEF UniqueIDs
<1>2. NewRecord(ReqPayment[r]) = Record(ReqPayment[r])
  BY <1>1, WorkflowAssumption DEF OthersStay
<1>3. /\ http[r] = "start" => Stands(Record(ReqPayment[r]), ioFailures, <<"none", "none">>)
      /\ http[r] = "saved" =>
           /\ Stands(Record(ReqPayment[r]), ioFailures, <<"initialized", "none">>)
           /\ debits[ReqPayment[r]] = 0
  BY PositionIs DEF WorkflowInv, RequestsInPosition
<1>4. debits'[ReqPayment[r]] = debits[ReqPayment[r]]
  BY <1>2 DEF Record, NewRecord
<1> QED
  BY <1>2, <1>3, <1>4, StandsOn

\* The deliveries after the head move up when it is dropped.
LEMMA MoveUp ==
  ASSUME NEW M, NEW q \in Seq(M), q # <<>>
  PROVE  /\ \A i \in 2 .. Len(q) : i - 1 \in 1 .. Len(Tail(q)) /\ Tail(q)[i - 1] = q[i]
         /\ \A m \in M : \A i \in 2 .. Len(q) :
              i - 1 \in 1 .. Len(Append(Tail(q), m)) /\ Append(Tail(q), m)[i - 1] = q[i]
  OBVIOUS

\* What a worker does to its queue with a delivery of p leaves the deliveries of
\* other payments there.
LEMMA OthersCarried ==
  ASSUME queue \in [Shards -> Seq(Message)], NEW s \in Shards, queue[s] # <<>>,
         NEW p, p = Head(queue[s]).pid,
         \/ queue' = queue
         \/ queue' = [queue EXCEPT ![s] = Tail(@)]
         \/ \E m \in Message : m.pid = p /\ queue' = [queue EXCEPT ![s] = Append(Tail(@), m)]
  PROVE  OthersStay(p) => OthersKeep(p)
<1> DEFINE KeptOn(t) ==
             /\ DOMAIN queue[t] = 1 .. Len(queue[t]) /\ DOMAIN queue'[t] = 1 .. Len(queue'[t])
             /\ \A i \in DOMAIN queue'[t] :
                  queue'[t][i].pid # p => \E j \in DOMAIN queue[t] : queue[t][j] = queue'[t][i]
             /\ \A i \in DOMAIN queue[t] :
                  queue[t][i].pid # p => \E j \in DOMAIN queue'[t] : queue'[t][j] = queue[t][i]
           Kept == \A t \in Shards : KeptOn(t)
<1>1. Head(queue[s]) = queue[s][1] /\ queue[s] \in Seq(Message)
  BY QueueFacts
<1>2. \A t \in Shards : DOMAIN queue[t] = 1 .. Len(queue[t])
  OBVIOUS
<1>3. \A i \in DOMAIN queue[s] : queue[s][i].pid # p => i \in 2 .. Len(queue[s])
  BY <1>1, <1>2
<1>4. ASSUME queue' = queue
      PROVE  Kept
  BY <1>2, <1>4
<1>5. ASSUME queue' = [queue EXCEPT ![s] = Tail(@)]
      PROVE  Kept
  <2>1. /\ queue' \in [Shards -> Seq(Message)] /\ queue'[s] = Tail(queue[s])
        /\ \A i \in DOMAIN queue'[s] : i + 1 \in DOMAIN queue[s] /\ queue'[s][i] = queue[s][i + 1]
        /\ \A t \in Shards : t # s => queue'[t] = queue[t]
    BY <1>5, ReturnFacts
  <2>2. \A t \in Shards : DOMAIN queue'[t] = 1 .. Len(queue'[t])
    BY <2>1
  <2>3. \A i \in 2 .. Len(queue[s]) : i - 1 \in 1 .. Len(queue'[s]) /\ queue'[s][i - 1] = queue[s][i]
    BY <1>1, <2>1, MoveUp
  <2>4. ASSUME NEW i \in DOMAIN queue'[s], queue'[s][i].pid # p
        PROVE  \E j \in DOMAIN queue[s] : queue[s][j] = queue'[s][i]
    BY <2>1, <2>4
  <2>5. ASSUME NEW i \in DOMAIN queue[s], queue[s][i].pid # p
        PROVE  \E j \in DOMAIN queue'[s] : queue'[s][j] = queue[s][i]
    <3>1. i - 1 \in DOMAIN queue'[s] /\ queue'[s][i - 1] = queue[s][i]
      BY <1>3, <2>2, <2>3, <2>5
    <3> QED
      BY <3>1
  <2>6. \A t \in Shards \ {s} : KeptOn(t)
    BY <1>2, <2>1
  <2>7. KeptOn(s)
    BY <1>2, <2>2, <2>4, <2>5
  <2> HIDE DEF KeptOn
  <2> QED
    BY <2>6, <2>7
<1>6. ASSUME NEW m \in Message, m.pid = p, queue' = [queue EXCEPT ![s] = Append(Tail(@), m)]
      PROVE  Kept
  <2>1. /\ queue' \in [Shards -> Seq(Message)] /\ queue'[s] = Append(Tail(queue[s]), m)
        /\ \A i \in DOMAIN queue'[s] :
             \/ i + 1 \in DOMAIN queue[s] /\ queue'[s][i] = queue[s][i + 1]
             \/ i = Len(queue[s]) /\ queue'[s][i] = m
        /\ \A t \in Shards : t # s => queue'[t] = queue[t]
    BY <1>6, PublishFacts
  <2>2. \A t \in Shards : DOMAIN queue'[t] = 1 .. Len(queue'[t])
    BY <2>1
  <2>3. \A i \in 2 .. Len(queue[s]) : i - 1 \in 1 .. Len(queue'[s]) /\ queue'[s][i - 1] = queue[s][i]
    BY <1>1, <2>1, MoveUp
  <2>4. ASSUME NEW i \in DOMAIN queue'[s], queue'[s][i].pid # p
        PROVE  \E j \in DOMAIN queue[s] : queue[s][j] = queue'[s][i]
    BY <1>6, <2>1, <2>4
  <2>5. ASSUME NEW i \in DOMAIN queue[s], queue[s][i].pid # p
        PROVE  \E j \in DOMAIN queue'[s] : queue'[s][j] = queue[s][i]
    <3>1. i - 1 \in DOMAIN queue'[s] /\ queue'[s][i - 1] = queue[s][i]
      BY <1>3, <2>2, <2>3, <2>5
    <3> QED
      BY <3>1
  <2>6. \A t \in Shards \ {s} : KeptOn(t)
    BY <1>2, <2>1
  <2>7. KeptOn(s)
    BY <1>2, <2>2, <2>4, <2>5
  <2> HIDE DEF KeptOn
  <2> QED
    BY <2>6, <2>7
<1>7. Kept
  BY <1>4, <1>5, <1>6
<1> SUFFICES ASSUME OthersStay(p), NEW q \in PaymentIDs \ {p} PROVE NewMoney(q) = Money(q)
  BY DEF OthersKeep
<1>8. NewInFlight(q) <=> InFlight(q)
  <2>1. ASSUME InFlight(q) PROVE NewInFlight(q)
    <3>1. PICK t \in Shards, i \in Nat : i \in DOMAIN queue[t] /\ queue[t][i].pid = q
      BY <1>7, <2>1 DEF InFlight
    <3>2. PICK j \in DOMAIN queue'[t] : queue'[t][j] = queue[t][i]
      BY <1>7, <3>1
    <3> QED
      BY <1>7, <3>1, <3>2 DEF NewInFlight
  <2>2. ASSUME NewInFlight(q) PROVE InFlight(q)
    <3>1. PICK t \in Shards, i \in Nat : i \in DOMAIN queue'[t] /\ queue'[t][i].pid = q
      BY <1>7, <2>2 DEF NewInFlight
    <3>2. PICK j \in DOMAIN queue[t] : queue[t][j] = queue'[t][i]
      BY <1>7, <3>1
    <3> QED
      BY <1>7, <3>1, <3>2 DEF InFlight
  <2> QED
    BY <2>1, <2>2
<1>9. NewCarried(q, "wallet.debited") <=> Carried(q, "wallet.debited")
  <2>1. ASSUME Carried(q, "wallet.debited") PROVE NewCarried(q, "wallet.debited")
    <3>1. PICK t \in Shards, i \in Nat :
            i \in DOMAIN queue[t] /\ queue[t][i].pid = q /\ queue[t][i].ev = "wallet.debited"
      BY <1>7, <2>1 DEF Carried
    <3>2. PICK j \in DOMAIN queue'[t] : queue'[t][j] = queue[t][i]
      BY <1>7, <3>1
    <3> QED
      BY <1>7, <3>1, <3>2 DEF NewCarried
  <2>2. ASSUME NewCarried(q, "wallet.debited") PROVE Carried(q, "wallet.debited")
    <3>1. PICK t \in Shards, i \in Nat :
            i \in DOMAIN queue'[t] /\ queue'[t][i].pid = q /\ queue'[t][i].ev = "wallet.debited"
      BY <1>7, <2>2 DEF NewCarried
    <3>2. PICK j \in DOMAIN queue[t] : queue[t][j] = queue'[t][i]
      BY <1>7, <3>1
    <3> QED
      BY <1>7, <3>1, <3>2 DEF Carried
  <2> QED
    BY <2>1, <2>2
<1>10. NewRecord(q) = Record(q)
  BY DEF OthersStay
<1>11. MoneyIn(Record(q), NewCarried(q, "wallet.debited"), NewInFlight(q))
         = MoneyIn(Record(q), Carried(q, "wallet.debited"), InFlight(q))
  BY <1>8, <1>9 DEF MoneyIn
<1> QED
  BY <1>10, <1>11, MoneyIs DEF NewMoney

\* The handler of the head of s publishes m, about the same payment.
LEMMA PublishKeepsChain ==
  ASSUME WorkflowInv, UniqueIDs, NEW s \in Shards, queue[s] # <<>>,
         NEW ev \in EventNames, NEW m, Derived(m, ev, Head(queue[s])),
         PublishAndReturn(s, m), http' = http, FailuresGrow,
         OthersStay(Head(queue[s]).pid), NewPlaced(m, "run")
  PROVE  /\ MessagesHome' /\ OneMessage' /\ MessagesInPosition' /\ RequestsInPosition'
         /\ OthersKeep(Head(queue[s]).pid)
         /\ NewMoney(Head(queue[s]).pid) = Expected(m, "run")[2]
         /\ Expected(m, "run") \in Positions
<1> DEFINE h == Head(queue[s])
<1>1. queue \in [Shards -> Seq(Message)] /\ m \in Message
  BY DEF WorkflowInv, TypeInv, TypeOK, Derived
<1>2. /\ queue' \in [Shards -> Seq(Message)]
      /\ \A i \in DOMAIN queue'[s] :
           \/ i + 1 \in DOMAIN queue[s] /\ queue'[s][i] = queue[s][i + 1]
           \/ i = Len(queue[s]) /\ queue'[s][i] = m
      /\ \A t \in Shards : t # s => queue'[t] = queue[t]
  BY <1>1, PublishFacts DEF PublishAndReturn
<1>3. wpc'[s] = "run" /\ \A t \in Shards : t # s => wpc'[t] = wpc[t]
  BY DEF PublishAndReturn, Finish, WorkflowInv, TypeInv, TypeOK
<1>4. m.ev = ev /\ m.pid = h.pid /\ m.req = h.req
  BY DEF Derived
<1>5. /\ h = queue[s][1] /\ 1 \in DOMAIN queue[s]
      /\ h.pid \in PaymentIDs /\ ShardOf[h.pid] = s /\ ReqPayment[h.req] = h.pid
      /\ http[h.req] \in {"published", "replied"}
      /\ \A t \in Shards : \A i \in DOMAIN queue[t] : queue[t][i].pid = h.pid => t = s /\ i = 1
  BY HeadAlone
<1> HIDE DEF h
<1>6. ASSUME NEW i \in DOMAIN queue'[s]
      PROVE  i \in Nat \ {0} /\ Len(queue[s]) \in Nat
  <2>1. queue[s] \in Seq(Message) /\ queue'[s] \in Seq(Message)
    BY <1>1, <1>2
  <2> QED
    BY <2>1
<1>7. MessagesHome'
  <2> SUFFICES ASSUME NEW t \in Shards, NEW i \in DOMAIN queue'[t]
      PROVE  /\ ShardOf[queue'[t][i].pid] = t
             /\ ReqPayment[queue'[t][i].req] = queue'[t][i].pid
             /\ http[queue'[t][i].req] \in {"published", "replied"}
    BY DEF MessagesHome
  <2>1. CASE t = s
    BY <1>2, <1>4, <1>5, <2>1 DEF WorkflowInv, MessagesHome
  <2>2. CASE t # s
    BY <1>2, <2>2 DEF WorkflowInv, MessagesHome
  <2> QED
    BY <2>1, <2>2
<1>8. OneMessage'
  <2> SUFFICES ASSUME NEW t \in Shards, NEW i \in DOMAIN queue'[t], NEW j \in DOMAIN queue'[t],
                      queue'[t][i].pid = queue'[t][j].pid
               PROVE  i = j
    BY DEF OneMessage
  <2>1. CASE t = s
    <3>1. \A k \in DOMAIN queue[s] : queue[s][k].pid = h.pid => k = 1
      BY <1>5
    <3>2. \A k, l \in DOMAIN queue[s] : queue[s][k].pid = queue[s][l].pid => k = l
      BY DEF WorkflowInv, OneMessage
    <3>3. i \in Nat \ {0} /\ j \in Nat \ {0}
      BY <1>6, <2>1
    <3>4. \A n \in DOMAIN queue'[s] :
            \/ /\ n + 1 \in DOMAIN queue[s] /\ queue'[s][n].pid = queue[s][n + 1].pid
               /\ n + 1 # 1
            \/ n = Len(queue[s]) /\ queue'[s][n].pid = h.pid
      BY <1>2, <1>4, <1>6
    <3>5. CASE i + 1 \in DOMAIN queue[s] /\ queue'[s][i].pid = queue[s][i + 1].pid
               /\ j + 1 \in DOMAIN queue[s] /\ queue'[s][j].pid = queue[s][j + 1].pid
      BY <2>1, <3>2, <3>3, <3>5
    <3>6. CASE i = Len(queue[s]) /\ queue'[s][i].pid = h.pid
      BY <2>1, <3>1, <3>3, <3>4, <3>6
    <3>7. CASE j = Len(queue[s]) /\ queue'[s][j].pid = h.pid
      BY <2>1, <3>1, <3>3, <3>4, <3>7
    <3> QED
      BY <2>1, <3>4, <3>5, <3>6, <3>7
  <2>2. CASE t # s
    BY <1>2, <2>2 DEF WorkflowInv, OneMessage
  <2> QED
    BY <2>1, <2>2
<1>9. MessagesInPosition'
  <2> SUFFICES ASSUME NEW t \in Shards, NEW i \in DOMAIN queue'[t]
      PROVE  NewPlaced(queue'[t][i], Place(t, i)')
    BY PlacedIs
  <2>1. CASE t = s /\ queue'[t][i] = m
    <3>1. Place(t, i)' = "run"
      BY <1>3, <2>1 DEF Place
    <3> QED
      BY <2>1, <3>1
  <2>2. CASE t = s /\ queue'[t][i] # m
    <3>1. i + 1 \in DOMAIN queue[s] /\ queue'[s][i] = queue[s][i + 1] /\ i \in Nat \ {0}
      BY <1>2, <1>6, <2>2
    <3>2. queue[s][i + 1].pid # h.pid /\ queue[s][i + 1].pid \in PaymentIDs
      BY <1>1, <1>5, <3>1, ElementFacts
    <3>3. Place(t, i)' = "run" /\ Place(s, i + 1) = "run"
      BY <1>3, <2>2, <3>1 DEF Place
    <3>4. Placed(queue[s][i + 1], "run")
      BY <3>1, <3>3, PlacedIs DEF WorkflowInv
    <3>5. NewRecord(queue[s][i + 1].pid) = Record(queue[s][i + 1].pid)
      BY <3>2 DEF OthersStay, h
    <3>6. queue'[t][i] = queue[s][i + 1]
      BY <2>2, <3>1
    <3> QED
      BY <3>3, <3>4, <3>5, <3>6, PlacedOn
  <2>3. CASE t # s
    <3>1. queue'[t] = queue[t] /\ i \in DOMAIN queue[t]
      BY <1>2, <2>3
    <3>2. queue[t][i].pid # h.pid /\ queue[t][i].pid \in PaymentIDs
      BY <1>1, <1>5, <2>3, <3>1, ElementFacts
    <3>3. Place(t, i)' = Place(t, i)
      BY <1>3, <2>3 DEF Place
    <3>4. Placed(queue[t][i], Place(t, i))
      BY <3>1, PlacedIs DEF WorkflowInv
    <3>5. NewRecord(queue[t][i].pid) = Record(queue[t][i].pid)
      BY <3>2 DEF OthersStay, h
    <3> QED
      BY <3>1, <3>3, <3>4, <3>5, PlacedOn
  <2> QED
    BY <2>1, <2>2, <2>3
<1>10. RequestsInPosition'
  BY RequestsStay
<1>11. OthersKeep(h.pid)
  <2>1. m \in Message /\ m.pid = h.pid /\ queue' = [queue EXCEPT ![s] = Append(Tail(@), m)]
    BY <1>1, <1>4 DEF PublishAndReturn
  <2>2. OthersStay(h.pid) /\ h.pid = Head(queue[s]).pid
    BY DEF h
  <2>3. \E e \in Message : e.pid = h.pid /\ queue' = [queue EXCEPT ![s] = Append(Tail(@), e)]
    BY <2>1
  <2> QED
    BY <1>1, <2>2, <2>3, OthersCarried
<1>12. /\ \A i \in DOMAIN queue'[s] : queue'[s][i].pid = h.pid => queue'[s][i] = m
       /\ \A t \in Shards : t # s => \A i \in DOMAIN queue'[t] : queue'[t][i].pid # h.pid
  <2>1. ASSUME NEW i \in DOMAIN queue'[s], queue'[s][i].pid = h.pid
        PROVE  queue'[s][i] = m
    <3>1. ~(i + 1 \in DOMAIN queue[s] /\ queue'[s][i] = queue[s][i + 1])
      <4>1. i + 1 # 1
        BY <1>6, <2>1
      <4> QED
        BY <1>5, <2>1, <4>1
    <3> QED
      BY <1>2, <2>1, <3>1
  <2>2. ASSUME NEW t \in Shards, t # s, NEW i \in DOMAIN queue'[t]
        PROVE  queue'[t][i].pid # h.pid
    BY <1>2, <1>5, <2>2
  <2> QED
    BY <2>1, <2>2
<1>13. /\ Len(queue[s]) \in 1 .. Len(queue'[s]) /\ queue'[s][Len(queue[s])] = m
       /\ \A t \in Shards : DOMAIN queue'[t] = 1 .. Len(queue'[t])
  <2>1. queue'[s] = Append(Tail(queue[s]), m) /\ queue[s] \in Seq(Message) /\ queue[s] # <<>>
    BY <1>1 DEF PublishAndReturn
  <2>2. Len(queue[s]) \in 1 .. Len(queue'[s]) /\ queue'[s][Len(queue[s])] = m
    BY <1>1, <2>1
  <2> QED
    BY <1>2, <2>2
<1>14. NewInFlight(h.pid)
  BY <1>4, <1>13 DEF NewInFlight
<1>15. NewCarried(h.pid, "wallet.debited") <=> m.ev = "wallet.debited"
  <2>1. m.ev = "wallet.debited" => NewCarried(h.pid, "wallet.debited")
    BY <1>4, <1>13 DEF NewCarried
  <2>2. NewCarried(h.pid, "wallet.debited") => m.ev = "wallet.debited"
    BY <1>12, <1>13 DEF NewCarried
  <2> QED
    BY <2>1, <2>2
<1>16. /\ MoneyIn(NewRecord(h.pid), m.ev = "wallet.debited", TRUE) = Expected(m, "run")[2]
       /\ Expected(m, "run") \in Positions
  BY <1>1, <1>4, MessageTells DEF NewPlaced
<1>17. NewMoney(h.pid) = Expected(m, "run")[2]
  BY <1>14, <1>15, <1>16 DEF NewMoney, MoneyIn
<1> QED
  BY <1>7, <1>8, <1>9, <1>10, <1>11, <1>16, <1>17 DEF h


\* The handler of the head of s returns nil without publishing: its payment has
\* no message any more.
LEMMA ReturnKeepsChain ==
  ASSUME WorkflowInv, UniqueIDs, NEW s \in Shards, queue[s] # <<>>,
         Return(s), http' = http, FailuresGrow, OthersStay(Head(queue[s]).pid),
         NEW b \in Positions \ {<<"initialized", "held">>, <<"failed", "held">>},
         Stands(NewRecord(Head(queue[s]).pid), ioFailures', b)
  PROVE  /\ MessagesHome' /\ OneMessage' /\ MessagesInPosition' /\ RequestsInPosition'
         /\ OthersKeep(Head(queue[s]).pid)
         /\ NewMoney(Head(queue[s]).pid) = b[2]
<1> DEFINE h == Head(queue[s])
<1>1. queue \in [Shards -> Seq(Message)]
  BY DEF WorkflowInv, TypeInv, TypeOK
<1>2. /\ queue' \in [Shards -> Seq(Message)]
      /\ \A i \in DOMAIN queue'[s] :
           i + 1 \in DOMAIN queue[s] /\ queue'[s][i] = queue[s][i + 1]
      /\ \A t \in Shards : t # s => queue'[t] = queue[t]
  BY <1>1, ReturnFacts DEF Return
<1>3. wpc'[s] = "run" /\ \A t \in Shards : t # s => wpc'[t] = wpc[t]
  BY DEF Return, Finish, WorkflowInv, TypeInv, TypeOK
<1>4. \A t \in Shards : \A i \in DOMAIN queue[t] : queue[t][i].pid = h.pid => t = s /\ i = 1
  BY HeadAlone
<1>5. OthersStay(h.pid)
  OBVIOUS
<1> HIDE DEF h
<1>6. \A i \in DOMAIN queue'[s] : i \in Nat \ {0}
  <2>1. queue'[s] \in Seq(Message)
    BY <1>2
  <2> QED
    BY <2>1
\* Every delivery was there before, in the same place, and is not of h's payment.
<1>7. ASSUME NEW t \in Shards, NEW i \in DOMAIN queue'[t]
      PROVE  \E j \in DOMAIN queue[t] :
               /\ queue'[t][i] = queue[t][j]
               /\ j = IF t = s THEN i + 1 ELSE i
               /\ Place(t, i)' = Place(t, j)
               /\ NewRecord(queue[t][j].pid) = Record(queue[t][j].pid)
               /\ queue[t][j].pid # h.pid
  <2> DEFINE j == IF t = s THEN i + 1 ELSE i
  <2>1. j \in DOMAIN queue[t] /\ queue'[t][i] = queue[t][j]
    BY <1>2
  <2>2. Place(t, i)' = Place(t, j)
    <3>1. CASE t = s
      BY <1>3, <1>6, <3>1 DEF Place
    <3>2. CASE t # s
      BY <1>3, <3>2 DEF Place
    <3> QED
      BY <3>1, <3>2
  <2>3. ~(t = s /\ j = 1)
    BY <1>6
  <2> HIDE DEF j
  <2>4. queue[t][j].pid # h.pid /\ queue[t][j].pid \in PaymentIDs
    BY <1>1, <1>4, <2>1, <2>3, ElementFacts
  <2>5. NewRecord(queue[t][j].pid) = Record(queue[t][j].pid)
    BY <1>5, <2>4 DEF OthersStay
  <2> QED
    BY <2>1, <2>2, <2>4, <2>5 DEF j
<1>8. MessagesHome'
  <2> SUFFICES ASSUME NEW t \in Shards, NEW i \in DOMAIN queue'[t]
      PROVE  /\ ShardOf[queue'[t][i].pid] = t
             /\ ReqPayment[queue'[t][i].req] = queue'[t][i].pid
             /\ http[queue'[t][i].req] \in {"published", "replied"}
    BY DEF MessagesHome
  <2>1. PICK j \in DOMAIN queue[t] : queue'[t][i] = queue[t][j]
    BY <1>7
  <2> QED
    BY <2>1 DEF WorkflowInv, MessagesHome
<1>9. OneMessage'
  <2> SUFFICES ASSUME NEW t \in Shards, NEW i \in DOMAIN queue'[t], NEW j \in DOMAIN queue'[t],
                      queue'[t][i].pid = queue'[t][j].pid
               PROVE  i = j
    BY DEF OneMessage
  <2>1. CASE t = s
    <3>1. \A k, l \in DOMAIN queue[s] : queue[s][k].pid = queue[s][l].pid => k = l
      BY DEF WorkflowInv, OneMessage
    <3>2. i + 1 = j + 1
      BY <1>2, <2>1, <3>1
    <3> QED
      BY <1>6, <2>1, <3>2
  <2>2. CASE t # s
    BY <1>2, <2>2 DEF WorkflowInv, OneMessage
  <2> QED
    BY <2>1, <2>2
<1>10. MessagesInPosition'
  <2> SUFFICES ASSUME NEW t \in Shards, NEW i \in DOMAIN queue'[t]
      PROVE  NewPlaced(queue'[t][i], Place(t, i)')
    BY PlacedIs
  <2>1. PICK j \in DOMAIN queue[t] :
          /\ queue'[t][i] = queue[t][j]
          /\ Place(t, i)' = Place(t, j)
          /\ NewRecord(queue[t][j].pid) = Record(queue[t][j].pid)
    BY <1>7
  <2>2. Placed(queue[t][j], Place(t, j))
    BY <2>1, PlacedIs DEF WorkflowInv
  <2> QED
    BY <2>1, <2>2, PlacedOn
<1>11. RequestsInPosition'
  BY <1>5, RequestsStay DEF h
<1>12. OthersKeep(h.pid)
  BY <1>1, <1>5, OthersCarried DEF Return, h
<1>13. ~NewInFlight(h.pid) /\ ~NewCarried(h.pid, "wallet.debited")
  <2>1. \A t \in Shards : DOMAIN queue'[t] = 1 .. Len(queue'[t])
    BY <1>2
  <2>2. \A t \in Shards : \A i \in DOMAIN queue'[t] : queue'[t][i].pid # h.pid
    BY <1>7
  <2> QED
    BY <2>1, <2>2 DEF NewInFlight, NewCarried
<1>14. MoneyIn(NewRecord(h.pid), FALSE, FALSE) = b[2]
  BY RestTells DEF h
<1>15. NewMoney(h.pid) = b[2]
  BY <1>13, <1>14 DEF NewMoney, MoneyIn
<1> QED
  BY <1>8, <1>9, <1>10, <1>11, <1>12, <1>15 DEF h

\* The handler of the head of s goes on, and the position of its payment is
\* still the one its message tells.
LEMMA StayKeepsChain ==
  ASSUME WorkflowInv, UniqueIDs, NEW s \in Shards, queue[s] # <<>>,
         queue' = queue, http' = http, FailuresGrow,
         \A t \in Shards : t # s => wpc'[t] = wpc[t],
         OthersStay(Head(queue[s]).pid), NewPlaced(Head(queue[s]), wpc'[s])
  PROVE  /\ MessagesHome' /\ OneMessage' /\ MessagesInPosition' /\ RequestsInPosition'
         /\ OthersKeep(Head(queue[s]).pid)
         /\ NewMoney(Head(queue[s]).pid) = Expected(Head(queue[s]), wpc'[s])[2]
         /\ Expected(Head(queue[s]), wpc'[s]) \in Positions
<1>1. MessagesHome' /\ OneMessage'
  BY DEF WorkflowInv, MessagesHome, OneMessage
<1>2. RequestsInPosition'
  BY RequestsStay
<1>3. MessagesInPosition'
  <2> SUFFICES ASSUME NEW t \in Shards, NEW i \in DOMAIN queue[t]
      PROVE  NewPlaced(queue[t][i], Place(t, i)')
    BY PlacedIs
  <2>1. CASE t = s /\ i = 1
    <3>1. Place(t, i)' = wpc'[s] /\ queue[t][i] = Head(queue[s])
      BY <2>1, HeadAlone DEF Place
    <3> QED
      BY <3>1
  <2>2. CASE ~(t = s /\ i = 1)
    <3>1. queue[t][i].pid # Head(queue[s]).pid
      BY <2>2, HeadAlone
    <3>2. queue[t][i].pid \in PaymentIDs
      BY ElementFacts DEF WorkflowInv, TypeInv, TypeOK
    <3>3. NewRecord(queue[t][i].pid) = Record(queue[t][i].pid)
      BY <3>1, <3>2 DEF OthersStay
    <3>4. Place(t, i)' = Place(t, i)
      BY <2>2 DEF Place
    <3>5. Placed(queue[t][i], Place(t, i))
      BY PlacedIs DEF WorkflowInv
    <3> QED
      BY <3>3, <3>4, <3>5, PlacedOn
  <2> QED
    BY <2>1, <2>2
<1> DEFINE h == Head(queue[s])
<1>4. queue \in [Shards -> Seq(Message)] /\ h \in Message
  BY HeadAlone DEF WorkflowInv, TypeInv, TypeOK
<1>5. OthersKeep(h.pid)
  BY <1>4, OthersCarried
<1>6. /\ h = queue[s][1] /\ 1 \in DOMAIN queue[s]
      /\ \A t \in Shards : \A i \in DOMAIN queue[t] : queue[t][i].pid = h.pid => t = s /\ i = 1
  BY HeadAlone
<1>7. \A t \in Shards : DOMAIN queue[t] = 1 .. Len(queue[t])
  BY <1>4
<1> HIDE DEF h
<1>8. NewInFlight(h.pid) /\ (NewCarried(h.pid, "wallet.debited") <=> h.ev = "wallet.debited")
  BY <1>6, <1>7 DEF NewInFlight, NewCarried
<1>9. /\ MoneyIn(NewRecord(h.pid), h.ev = "wallet.debited", TRUE) = Expected(h, wpc'[s])[2]
      /\ Expected(h, wpc'[s]) \in Positions
  BY <1>4, MessageTells DEF NewPlaced, h
<1>10. NewMoney(h.pid) = Expected(h, wpc'[s])[2]
  BY <1>8, <1>9 DEF NewMoney, MoneyIn
<1> QED
  BY <1>1, <1>2, <1>3, <1>5, <1>9, <1>10 DEF h


-----------------------------------------------------------------------------
(* The steps. *)

Chain == MessagesHome /\ OneMessage /\ MessagesInPosition /\ RequestsInPosition

\* The money of a payment stays with its record and its deliveries.
LEMMA SameMoney ==
  ASSUME NEW q, NewRecord(q) = Record(q), NewInFlight(q) <=> InFlight(q),
         NewCarried(q, "wallet.debited") <=> Carried(q, "wallet.debited")
  PROVE  NewMoney(q) = Money(q)
<1>1. MoneyIn(Record(q), NewCarried(q, "wallet.debited"), NewInFlight(q))
        = MoneyIn(Record(q), Carried(q, "wallet.debited"), InFlight(q))
  BY DEF MoneyIn
<1> QED
  BY <1>1, MoneyIs DEF NewMoney

\* A step that changes neither the table nor the ledgers nor the bus.
LEMMA NothingMoves ==
  ASSUME payments' = payments, debits' = debits, charges' = charges, refunds' = refunds,
         ioFailures' = ioFailures, queue' = queue
  PROVE  NoMove
<1>1. ASSUME NEW p PROVE NewRecord(p) = Record(p)
  BY DEF Record, NewRecord
<1>2. ASSUME NEW p
      PROVE  /\ NewInFlight(p) <=> InFlight(p)
             /\ NewCarried(p, "wallet.debited") <=> Carried(p, "wallet.debited")
  BY DEF InFlight, NewInFlight, Carried, NewCarried
<1> QED
  BY <1>1, <1>2, SameMoney DEF NoMove

\* The payment of the head has a position, which its handler may leave.
LEMMA HeadMoves ==
  ASSUME WorkflowInv, NEW s \in Shards, queue[s] # <<>>,
         OthersStay(Head(queue[s]).pid), OthersKeep(Head(queue[s]).pid),
         NEW b \in Positions,
         Stands(NewRecord(Head(queue[s]).pid), ioFailures', b),
         NewMoney(Head(queue[s]).pid) = b[2],
         LegalStep(Record(Head(queue[s]).pid), Expected(Head(queue[s]), wpc[s]),
                   NewRecord(Head(queue[s]).pid), b)
  PROVE  Advance
<1> DEFINE p == Head(queue[s]).pid
           a == Expected(Head(queue[s]), wpc[s])
<1>1. /\ p \in PaymentIDs /\ a \in Positions /\ Money(p) = a[2]
      /\ Stands(Record(p), ioFailures, a)
  BY HeadAlone DEF Placed
<1>2. /\ OthersStay(p) /\ OthersKeep(p) /\ Stands(NewRecord(p), ioFailures', b)
      /\ NewMoney(p) = b[2] /\ LegalStep(Record(p), a, NewRecord(p), b)
  OBVIOUS
<1> HIDE DEF p, a
<1>3. MovesTo(p, a, b)
  BY <1>1, <1>2 DEF MovesTo
<1> QED
  BY <1>1, <1>3 DEF Advance

\* The handler of the head of s publishes m, or returns, or goes on, and moves its
\* payment.
LEMMA PublishMoves ==
  ASSUME WorkflowInv, UniqueIDs, NEW s \in Shards, queue[s] # <<>>,
         NEW ev \in EventNames, NEW m, Derived(m, ev, Head(queue[s])),
         PublishAndReturn(s, m), http' = http, FailuresGrow,
         OthersStay(Head(queue[s]).pid), NewPlaced(m, "run"),
         LegalStep(Record(Head(queue[s]).pid), Expected(Head(queue[s]), wpc[s]),
                   NewRecord(Head(queue[s]).pid), Expected(m, "run"))
  PROVE  Chain' /\ Advance
<1>1. /\ MessagesHome' /\ OneMessage' /\ MessagesInPosition' /\ RequestsInPosition'
      /\ OthersKeep(Head(queue[s]).pid)
      /\ NewMoney(Head(queue[s]).pid) = Expected(m, "run")[2]
      /\ Expected(m, "run") \in Positions
  BY PublishKeepsChain
<1>2. Stands(NewRecord(Head(queue[s]).pid), ioFailures', Expected(m, "run"))
  BY DEF NewPlaced, Derived
<1>3. Advance
  BY <1>1, <1>2, HeadMoves
<1> QED
  BY <1>1, <1>3 DEF Chain

LEMMA ReturnMoves ==
  ASSUME WorkflowInv, UniqueIDs, NEW s \in Shards, queue[s] # <<>>,
         Return(s), http' = http, FailuresGrow, OthersStay(Head(queue[s]).pid),
         NEW b \in Positions \ {<<"initialized", "held">>, <<"failed", "held">>},
         Stands(NewRecord(Head(queue[s]).pid), ioFailures', b),
         LegalStep(Record(Head(queue[s]).pid), Expected(Head(queue[s]), wpc[s]),
                   NewRecord(Head(queue[s]).pid), b)
  PROVE  Chain' /\ Advance
<1>1. /\ MessagesHome' /\ OneMessage' /\ MessagesInPosition' /\ RequestsInPosition'
      /\ OthersKeep(Head(queue[s]).pid)
      /\ NewMoney(Head(queue[s]).pid) = b[2]
  BY ReturnKeepsChain
<1>2. Advance
  BY <1>1, HeadMoves
<1> QED
  BY <1>1, <1>2 DEF Chain

LEMMA StayMoves ==
  ASSUME WorkflowInv, UniqueIDs, NEW s \in Shards, queue[s] # <<>>,
         queue' = queue, http' = http, FailuresGrow,
         \A t \in Shards : t # s => wpc'[t] = wpc[t],
         OthersStay(Head(queue[s]).pid), NewPlaced(Head(queue[s]), wpc'[s]),
         LegalStep(Record(Head(queue[s]).pid), Expected(Head(queue[s]), wpc[s]),
                   NewRecord(Head(queue[s]).pid), Expected(Head(queue[s]), wpc'[s]))
  PROVE  Chain' /\ Advance
<1>1. /\ MessagesHome' /\ OneMessage' /\ MessagesInPosition' /\ RequestsInPosition'
      /\ OthersKeep(Head(queue[s]).pid)
      /\ NewMoney(Head(queue[s]).pid) = Expected(Head(queue[s]), wpc'[s])[2]
      /\ Expected(Head(queue[s]), wpc'[s]) \in Positions
  BY StayKeepsChain
<1>2. Stands(NewRecord(Head(queue[s]).pid), ioFailures', Expected(Head(queue[s]), wpc'[s]))
  BY DEF NewPlaced
<1>3. Advance
  BY <1>1, <1>2, HeadMoves
<1> QED
  BY <1>1, <1>3 DEF Chain

\* A handler that hands its payment over to m where it is.
LEMMA HandsOver ==
  ASSUME WorkflowInv, UniqueIDs, NEW s \in Shards, queue[s] # <<>>,
         NEW ev \in EventNames, NEW m, Derived(m, ev, Head(queue[s])),
         PublishAndReturn(s, m), http' = http, payments' = payments, debits' = debits,
         charges' = charges, refunds' = refunds, ioFailures' = ioFailures,
         Expected(m, "run") = Expected(Head(queue[s]), wpc[s]),
         Tried(m, debits[Head(queue[s]).pid])
  PROVE  Chain' /\ Advance
<1> DEFINE h == Head(queue[s])
<1>1. Placed(h, wpc[s])
  BY HeadAlone
<1>2. \A p : NewRecord(p) = Record(p)
  BY DEF Record, NewRecord
<1>3. m.pid = h.pid
  BY DEF Derived
<1>4. FailuresGrow
  BY WalletStoreAssumption DEF FailuresGrow, WorkflowInv, TypeInv, TypeOK, WalletTypeOK
<1> HIDE DEF h
<1>5. NewPlaced(m, "run")
  BY <1>1, <1>2, <1>3 DEF Placed, NewPlaced, h
<1>6. OthersStay(h.pid)
  BY <1>2 DEF OthersStay
<1>7. LegalStep(Record(h.pid), Expected(h, wpc[s]), NewRecord(h.pid), Expected(m, "run"))
  BY <1>2 DEF LegalStep, h
<1> QED
  BY <1>4, <1>5, <1>6, <1>7, PublishMoves DEF h

\* Save changes the status of the payment of the head, and nothing else.
LEMMA SaveMoves ==
  ASSUME WorkflowInv, NEW s \in Shards, queue[s] # <<>>, wpc[s] = "mark",
         NEW status, NEW reason, Save(s, status, reason),
         debits' = debits, charges' = charges, refunds' = refunds
  PROVE  LET p == Head(queue[s]).pid
         IN  /\ OthersStay(p)
             /\ NewRecord(p) = <<status, debits[p], charges[p], refunds[p]>>
<1> DEFINE p == Head(queue[s]).pid
<1>1. p \in PaymentIDs
  BY HeadAlone
<1>2. payments' = [payments EXCEPT ![p] = [loaded[s] EXCEPT !.status = status, !.reason = reason]]
  BY DEF Save
<1>3. loaded[s] \in Payment /\ payments \in [PaymentIDs -> Payment]
  BY DEF WorkflowInv, TypeInv, TypeOK
<1> HIDE DEF p
<1>4. [loaded[s] EXCEPT !.status = status, !.reason = reason].status = status
  BY <1>3 DEF Payment
<1>5. payments'[p].status = status /\ \A q \in PaymentIDs \ {p} : payments'[q] = payments[q]
  BY <1>1, <1>2, <1>3, <1>4
<1> QED
  BY <1>1, <1>5 DEF OthersStay, Record, NewRecord, p

\* A request whose payment has no message yet: no delivery descends from it, and none
\* is about its payment.
LEMMA NoMessageYet ==
  ASSUME WorkflowInv, UniqueIDs, NEW r \in Requests, http[r] \in {"start", "saved"}
  PROVE  /\ \A t \in Shards : \A i \in DOMAIN queue[t] :
              /\ queue[t][i].req \in Requests /\ queue[t][i].req # r
              /\ queue[t][i].pid \in PaymentIDs /\ queue[t][i].pid # ReqPayment[r]
         /\ ~InFlight(ReqPayment[r]) /\ ~Carried(ReqPayment[r], "wallet.debited")
<1>1. queue \in [Shards -> Seq(Message)]
  BY DEF WorkflowInv, TypeInv, TypeOK
<1>2. ASSUME NEW t \in Shards, NEW i \in DOMAIN queue[t]
      PROVE  /\ queue[t][i].req \in Requests /\ queue[t][i].req # r
             /\ queue[t][i].pid \in PaymentIDs /\ queue[t][i].pid # ReqPayment[r]
  <2>1. /\ queue[t][i].req \in Requests /\ queue[t][i].pid \in PaymentIDs
        /\ ReqPayment[queue[t][i].req] = queue[t][i].pid
        /\ http[queue[t][i].req] \in {"published", "replied"}
    BY <1>1, ElementFacts DEF WorkflowInv, MessagesHome
  <2> QED
    BY <2>1 DEF UniqueIDs
<1>3. \A t \in Shards : DOMAIN queue[t] = 1 .. Len(queue[t])
  BY <1>1
<1> QED
  BY <1>2, <1>3 DEF InFlight, Carried

\* POST /payments saves the payment.
LEMMA InitializeSteps ==
  ASSUME WorkflowInv, UniqueIDs, NEW r \in Requests, CreateInitialize(r)
  PROVE  Chain' /\ Advance
<1> DEFINE p == ReqPayment[r]
           a == <<"none", "none">>
           b == <<"initialized", "none">>
<1>1. /\ p \in PaymentIDs /\ queue \in [Shards -> Seq(Message)]
      /\ http \in [Requests -> {"start", "saved", "published", "replied", "refused"}]
      /\ payments \in [PaymentIDs -> Payment]
      /\ debits \in [PaymentIDs -> Nat] /\ refunds \in [PaymentIDs -> Nat]
      /\ ioFailures \in Nat
  BY WorkflowAssumption, WalletStoreAssumption
     DEF WorkflowInv, TypeInv, TypeOK, WalletTypeOK
<1>2. /\ http[r] = "start" /\ http' = [http EXCEPT ![r] = "saved"]
      /\ payments' = [payments EXCEPT ![p] = [user |-> ReqUser[r], amount |-> ReqAmount[r],
                                              status |-> "initialized", reason |-> "none"]]
      /\ debits' = debits /\ charges' = charges /\ refunds' = refunds
      /\ queue' = queue /\ wpc' = wpc /\ ioFailures' = ioFailures
  BY DEF CreateInitialize, historyVars, workerVars, walletVars
<1>3. /\ \A t \in Shards : \A i \in DOMAIN queue[t] :
           /\ queue[t][i].req \in Requests /\ queue[t][i].req # r
           /\ queue[t][i].pid \in PaymentIDs /\ queue[t][i].pid # p
      /\ ~InFlight(p) /\ ~Carried(p, "wallet.debited")
  BY <1>2, NoMessageYet
<1>4. Stands(Record(p), ioFailures, a)
  BY <1>2, PositionIs DEF WorkflowInv, RequestsInPosition
<1>5. payments'[p].status = "initialized" /\ \A q \in PaymentIDs \ {p} : payments'[q] = payments[q]
  BY <1>1, <1>2
<1> HIDE DEF p
<1>6. /\ Record(p) = <<"none", 0, 0, 0>> /\ NewRecord(p) = <<"initialized", 0, 0, 0>>
      /\ debits[p] = 0
  <2>1. /\ payments[p].status = "none" /\ ~(debits[p] > 0) /\ ~(refunds[p] > 0) /\ charges[p] = 0
    BY <1>4 DEF Stands, LedgerIn, Record
  <2>2. debits[p] = 0 /\ refunds[p] = 0
    BY <1>1, <2>1
  <2> QED
    BY <1>2, <1>5, <2>1, <2>2 DEF Record, NewRecord
<1>7. OthersStay(p)
  BY <1>2, <1>5 DEF OthersStay, Record, NewRecord
<1>8. ASSUME NEW q
      PROVE  /\ NewInFlight(q) <=> InFlight(q)
             /\ NewCarried(q, "wallet.debited") <=> Carried(q, "wallet.debited")
  BY <1>2 DEF InFlight, NewInFlight, Carried, NewCarried
<1>9. OthersKeep(p)
  BY <1>7, <1>8, SameMoney DEF OthersKeep, OthersStay
<1>10. Money(p) = "none" /\ NewMoney(p) = "none"
  <2>1. Money(p) = MoneyIn(Record(p), FALSE, FALSE)
    BY <1>3, <1>6, MoneyIs DEF MoneyIn
  <2>2. NewMoney(p) = MoneyIn(NewRecord(p), FALSE, FALSE)
    BY <1>3, <1>6, <1>8 DEF NewMoney, MoneyIn
  <2> QED
    BY <1>6, <2>1, <2>2 DEF MoneyIn
<1>11. Stands(NewRecord(p), ioFailures', b) /\ LegalStep(Record(p), a, NewRecord(p), b)
  BY <1>1, <1>2, <1>6 DEF Stands, LedgerIn, MishapsIn, LegalStep, LegalMoves
<1>12. Advance
  <2>1. MovesTo(p, a, b)
    BY <1>4, <1>7, <1>9, <1>10, <1>11 DEF MovesTo
  <2>2. a \in Positions /\ b \in Positions
    BY DEF Positions
  <2> QED
    BY <1>1, <2>1, <2>2 DEF Advance
<1>13. MessagesHome' /\ OneMessage'
  BY <1>1, <1>2, <1>3 DEF WorkflowInv, MessagesHome, OneMessage
<1>14. FailuresGrow
  BY <1>1, <1>2 DEF FailuresGrow
<1>15. MessagesInPosition'
  <2> SUFFICES ASSUME NEW t \in Shards, NEW i \in DOMAIN queue'[t]
      PROVE  NewPlaced(queue'[t][i], Place(t, i)')
    BY PlacedIs
  <2>1. queue'[t][i] = queue[t][i] /\ i \in DOMAIN queue[t] /\ Place(t, i)' = Place(t, i)
    BY <1>2 DEF Place
  <2>2. NewRecord(queue[t][i].pid) = Record(queue[t][i].pid)
    BY <1>3, <1>7, <2>1 DEF OthersStay
  <2>3. Placed(queue[t][i], Place(t, i))
    BY <2>1, PlacedIs DEF WorkflowInv
  <2> QED
    BY <1>14, <2>1, <2>2, <2>3, PlacedOn
<1>16. RequestsInPosition'
  <2> SUFFICES ASSUME NEW q \in Requests
      PROVE  /\ http'[q] = "start" => Stands(NewRecord(ReqPayment[q]), ioFailures', <<"none", "none">>)
             /\ http'[q] = "saved" =>
                  /\ Stands(NewRecord(ReqPayment[q]), ioFailures', <<"initialized", "none">>)
                  /\ debits'[ReqPayment[q]] = 0
    BY PositionIs DEF RequestsInPosition
  <2>1. CASE q = r
    BY <1>1, <1>2, <1>6, <1>11, <2>1 DEF p
  <2>2. CASE q # r
    <3>1. ReqPayment[q] \in PaymentIDs \ {p} /\ http'[q] = http[q]
      BY <1>1, <1>2, <2>2, WorkflowAssumption DEF UniqueIDs, p
    <3>2. NewRecord(ReqPayment[q]) = Record(ReqPayment[q]) /\ debits'[ReqPayment[q]] = debits[ReqPayment[q]]
      BY <1>2, <1>7, <3>1 DEF OthersStay
    <3>3. /\ http[q] = "start" => Stands(Record(ReqPayment[q]), ioFailures, <<"none", "none">>)
          /\ http[q] = "saved" =>
               /\ Stands(Record(ReqPayment[q]), ioFailures, <<"initialized", "none">>)
               /\ debits[ReqPayment[q]] = 0
      BY PositionIs DEF WorkflowInv, RequestsInPosition
    <3> QED
      BY <1>14, <3>1, <3>2, <3>3, StandsOn
  <2> QED
    BY <2>1, <2>2
<1> QED
  BY <1>12, <1>13, <1>15, <1>16 DEF Chain

\* POST /payments publishes the payment's first and only message.
LEMMA PublishSteps ==
  ASSUME WorkflowInv, UniqueIDs, NEW r \in Requests, CreatePublish(r)
  PROVE  Chain' /\ Advance
<1> DEFINE p == ReqPayment[r]
           m == [ev |-> "payment.initialized", pid |-> ReqPayment[r],
                 req |-> r, user |-> ReqUser[r],
                 amount |-> ReqAmount[r], attempt |-> 0,
                 reason |-> "none", action |-> "none"]
           home == ShardOf[p]
<1>1. /\ p \in PaymentIDs /\ home \in Shards /\ queue \in [Shards -> Seq(Message)]
      /\ http \in [Requests -> {"start", "saved", "published", "replied", "refused"}]
      /\ ioFailures \in Nat
  BY WorkflowAssumption, WalletStoreAssumption
     DEF WorkflowInv, TypeInv, TypeOK, WalletTypeOK
<1>2. /\ http[r] = "saved" /\ http' = [http EXCEPT ![r] = "published"]
      /\ queue' = [queue EXCEPT ![home] = Append(@, m)]
      /\ payments' = payments /\ debits' = debits /\ charges' = charges /\ refunds' = refunds
      /\ wpc' = wpc /\ ioFailures' = ioFailures
  BY DEF CreatePublish, historyVars, workerVars, walletVars
<1>3. m.ev = "payment.initialized" /\ m.pid = p /\ m.req = r
  OBVIOUS
<1>4. m \in Message
  <2>1. ReqAmount[r] > 0
    BY <1>2 DEF WorkflowInv, TypeInv, RowsReal
  <2> QED
    BY <2>1, WorkflowAssumption, WalletStoreAssumption
       DEF Message, Balances, Reasons, Actions, EventNames, MaxAttempts
<1> HIDE DEF m
<1>5. /\ queue' \in [Shards -> Seq(Message)]
      /\ \A t \in Shards : t # home => queue'[t] = queue[t]
      /\ \A t \in Shards : \A i \in DOMAIN queue'[t] :
           \/ i \in DOMAIN queue[t] /\ queue'[t][i] = queue[t][i]
           \/ t = home /\ i = Len(queue[home]) + 1 /\ queue'[t][i] = m
  BY <1>1, <1>2, <1>4, AppendFacts
<1>6. /\ Len(queue[home]) + 1 \in DOMAIN queue'[home] /\ queue'[home][Len(queue[home]) + 1] = m
      /\ \A i \in DOMAIN queue[home] : i \in DOMAIN queue'[home] /\ queue'[home][i] = queue[home][i]
  <2>1. queue[home] \in Seq(Message) /\ queue'[home] = Append(queue[home], m)
    BY <1>1, <1>2
  <2> QED
    BY <1>4, <2>1
<1>7. \A t \in Shards : DOMAIN queue[t] = 1 .. Len(queue[t]) /\ DOMAIN queue'[t] = 1 .. Len(queue'[t])
  BY <1>1, <1>5
<1>8. /\ \A t \in Shards : \A i \in DOMAIN queue[t] :
           /\ queue[t][i].req \in Requests /\ queue[t][i].req # r
           /\ queue[t][i].pid \in PaymentIDs /\ queue[t][i].pid # p
      /\ ~InFlight(p) /\ ~Carried(p, "wallet.debited")
  BY <1>2, NoMessageYet
<1>9. /\ Stands(Record(p), ioFailures, <<"initialized", "none">>) /\ debits[p] = 0
  BY <1>2, PositionIs DEF WorkflowInv, RequestsInPosition
<1> HIDE DEF home, p
<1>10. \A q : NewRecord(q) = Record(q)
  BY <1>2 DEF Record, NewRecord
<1>11. ASSUME NEW q, q # p
       PROVE  /\ NewInFlight(q) <=> InFlight(q)
              /\ NewCarried(q, "wallet.debited") <=> Carried(q, "wallet.debited")
  <2>1. ASSUME NEW t \in Shards, NEW i \in DOMAIN queue[t]
        PROVE  i \in DOMAIN queue'[t] /\ queue'[t][i] = queue[t][i]
    BY <1>5, <1>6
  <2>2. ASSUME NEW t \in Shards, NEW i \in DOMAIN queue'[t], queue'[t][i].pid = q
        PROVE  i \in DOMAIN queue[t] /\ queue'[t][i] = queue[t][i]
    BY <1>3, <1>5, <1>11, <2>2
  <2>3. NewInFlight(q) <=> InFlight(q)
    BY <1>7, <2>1, <2>2 DEF InFlight, NewInFlight
  <2>4. NewCarried(q, "wallet.debited") <=> Carried(q, "wallet.debited")
    BY <1>7, <2>1, <2>2 DEF Carried, NewCarried
  <2> QED
    BY <2>3, <2>4
<1>12. NewMoney(p) = Money(p)
  <2>1. Record(p)[1] = "initialized"
    BY <1>9 DEF Stands
  <2>2. ~NewCarried(p, "wallet.debited")
    <3>1. \A t \in Shards : \A i \in DOMAIN queue'[t] :
            ~(queue'[t][i].pid = p /\ queue'[t][i].ev = "wallet.debited")
      BY <1>3, <1>5, <1>8
    <3> QED
      BY <1>7, <3>1 DEF NewCarried
  <2>3. MoneyIn(Record(p), NewCarried(p, "wallet.debited"), NewInFlight(p))
          = MoneyIn(Record(p), Carried(p, "wallet.debited"), InFlight(p))
    BY <1>8, <2>1, <2>2 DEF MoneyIn
  <2> QED
    BY <1>10, <2>3, MoneyIs DEF NewMoney
<1>13. Advance
  <2>1. \A q \in PaymentIDs : NewRecord(q) = Record(q) /\ NewMoney(q) = Money(q)
    BY <1>10, <1>11, <1>12, SameMoney
  <2> QED
    BY <1>2, <2>1 DEF Advance, NoMove
<1>14. http'[r] = "published" /\ \A q \in Requests : q # r => http'[q] = http[q]
  BY <1>1, <1>2
<1>15. MessagesHome'
  <2> SUFFICES ASSUME NEW t \in Shards, NEW i \in DOMAIN queue'[t]
      PROVE  /\ ShardOf[queue'[t][i].pid] = t
             /\ ReqPayment[queue'[t][i].req] = queue'[t][i].pid
             /\ http'[queue'[t][i].req] \in {"published", "replied"}
    BY DEF MessagesHome
  <2>1. CASE queue'[t][i] = m /\ t = home
    BY <1>3, <1>14, <2>1 DEF home, p
  <2>2. CASE i \in DOMAIN queue[t] /\ queue'[t][i] = queue[t][i]
    BY <1>8, <1>14, <2>2 DEF WorkflowInv, MessagesHome
  <2> QED
    BY <1>5, <2>1, <2>2
<1>16. OneMessage'
  <2> SUFFICES ASSUME NEW t \in Shards, NEW i \in DOMAIN queue'[t], NEW j \in DOMAIN queue'[t],
                      queue'[t][i].pid = queue'[t][j].pid
               PROVE  i = j
    BY DEF OneMessage
  <2> QED
    BY <1>3, <1>5, <1>8 DEF WorkflowInv, OneMessage
<1>17. FailuresGrow
  BY <1>1, <1>2 DEF FailuresGrow
<1>18. MessagesInPosition'
  <2> SUFFICES ASSUME NEW t \in Shards, NEW i \in DOMAIN queue'[t]
      PROVE  NewPlaced(queue'[t][i], Place(t, i)')
    BY PlacedIs
  <2>1. CASE queue'[t][i] = m
    <3>1. \A at : Expected(m, at) = <<"initialized", "none">>
      BY <1>3 DEF Expected
    <3>2. Tried(m, debits'[m.pid])
      BY <1>2, <1>3, <1>9 DEF Tried
    <3>3. Stands(NewRecord(m.pid), ioFailures', <<"initialized", "none">>)
      BY <1>2, <1>3, <1>9, <1>10
    <3> QED
      BY <2>1, <3>1, <3>2, <3>3 DEF NewPlaced
  <2>2. CASE i \in DOMAIN queue[t] /\ queue'[t][i] = queue[t][i]
    <3>1. Placed(queue[t][i], Place(t, i)) /\ Place(t, i)' = Place(t, i)
      BY <1>2, <2>2, PlacedIs DEF WorkflowInv, Place
    <3> QED
      BY <1>10, <1>17, <2>2, <3>1, PlacedOn
  <2> QED
    BY <1>5, <2>1, <2>2
<1>19. RequestsInPosition'
  <2> SUFFICES ASSUME NEW q \in Requests, http'[q] \in {"start", "saved"}
      PROVE  /\ http'[q] = "start" => Stands(NewRecord(ReqPayment[q]), ioFailures', <<"none", "none">>)
             /\ http'[q] = "saved" =>
                  /\ Stands(NewRecord(ReqPayment[q]), ioFailures', <<"initialized", "none">>)
                  /\ debits'[ReqPayment[q]] = 0
    BY PositionIs DEF RequestsInPosition
  <2>1. http'[q] = http[q]
    BY <1>14
  <2>2. /\ http[q] = "start" => Stands(Record(ReqPayment[q]), ioFailures, <<"none", "none">>)
        /\ http[q] = "saved" =>
             /\ Stands(Record(ReqPayment[q]), ioFailures, <<"initialized", "none">>)
             /\ debits[ReqPayment[q]] = 0
    BY PositionIs DEF WorkflowInv, RequestsInPosition
  <2> QED
    BY <1>2, <1>10, <2>1, <2>2
<1> QED
  BY <1>13, <1>15, <1>16, <1>18, <1>19 DEF Chain

\* Messages tell the same position while records and handlers stay.
LEMMA PositionsStay ==
  ASSUME MessagesInPosition, payments' = payments, debits' = debits, charges' = charges,
         refunds' = refunds, ioFailures' = ioFailures, queue' = queue, wpc' = wpc
  PROVE  MessagesInPosition'
<1> SUFFICES ASSUME NEW t \in Shards, NEW i \in DOMAIN queue'[t]
    PROVE  NewPlaced(queue'[t][i], Place(t, i)')
  BY PlacedIs
<1>1. queue'[t][i] = queue[t][i] /\ i \in DOMAIN queue[t] /\ Place(t, i)' = Place(t, i)
  BY DEF Place
<1>2. /\ NewRecord(queue[t][i].pid) = Record(queue[t][i].pid)
      /\ debits'[queue[t][i].pid] = debits[queue[t][i].pid]
  BY DEF Record, NewRecord
<1>3. Placed(queue[t][i], Place(t, i))
  BY <1>1, PlacedIs
<1> QED
  BY <1>1, <1>2, <1>3 DEF Placed, NewPlaced

\* The rest of POST /payments leaves the payments and the bus alone.
LEMMA CreateSteps ==
  ASSUME WorkflowInv, UniqueIDs, NEW r \in Requests, Create(r) \/ ClientDisconnect(r)
  PROVE  Chain' /\ Advance
<1>1. CASE CreateRefused(r) \/ CreateReturn(r) \/ ClientDisconnect(r)
  <2>1. /\ payments' = payments /\ debits' = debits /\ charges' = charges /\ refunds' = refunds
        /\ queue' = queue /\ wpc' = wpc /\ ioFailures' = ioFailures
        /\ \A q \in Requests : http[q] \in {"published", "replied"} => http'[q] \in {"published", "replied"}
        /\ \A q \in Requests : http'[q] \in {"start", "saved"} => http'[q] = http[q]
    BY <1>1 DEF CreateRefused, CreateReturn, ClientDisconnect, historyVars, workerVars,
         walletVars, WorkflowInv, TypeInv, TypeOK
  <2>2. \A t \in Shards : \A i \in DOMAIN queue[t] : queue[t][i].req \in Requests
    BY ElementFacts DEF WorkflowInv, TypeInv, TypeOK
  <2>3. MessagesHome' /\ OneMessage'
    BY <2>1, <2>2 DEF WorkflowInv, MessagesHome, OneMessage
  <2>4. MessagesInPosition'
    BY <2>1, PositionsStay DEF WorkflowInv
  <2>5. RequestsInPosition'
    BY <2>1 DEF WorkflowInv, RequestsInPosition, InPosition, Ledger, Mishaps
  <2>6. Advance
    BY <2>1, NothingMoves DEF Advance
  <2> QED
    BY <2>3, <2>4, <2>5, <2>6 DEF Chain
<1> QED
  BY <1>1, InitializeSteps, PublishSteps DEF Create


\* The handlers that publish without changing the position of the payment.
LEMMA HandOverSteps ==
  ASSUME WorkflowInv, UniqueIDs, NEW s \in Shards,
         \/ HandlePaymentInitialized(s)
         \/ DebitRefused(s)
         \/ RequestCharge(s)
         \/ RequestRefund(s)
         \/ RecoveryResumes(s)
         \/ \E outcome \in Reasons : ChargeExhausted(s, outcome) \/ ChargeFails(s, outcome)
  PROVE  Chain' /\ Advance
<1> DEFINE h == Head(queue[s])
<1>1. /\ queue[s] # <<>> /\ http' = http /\ payments' = payments /\ debits' = debits
      /\ charges' = charges /\ refunds' = refunds /\ ioFailures' = ioFailures
  BY DEF HandlePaymentInitialized, DebitRefused, RequestCharge, RequestRefund,
         RecoveryResumes, ChargeExhausted, ChargeFails, Charge, At, historyVars, walletVars
<1>2. /\ h \in Message /\ h.pid \in PaymentIDs /\ Tried(h, debits[h.pid])
      /\ RealRow(payments[h.pid])
  BY <1>1, HeadAlone, HeadFacts DEF WorkflowInv, Placed
<1>3. /\ "none" \in Reasons /\ "insufficient" \in Reasons
      /\ "none" \in Actions /\ "payment.charge" \in Actions
      /\ 0 \in 0 .. MaxAttempts + 1 /\ 1 \in 0 .. MaxAttempts + 1
      /\ MaxAttempts \in 0 .. MaxAttempts + 1
  BY DEF Reasons, Actions, MaxAttempts
<1>4. /\ "wallet.debit_requested" \in EventNames /\ "wallet.debit_rejected" \in EventNames
      /\ "payment.charge_requested" \in EventNames /\ "payment.charge_failed" \in EventNames
      /\ "wallet.refund_requested" \in EventNames /\ "recovery.requested" \in EventNames
  BY DEF EventNames
<1>5. ASSUME NEW ev \in EventNames, NEW m, Derived(m, ev, h), PublishAndReturn(s, m),
             Expected(m, "run") = Expected(h, wpc[s]), Tried(m, debits[h.pid])
      PROVE  Chain' /\ Advance
  BY <1>1, <1>5, HandsOver
<1>6. CASE HandlePaymentInitialized(s)
  <2> DEFINE m == [Follow(h, "wallet.debit_requested") EXCEPT !.attempt = 1]
  <2>1. PublishAndReturn(s, m) /\ wpc[s] = "run" /\ h.ev = "payment.initialized"
    BY <1>6 DEF HandlePaymentInitialized, At
  <2> HIDE DEF h
  <2>2. Derived(m, "wallet.debit_requested", h) /\ m.attempt = 1
    <3>1. Derived(m, "wallet.debit_requested", h)
      BY <1>2, <1>3, <1>4, FollowFacts
    <3>2. m.attempt = 1
      BY <1>2 DEF Follow, Message
    <3> QED
      BY <3>1, <3>2
  <2> HIDE DEF m
  <2>3. m.ev = "wallet.debit_requested"
    BY <2>2 DEF Derived
  <2>4. Expected(m, "run") = Expected(h, wpc[s]) /\ Tried(m, debits[h.pid])
    BY <1>2, <2>1, <2>2, <2>3 DEF Expected, Tried
  <2> QED
    BY <1>4, <1>5, <2>1, <2>2, <2>4
<1>7. CASE DebitRefused(s)
  <2> DEFINE m == [Follow(h, "wallet.debit_rejected") EXCEPT !.reason = "insufficient"]
  <2>1. PublishAndReturn(s, m) /\ wpc[s] = "run" /\ h.ev = "wallet.debit_requested"
    BY <1>7 DEF DebitRefused, At
  <2> HIDE DEF h
  <2>2. Derived(m, "wallet.debit_rejected", h)
    BY <1>2, <1>3, <1>4, FollowFacts
  <2> HIDE DEF m
  <2>3. m.ev = "wallet.debit_rejected"
    BY <2>2 DEF Derived
  <2>4. Expected(m, "run") = Expected(h, wpc[s]) /\ Tried(m, debits[h.pid])
    BY <1>2, <2>1, <2>2, <2>3 DEF Expected, Tried
  <2> QED
    BY <1>4, <1>5, <2>1, <2>2, <2>4
<1>8. CASE RequestCharge(s)
  <2> DEFINE m == FromTable(h, "payment.charge_requested", 1)
  <2>1. PublishAndReturn(s, m) /\ wpc[s] = "next" /\ h.ev = "wallet.debited"
    BY <1>8 DEF RequestCharge, At
  <2> HIDE DEF h
  <2>2. Derived(m, "payment.charge_requested", h)
    BY <1>2, <1>3, <1>4, FromTableFacts
  <2> HIDE DEF m
  <2>3. m.ev = "payment.charge_requested"
    BY <2>2 DEF Derived
  <2>4. Expected(m, "run") = Expected(h, wpc[s]) /\ Tried(m, debits[h.pid])
    BY <1>2, <2>1, <2>2, <2>3 DEF Expected, Tried
  <2> QED
    BY <1>4, <1>5, <2>1, <2>2, <2>4
<1>9. CASE RequestRefund(s)
  <2> DEFINE m == FromTable(h, "wallet.refund_requested", 0)
  <2>1. PublishAndReturn(s, m) /\ wpc[s] = "next" /\ h.ev = "payment.charge_failed"
    BY <1>9 DEF RequestRefund, At
  <2> HIDE DEF h
  <2>2. Derived(m, "wallet.refund_requested", h)
    BY <1>2, <1>3, <1>4, FromTableFacts
  <2> HIDE DEF m
  <2>3. m.ev = "wallet.refund_requested"
    BY <2>2 DEF Derived
  <2>4. Expected(m, "run") = Expected(h, wpc[s]) /\ Tried(m, debits[h.pid])
    BY <1>2, <2>1, <2>2, <2>3 DEF Expected, Tried
  <2> QED
    BY <1>4, <1>5, <2>1, <2>2, <2>4
\* What is recovered is a charge, or the first debit.
<1>10. CASE RecoveryResumes(s)
  <2> DEFINE ev == IF h.action = "payment.charge" THEN "payment.charge_requested"
                                                  ELSE "wallet.debit_requested"
             m  == FromTable(h, ev, h.attempt + 1)
  <2>1. PublishAndReturn(s, m) /\ wpc[s] = "run" /\ h.ev = "recovery.requested"
    BY <1>10 DEF RecoveryResumes, RecoveredEvent, At
  <2>2. h.attempt \in 1 .. MaxAttempts
    BY <1>1, <2>1, HeadFacts DEF WorkflowInv
  <2> HIDE DEF h
  <2>3. h.attempt + 1 \in 0 .. MaxAttempts + 1 /\ ev \in EventNames
    BY <1>4, <2>2 DEF MaxAttempts
  <2> HIDE DEF ev
  <2>4. Derived(m, ev, h) /\ m.attempt = h.attempt + 1
    BY <1>2, <2>3, FromTableFacts
  <2> HIDE DEF m
  <2>5. m.ev = ev
    BY <2>4 DEF Derived
  <2>6. CASE h.action = "payment.charge"
    <3>1. m.ev = "payment.charge_requested"
      BY <2>5, <2>6 DEF ev
    <3>2. Expected(m, "run") = Expected(h, wpc[s]) /\ Tried(m, debits[h.pid])
      BY <2>1, <2>6, <3>1 DEF Expected, Tried
    <3> QED
      BY <1>5, <2>1, <2>3, <2>4, <3>2
  <2>7. CASE h.action # "payment.charge"
    <3>1. m.ev = "wallet.debit_requested"
      BY <2>5, <2>7 DEF ev
    <3>2. h.attempt = 1 /\ debits[h.pid] = 1
      BY <1>2, <2>1, <2>7 DEF Tried
    <3>3. Expected(m, "run") = Expected(h, wpc[s])
      BY <2>1, <2>7, <3>1 DEF Expected
    <3>4. Tried(m, debits[h.pid])
      BY <2>4, <3>1, <3>2 DEF Tried
    <3> QED
      BY <1>5, <2>1, <2>3, <2>4, <3>3, <3>4
  <2> QED
    BY <2>6, <2>7
<1>11. ASSUME NEW outcome \in Reasons, ChargeExhausted(s, outcome) PROVE Chain' /\ Advance
  <2> DEFINE m == [Follow(h, "recovery.requested")
                     EXCEPT !.reason = outcome, !.action = "payment.charge",
                            !.attempt = Attempt(s)]
  <2>1. PublishAndReturn(s, m) /\ wpc[s] = "run" /\ h.ev = "payment.charge_requested"
    BY <1>11 DEF ChargeExhausted, Charge, At
  <2>2. Attempt(s) \in 0 .. MaxAttempts + 1
    BY <1>3, <1>11 DEF ChargeExhausted
  <2> HIDE DEF h
  <2>3. Derived(m, "recovery.requested", h) /\ m.action = "payment.charge"
    <3>1. Derived(m, "recovery.requested", h)
      BY <1>2, <1>3, <1>4, <2>2, FollowFacts
    <3>2. m.action = "payment.charge"
      BY <1>2 DEF Follow, Message
    <3> QED
      BY <3>1, <3>2
  <2> HIDE DEF m
  <2>4. m.ev = "recovery.requested"
    BY <2>3 DEF Derived
  <2>5. Expected(m, "run") = Expected(h, wpc[s]) /\ Tried(m, debits[h.pid])
    BY <2>1, <2>3, <2>4 DEF Expected, Tried
  <2> QED
    BY <1>4, <1>5, <2>1, <2>3, <2>5
<1>12. ASSUME NEW outcome \in Reasons, ChargeFails(s, outcome) PROVE Chain' /\ Advance
  <2> DEFINE m == [Follow(h, "payment.charge_failed") EXCEPT !.reason = outcome]
  <2>1. PublishAndReturn(s, m) /\ wpc[s] = "run" /\ h.ev = "payment.charge_requested"
    BY <1>12 DEF ChargeFails, Charge, At
  <2> HIDE DEF h
  <2>2. Derived(m, "payment.charge_failed", h)
    BY <1>2, <1>3, <1>4, FollowFacts
  <2> HIDE DEF m
  <2>3. m.ev = "payment.charge_failed"
    BY <2>2 DEF Derived
  <2>4. Expected(m, "run") = Expected(h, wpc[s]) /\ Tried(m, debits[h.pid])
    BY <2>1, <2>3 DEF Expected, Tried
  <2> QED
    BY <1>4, <1>5, <2>1, <2>2, <2>4
<1> QED
  BY <1>6, <1>7, <1>8, <1>9, <1>10, <1>11, <1>12

\* The handlers that stay with their delivery and change no position.
LEMMA WaitingSteps ==
  ASSUME WorkflowInv, UniqueIDs, NEW s \in Shards,
         \/ MarkGet(s)
         \/ RefundRead(s)
         \/ RecoveryInterrupted(s)
         \/ \E outcome \in Reasons : ChargeRetries(s, outcome)
  PROVE  Chain' /\ Advance
<1> DEFINE h == Head(queue[s])
<1>1. /\ queue[s] # <<>> /\ queue' = queue /\ http' = http /\ payments' = payments
      /\ debits' = debits /\ charges' = charges /\ refunds' = refunds
      /\ ioFailures' = ioFailures
  BY DEF MarkGet, RefundRead, RecoveryInterrupted, ReturnError, ChargeRetries, Charge, At,
         historyVars, walletVars
<1>2. /\ wpc[s] = "run" /\ wpc'[s] # "next"
      /\ \A t \in Shards : t # s => wpc'[t] = wpc[t]
  BY DEF MarkGet, RefundRead, RecoveryInterrupted, ReturnError, ChargeRetries, Charge, At,
         Goto, WorkflowInv, TypeInv, TypeOK
<1>3. h.pid \in PaymentIDs /\ Placed(h, wpc[s]) /\ h.ev \in EventNames
  BY <1>1, HeadAlone
<1>4. \A p : NewRecord(p) = Record(p)
  BY <1>1 DEF Record, NewRecord
<1>5. FailuresGrow
  BY <1>1, WalletStoreAssumption DEF FailuresGrow, WorkflowInv, TypeInv, TypeOK, WalletTypeOK
<1>6. OthersStay(h.pid)
  BY <1>4 DEF OthersStay
<1> HIDE DEF h
<1>7. Expected(h, wpc'[s]) = Expected(h, wpc[s])
  BY <1>2, <1>3 DEF Expected, EventNames
<1>8. NewPlaced(h, wpc'[s])
  BY <1>1, <1>3, <1>4, <1>7 DEF Placed, NewPlaced
<1>9. LegalStep(Record(h.pid), Expected(h, wpc[s]), NewRecord(h.pid), Expected(h, wpc'[s]))
  BY <1>1, <1>4, <1>7 DEF LegalStep
<1> QED
  BY <1>1, <1>2, <1>5, <1>6, <1>8, <1>9, StayMoves DEF h

\* The types of the ledgers.
LEMMA LedgerTypes ==
  ASSUME WorkflowInv, NEW p \in PaymentIDs
  PROVE  /\ debits \in [PaymentIDs -> Nat] /\ refunds \in [PaymentIDs -> Nat]
         /\ charges \in [PaymentIDs -> Nat] /\ ioFailures \in Nat
         /\ debits[p] \in Nat /\ refunds[p] \in Nat /\ charges[p] \in Nat
  BY WalletStoreAssumption DEF WorkflowInv, TypeInv, TypeOK, WalletTypeOK

\* What a debit, a refund, a charge and a Save do to the record of the payment.
LEMMA DebitRecord ==
  ASSUME WorkflowInv, NEW p \in PaymentIDs,
         debits' = [debits EXCEPT ![p] = @ + 1],
         payments' = payments, charges' = charges, refunds' = refunds,
         Stands(Record(p), ioFailures, <<"initialized", "none">>), debits[p] <= 1
  PROVE  /\ OthersStay(p) /\ debits'[p] = debits[p] + 1
         /\ ioFailures' = ioFailures =>
              /\ Stands(NewRecord(p), ioFailures', <<"initialized", "held">>)
              /\ LegalStep(Record(p), <<"initialized", "none">>,
                           NewRecord(p), <<"initialized", "held">>)
         /\ ioFailures' = ioFailures + 1 =>
              /\ Stands(NewRecord(p), ioFailures', <<"initialized", "none">>)
              /\ LegalStep(Record(p), <<"initialized", "none">>,
                           NewRecord(p), <<"initialized", "none">>)
<1>1. /\ debits \in [PaymentIDs -> Nat] /\ ioFailures \in Nat
      /\ debits[p] \in Nat /\ refunds[p] \in Nat
  BY LedgerTypes
<1>2. debits'[p] = debits[p] + 1 /\ \A q \in PaymentIDs \ {p} : debits'[q] = debits[q]
  BY <1>1
<1>3. OthersStay(p)
  BY <1>2 DEF OthersStay, Record, NewRecord
<1>4. /\ Record(p) = <<"initialized", debits[p], 0, refunds[p]>>
      /\ NewRecord(p) = <<"initialized", debits[p] + 1, 0, refunds[p]>>
      /\ refunds[p] = 0 /\ debits[p] \in 0 .. ioFailures
  BY <1>1, <1>2 DEF Stands, LedgerIn, MishapsIn, Record, NewRecord
<1>5. ASSUME ioFailures' = ioFailures
      PROVE  /\ Stands(NewRecord(p), ioFailures', <<"initialized", "held">>)
             /\ LegalStep(Record(p), <<"initialized", "none">>,
                          NewRecord(p), <<"initialized", "held">>)
  BY <1>1, <1>4, <1>5 DEF Stands, LedgerIn, MishapsIn, LegalStep, LegalMoves
<1>6. ASSUME ioFailures' = ioFailures + 1
      PROVE  /\ Stands(NewRecord(p), ioFailures', <<"initialized", "none">>)
             /\ LegalStep(Record(p), <<"initialized", "none">>,
                          NewRecord(p), <<"initialized", "none">>)
  BY <1>1, <1>4, <1>6 DEF Stands, LedgerIn, MishapsIn, LegalStep
<1> QED
  BY <1>2, <1>3, <1>5, <1>6

LEMMA RefundRecord ==
  ASSUME WorkflowInv, NEW p \in PaymentIDs,
         refunds' = [refunds EXCEPT ![p] = @ + 1],
         payments' = payments, charges' = charges, debits' = debits,
         Stands(Record(p), ioFailures, <<"failed", "held">>)
  PROVE  /\ OthersStay(p) /\ debits'[p] = debits[p]
         /\ ioFailures' = ioFailures =>
              /\ Stands(NewRecord(p), ioFailures', <<"failed", "released">>)
              /\ LegalStep(Record(p), <<"failed", "held">>,
                           NewRecord(p), <<"failed", "released">>)
         /\ ioFailures' = ioFailures + 1 =>
              /\ Stands(NewRecord(p), ioFailures', <<"failed", "held">>)
              /\ LegalStep(Record(p), <<"failed", "held">>, NewRecord(p), <<"failed", "held">>)
<1>1. /\ refunds \in [PaymentIDs -> Nat] /\ ioFailures \in Nat
      /\ debits[p] \in Nat /\ refunds[p] \in Nat
  BY LedgerTypes
<1>2. refunds'[p] = refunds[p] + 1 /\ \A q \in PaymentIDs \ {p} : refunds'[q] = refunds[q]
  BY <1>1
<1>3. OthersStay(p)
  BY <1>2 DEF OthersStay, Record, NewRecord
<1>4. /\ Record(p) = <<"failed", debits[p], 0, refunds[p]>>
      /\ NewRecord(p) = <<"failed", debits[p], 0, refunds[p] + 1>>
      /\ debits[p] + refunds[p] - 1 \in 0 .. ioFailures /\ debits[p] > 0 /\ debits[p] <= 2
  BY <1>1, <1>2 DEF Stands, LedgerIn, MishapsIn, Record, NewRecord
<1>5. ASSUME ioFailures' = ioFailures
      PROVE  /\ Stands(NewRecord(p), ioFailures', <<"failed", "released">>)
             /\ LegalStep(Record(p), <<"failed", "held">>,
                          NewRecord(p), <<"failed", "released">>)
  BY <1>1, <1>4, <1>5 DEF Stands, LedgerIn, MishapsIn, LegalStep, LegalMoves
<1>6. ASSUME ioFailures' = ioFailures + 1
      PROVE  /\ Stands(NewRecord(p), ioFailures', <<"failed", "held">>)
             /\ LegalStep(Record(p), <<"failed", "held">>, NewRecord(p), <<"failed", "held">>)
  BY <1>1, <1>4, <1>6 DEF Stands, LedgerIn, MishapsIn, LegalStep
<1> QED
  BY <1>2, <1>3, <1>5, <1>6

LEMMA ChargeRecord ==
  ASSUME WorkflowInv, NEW p \in PaymentIDs,
         charges' = [charges EXCEPT ![p] = @ + 1],
         payments' = payments, debits' = debits, refunds' = refunds, ioFailures' = ioFailures,
         Stands(Record(p), ioFailures, <<"pending", "held">>)
  PROVE  /\ OthersStay(p)
         /\ Stands(NewRecord(p), ioFailures', <<"pending", "captured">>)
         /\ LegalStep(Record(p), <<"pending", "held">>, NewRecord(p), <<"pending", "captured">>)
<1>1. /\ charges \in [PaymentIDs -> Nat] /\ ioFailures \in Nat
      /\ debits[p] \in Nat /\ refunds[p] \in Nat
  BY LedgerTypes
<1>2. charges'[p] = charges[p] + 1 /\ \A q \in PaymentIDs \ {p} : charges'[q] = charges[q]
  BY <1>1
<1>3. OthersStay(p)
  BY <1>2 DEF OthersStay, Record, NewRecord
<1>4. /\ Record(p) = <<"pending", debits[p], 0, refunds[p]>>
      /\ NewRecord(p) = <<"pending", debits[p], 1, refunds[p]>>
      /\ debits[p] + refunds[p] - 1 \in 0 .. ioFailures /\ debits[p] > 0 /\ debits[p] <= 2
      /\ ~(refunds[p] > 0)
  BY <1>1, <1>2 DEF Stands, LedgerIn, MishapsIn, Record, NewRecord
<1> QED
  BY <1>1, <1>3, <1>4 DEF Stands, LedgerIn, MishapsIn, LegalStep, LegalMoves

LEMMA SaveRecord ==
  ASSUME WorkflowInv, NEW p \in PaymentIDs, NEW from, NEW to, NEW money,
         NewRecord(p) = <<to, debits[p], charges[p], refunds[p]>>, ioFailures' = ioFailures,
         << <<from, money>>, <<to, money>> >> \in LegalMoves, from # "failed", to # "none",
         Stands(Record(p), ioFailures, <<from, money>>)
  PROVE  /\ Stands(NewRecord(p), ioFailures', <<to, money>>)
         /\ LegalStep(Record(p), <<from, money>>, NewRecord(p), <<to, money>>)
<1>1. ioFailures \in Nat /\ debits[p] \in Nat /\ refunds[p] \in Nat
  BY LedgerTypes
<1>2. Record(p) = <<from, debits[p], charges[p], refunds[p]>>
  BY DEF Stands, Record
<1>3. MishapsIn(NewRecord(p), money) = MishapsIn(Record(p), money)
  BY <1>2 DEF MishapsIn
<1>4. /\ LedgerIn(Record(p), ioFailures, money) /\ ~(refunds[p] > 0) /\ money # "released"
  BY <1>2 DEF Stands, LedgerIn
<1>5. LedgerIn(NewRecord(p), ioFailures', money)
  BY <1>2, <1>3, <1>4 DEF LedgerIn
<1>6. Stands(NewRecord(p), ioFailures', <<to, money>>)
  BY <1>5 DEF Stands
<1>7. LegalStep(Record(p), <<from, money>>, NewRecord(p), <<to, money>>)
  BY <1>1, <1>2, <1>3 DEF LegalStep
<1> QED
  BY <1>6, <1>7

\* The handlers that move the payment of their event.
LEMMA MovingSteps ==
  ASSUME WorkflowInv, UniqueIDs, NEW s \in Shards,
         \/ \E ok \in BOOLEAN : DebitApplied(s, ok) \/ RefundWrite(s, ok)
         \/ MarkPending(s) \/ MarkRejected(s) \/ MarkSucceeded(s) \/ MarkFailed(s)
         \/ ChargeSucceeds(s)
  PROVE  Chain' /\ Advance
<1> DEFINE h == Head(queue[s])
           p == h.pid
<1>1. queue[s] # <<>> /\ http' = http
  BY DEF DebitApplied, RefundWrite, MarkPending, MarkRejected, MarkSucceeded, MarkFailed,
         ChargeSucceeds, Charge, At
<1>2. /\ h \in Message /\ p \in PaymentIDs
      /\ Stands(Record(p), ioFailures, Expected(h, wpc[s])) /\ Tried(h, debits[p])
  BY <1>1, HeadAlone DEF Placed
<1>3. /\ wpc \in [Shards -> {"run", "mark", "next", "refund"}] /\ ioFailures \in Nat
      /\ debits[p] \in Nat /\ charges[p] \in Nat
  BY <1>2, LedgerTypes DEF WorkflowInv, TypeInv, TypeOK
<1>4. ioFailures' = ioFailures \/ ioFailures' = ioFailures + 1 => FailuresGrow
  BY <1>3 DEF FailuresGrow
<1>5. /\ "wallet.debited" \in EventNames /\ "payment.charge_succeeded" \in EventNames
      /\ "wallet.debit_rejected" \in EventNames /\ "recovery.requested" \in EventNames
      /\ "none" \in Reasons /\ "db_internal" \in Reasons
      /\ "none" \in Actions /\ "wallet.debit" \in Actions
      /\ 0 \in 0 .. MaxAttempts + 1 /\ 1 \in 0 .. MaxAttempts + 1
  BY DEF EventNames, Reasons, Actions, MaxAttempts
\* The handler publishes m and moves the payment to b.
<1>6. ASSUME NEW ev \in EventNames, NEW m, Derived(m, ev, h), PublishAndReturn(s, m),
             FailuresGrow, OthersStay(p), NEW a, a = Expected(h, wpc[s]), NEW b, b = Expected(m, "run"),
             Stands(NewRecord(p), ioFailures', b), Tried(m, debits'[p]),
             LegalStep(Record(p), a, NewRecord(p), b)
      PROVE  Chain' /\ Advance
  <2>1. NewPlaced(m, "run")
    BY <1>6 DEF NewPlaced, Derived
  <2> QED
    BY <1>1, <1>6, <2>1, PublishMoves
<1>7. ASSUME NEW ok \in BOOLEAN, DebitApplied(s, ok) PROVE Chain' /\ Advance
  <2>1. /\ wpc[s] = "run" /\ h.ev = "wallet.debit_requested"
        /\ debits' = [debits EXCEPT ![p] = @ + 1]
        /\ payments' = payments /\ charges' = charges /\ refunds' = refunds
        /\ PublishAndReturn(s, IF ok THEN Follow(h, "wallet.debited") ELSE DebitFailureEvent(h))
        /\ ok => ioFailures' = ioFailures
        /\ ~ok => ioFailures' = ioFailures + 1
    BY <1>7 DEF DebitApplied, DebitBalance, PersistWallets, At
  <2> HIDE DEF h, p
  <2>2. Expected(h, wpc[s]) = <<"initialized", "none">>
    BY <2>1 DEF Expected
  <2>3. h.attempt \in {1, 2} /\ debits[p] = h.attempt - 1
    BY <1>2, <2>1 DEF Tried
  <2>4. /\ OthersStay(p) /\ debits'[p] = debits[p] + 1
        /\ ioFailures' = ioFailures =>
             /\ Stands(NewRecord(p), ioFailures', <<"initialized", "held">>)
             /\ LegalStep(Record(p), <<"initialized", "none">>,
                          NewRecord(p), <<"initialized", "held">>)
        /\ ioFailures' = ioFailures + 1 =>
             /\ Stands(NewRecord(p), ioFailures', <<"initialized", "none">>)
             /\ LegalStep(Record(p), <<"initialized", "none">>,
                          NewRecord(p), <<"initialized", "none">>)
    <3>1. debits[p] <= 1
      BY <2>3
    <3> QED
      BY <1>2, <2>1, <2>2, <3>1, DebitRecord
  <2>5. CASE ok
    <3> DEFINE m == Follow(h, "wallet.debited")
    <3>1. Derived(m, "wallet.debited", h)
      BY <1>2, <1>5, FollowFacts
    <3>2. PublishAndReturn(s, m)
      BY <2>1, <2>5
    <3> HIDE DEF m
    <3>3. Expected(m, "run") = <<"initialized", "held">> /\ Tried(m, debits'[p])
      BY <3>1 DEF Derived, Expected, Tried
    <3> QED
      BY <1>4, <1>5, <1>6, <2>1, <2>2, <2>4, <2>5, <3>1, <3>2, <3>3
  <2>6. CASE ~ok /\ h.attempt = 1
    <3> DEFINE m == [Follow(h, "recovery.requested")
                       EXCEPT !.reason = "db_internal", !.action = "wallet.debit", !.attempt = 1]
    <3>1. Derived(m, "recovery.requested", h)
      BY <1>2, <1>5, FollowFacts
    <3>2. m.attempt = 1 /\ m.action = "wallet.debit"
      BY <1>2 DEF Follow, Message
    <3>3. PublishAndReturn(s, m)
      BY <2>1, <2>6 DEF DebitFailureEvent
    <3> HIDE DEF m
    <3>4. m.ev = "recovery.requested"
      BY <3>1 DEF Derived
    <3>5. Expected(m, "run") = <<"initialized", "none">>
      BY <3>2, <3>4 DEF Expected
    <3>6. Tried(m, debits'[p])
      BY <2>3, <2>4, <2>6, <3>2, <3>4 DEF Tried
    <3> QED
      BY <1>4, <1>5, <1>6, <2>1, <2>2, <2>4, <2>6, <3>1, <3>3, <3>5, <3>6
  <2>7. CASE ~ok /\ h.attempt # 1
    <3> DEFINE m == [Follow(h, "wallet.debit_rejected") EXCEPT !.reason = "db_internal"]
    <3>1. Derived(m, "wallet.debit_rejected", h)
      BY <1>2, <1>5, FollowFacts
    <3>2. PublishAndReturn(s, m)
      BY <2>1, <2>7 DEF DebitFailureEvent
    <3> HIDE DEF m
    <3>3. m.ev = "wallet.debit_rejected"
      BY <3>1 DEF Derived
    <3>4. Expected(m, "run") = <<"initialized", "none">> /\ Tried(m, debits'[p])
      BY <3>3 DEF Expected, Tried
    <3> QED
      BY <1>4, <1>5, <1>6, <2>1, <2>2, <2>4, <2>7, <3>1, <3>2, <3>4
  <2> QED
    BY <2>5, <2>6, <2>7
<1>8. ASSUME NEW ok \in BOOLEAN, RefundWrite(s, ok) PROVE Chain' /\ Advance
  <2>1. /\ wpc[s] = "refund" /\ h.ev = "wallet.refund_requested"
        /\ refunds' = [refunds EXCEPT ![p] = @ + 1]
        /\ payments' = payments /\ charges' = charges /\ debits' = debits
        /\ ok => ioFailures' = ioFailures /\ Return(s)
        /\ ~ok => ioFailures' = ioFailures + 1 /\ ReturnError(s)
    BY <1>8 DEF RefundWrite, SetBalance, PersistWallets, At
  <2> HIDE DEF h, p
  <2>2. \A at : Expected(h, at) = <<"failed", "held">>
    BY <2>1 DEF Expected
  <2>3. /\ OthersStay(p) /\ debits'[p] = debits[p]
        /\ ioFailures' = ioFailures =>
             /\ Stands(NewRecord(p), ioFailures', <<"failed", "released">>)
             /\ LegalStep(Record(p), <<"failed", "held">>,
                          NewRecord(p), <<"failed", "released">>)
        /\ ioFailures' = ioFailures + 1 =>
             /\ Stands(NewRecord(p), ioFailures', <<"failed", "held">>)
             /\ LegalStep(Record(p), <<"failed", "held">>, NewRecord(p), <<"failed", "held">>)
    BY <1>2, <2>1, <2>2, RefundRecord
  <2>4. CASE ok
    <3>1. <<"failed", "released">> \in Positions \ {<<"initialized", "held">>, <<"failed", "held">>}
      BY DEF Positions
    <3> QED
      BY <1>1, <1>4, <2>1, <2>2, <2>3, <2>4, <3>1, ReturnMoves DEF h, p
  <2>5. CASE ~ok
    <3>1. queue' = queue /\ \A t \in Shards : t # s => wpc'[t] = wpc[t]
      BY <1>3, <2>1, <2>5 DEF ReturnError
    <3>2. NewPlaced(h, wpc'[s])
      BY <1>2, <2>1, <2>2, <2>3, <2>5 DEF NewPlaced, Tried, p
    <3>3. LegalStep(Record(p), Expected(h, wpc[s]), NewRecord(p), Expected(h, wpc'[s]))
      BY <2>1, <2>2, <2>3, <2>5
    <3> QED
      BY <1>1, <1>4, <2>1, <2>3, <2>5, <3>1, <3>2, <3>3, StayMoves DEF h, p
  <2> QED
    BY <2>4, <2>5
<1>9. CASE MarkPending(s) \/ MarkFailed(s)
  <2> DEFINE from == IF h.ev = "wallet.debited" THEN "initialized" ELSE "pending"
             to   == IF h.ev = "wallet.debited" THEN "pending" ELSE "failed"
  <2>1. /\ h.ev \in {"wallet.debited", "payment.charge_failed"}
        /\ wpc[s] = "mark" /\ wpc' = [wpc EXCEPT ![s] = "next"]
        /\ queue' = queue /\ debits' = debits /\ charges' = charges /\ refunds' = refunds
        /\ ioFailures' = ioFailures
        /\ \E reason : Save(s, to, reason)
    BY <1>9 DEF MarkPending, MarkFailed, At, Goto, historyVars, walletVars
  <2>2. /\ OthersStay(p)
        /\ NewRecord(p) = <<to, debits[p], charges[p], refunds[p]>>
    BY <1>1, <2>1, SaveMoves
  <2> HIDE DEF h, p
  <2>3. /\ Expected(h, wpc[s]) = <<from, "held">> /\ Expected(h, "next") = <<to, "held">>
        /\ Tried(h, debits'[p])
    BY <1>2, <2>1 DEF Expected, Tried
  <2>4. << <<from, "held">>, <<to, "held">> >> \in LegalMoves /\ from # "failed" /\ to # "none"
    BY <2>1 DEF LegalMoves
  <2> HIDE DEF from, to
  <2>5. /\ Stands(NewRecord(p), ioFailures', <<to, "held">>)
        /\ LegalStep(Record(p), <<from, "held">>, NewRecord(p), <<to, "held">>)
    BY <1>2, <2>1, <2>2, <2>3, <2>4, SaveRecord
  <2>6. wpc'[s] = "next" /\ \A t \in Shards : t # s => wpc'[t] = wpc[t]
    BY <1>3, <2>1
  <2>7. NewPlaced(h, wpc'[s])
    BY <2>3, <2>5, <2>6 DEF NewPlaced, p
  <2> QED
    BY <1>1, <1>4, <2>1, <2>2, <2>3, <2>5, <2>6, <2>7, StayMoves DEF h, p
<1>10. CASE MarkRejected(s) \/ MarkSucceeded(s)
  <2> DEFINE from == IF h.ev = "wallet.debit_rejected" THEN "initialized" ELSE "pending"
             to == IF h.ev = "wallet.debit_rejected" THEN "rejected" ELSE "succeeded"
             money == IF h.ev = "wallet.debit_rejected" THEN "none" ELSE "captured"
  <2>1. /\ h.ev \in {"wallet.debit_rejected", "payment.charge_succeeded"}
        /\ wpc[s] = "mark" /\ Return(s)
        /\ debits' = debits /\ charges' = charges /\ refunds' = refunds
        /\ ioFailures' = ioFailures
        /\ \E reason : Save(s, to, reason)
    BY <1>10 DEF MarkRejected, MarkSucceeded, At, historyVars, walletVars
  <2>2. /\ OthersStay(p)
        /\ NewRecord(p) = <<to, debits[p], charges[p], refunds[p]>>
    BY <1>1, <2>1, SaveMoves
  <2> HIDE DEF h, p
  <2>3. Expected(h, wpc[s]) = <<from, money>>
    BY <1>2, <2>1 DEF Expected
  <2>4. << <<from, money>>, <<to, money>> >> \in LegalMoves /\ from # "failed" /\ to # "none"
        /\ <<to, money>> \in Positions \ {<<"initialized", "held">>, <<"failed", "held">>}
    BY <2>1 DEF LegalMoves, Positions
  <2> HIDE DEF from, to, money
  <2>5. /\ Stands(NewRecord(p), ioFailures', <<to, money>>)
        /\ LegalStep(Record(p), <<from, money>>, NewRecord(p), <<to, money>>)
    BY <1>2, <2>1, <2>2, <2>3, <2>4, SaveRecord
  <2> QED
    BY <1>1, <1>4, <2>1, <2>2, <2>3, <2>4, <2>5, ReturnMoves DEF h, p
<1>11. CASE ChargeSucceeds(s)
  <2> DEFINE m == Follow(h, "payment.charge_succeeded")
  <2>1. /\ PublishAndReturn(s, m) /\ wpc[s] = "run" /\ h.ev = "payment.charge_requested"
        /\ charges' = [charges EXCEPT ![p] = @ + 1]
        /\ payments' = payments /\ debits' = debits /\ refunds' = refunds
        /\ ioFailures' = ioFailures
    BY <1>11 DEF ChargeSucceeds, Charge, At, walletVars
  <2> HIDE DEF h, p
  <2>2. Derived(m, "payment.charge_succeeded", h)
    BY <1>2, <1>5, FollowFacts
  <2> HIDE DEF m
  <2>3. Expected(h, wpc[s]) = <<"pending", "held">>
    BY <2>1 DEF Expected
  <2>4. /\ OthersStay(p)
        /\ Stands(NewRecord(p), ioFailures', <<"pending", "captured">>)
        /\ LegalStep(Record(p), <<"pending", "held">>, NewRecord(p), <<"pending", "captured">>)
    BY <1>2, <2>1, <2>3, ChargeRecord
  <2>5. Expected(m, "run") = <<"pending", "captured">> /\ Tried(m, debits'[p])
    BY <2>2 DEF Derived, Expected, Tried
  <2> QED
    BY <1>4, <1>5, <1>6, <2>1, <2>2, <2>3, <2>4, <2>5
<1> QED
  BY <1>7, <1>8, <1>9, <1>10, <1>11

LEMMA AdvanceFailures ==
  ASSUME WorkflowInv, Advance
  PROVE  FailuresGrow
<1>1. ioFailures \in Nat
  BY WalletStoreAssumption DEF WorkflowInv, TypeInv, TypeOK, WalletTypeOK
<1>2. ioFailures' = ioFailures \/ ioFailures' = ioFailures + 1
  BY DEF Advance, NoMove, MovesTo, LegalStep
<1> QED
  BY <1>1, <1>2 DEF FailuresGrow

LEMMA NextAdvances ==
  ASSUME UniqueIDs, WorkflowInv, [Next]_vars
  PROVE  WorkflowInv' /\ Advance
<1>1. TypeInv'
  BY NextType DEF WorkflowInv
<1>2. Chain' /\ Advance
  <2>1. CASE UNCHANGED vars
    <3>1. /\ payments' = payments /\ debits' = debits /\ charges' = charges
          /\ refunds' = refunds /\ ioFailures' = ioFailures /\ queue' = queue
          /\ wpc' = wpc /\ http' = http
      BY <2>1 DEF vars, workerVars, historyVars, walletVars
    <3>2. MessagesInPosition'
      BY <3>1, PositionsStay DEF WorkflowInv
    <3>3. MessagesHome' /\ OneMessage' /\ RequestsInPosition'
      BY <3>1 DEF WorkflowInv, MessagesHome, OneMessage, RequestsInPosition, InPosition,
           Ledger, Mishaps
    <3> QED
      BY <3>1, <3>2, <3>3, NothingMoves DEF Advance, Chain
  <2>2. ASSUME NEW r \in Requests, Create(r) \/ ClientDisconnect(r) PROVE Chain' /\ Advance
    BY <2>2, CreateSteps
  <2>3. ASSUME NEW s \in Shards, Worker(s) PROVE Chain' /\ Advance
    BY <2>3, HandOverSteps, WaitingSteps, MovingSteps
       DEF Worker, HandleWalletDebitRequested, HandleWalletDebited,
           HandleChargeRequested, HandleChargeFailed, HandleWalletRefundRequested,
           HandleRecoveryRequested
  <2> QED
    BY <2>1, <2>2, <2>3 DEF Next
<1>3. MoneyMatchesStatus'
  BY <1>1, <1>2, AdvanceKeepsMoney, AdvanceFailures DEF WorkflowInv, TypeInv
<1> QED
  BY <1>1, <1>2, <1>3 DEF WorkflowInv, Chain

LEMMA InitInPosition == Init => WorkflowInv
<1> SUFFICES ASSUME Init PROVE WorkflowInv
  OBVIOUS
<1>1. TypeInv
  BY InitType
<1>2. ASSUME NEW p \in PaymentIDs
      PROVE  /\ Record(p) = <<"none", 0, 0, 0>>
             /\ Stands(Record(p), ioFailures, <<"none", "none">>)
  <2>1. Record(p) = <<"none", 0, 0, 0>> /\ ioFailures = 0
    BY DEF Init, WalletInit, Record, NoPayment
  <2> QED
    BY <2>1 DEF Stands, LedgerIn, MishapsIn
<1>3. MoneyMatchesStatus
  <2>1. <<"none", "none">> \in Positions
    BY DEF Positions
  <2> QED
    BY <1>1, <1>2, <2>1, MoneyIsPosition DEF TypeInv
<1>4. MessagesHome /\ OneMessage /\ MessagesInPosition
  BY DEF Init, MessagesHome, OneMessage, MessagesInPosition
<1>5. RequestsInPosition
  BY <1>2, PositionIs, WorkflowAssumption DEF Init, RequestsInPosition
<1> QED
  BY <1>1, <1>3, <1>4, <1>5 DEF WorkflowInv

\* With unique payment ids, the only message of a payment always tells its
\* position, also when writes of wallets.json fail: the invariant that the other
\* theorems about the workflow rest on.
THEOREM AlwaysInPosition == ASSUME UniqueIDs PROVE Spec => []WorkflowInv
<1>1. WorkflowInv /\ [Next]_vars => WorkflowInv'
  BY NextAdvances
<1> QED
  BY <1>1, InitInPosition, PTL DEF Spec

\* For any number of payments, users, shards and amounts, however the workers
\* interleave, and whatever the gateway answers and wallets.json and the clients'
\* connections do: the status of a payment agrees with what was done to its money,
\* if clients do not use a payment id twice.
THEOREM MoneySafe == ASSUME UniqueIDs PROVE Spec => []MoneyMatchesStatus
<1>1. Spec => []WorkflowInv
  BY AlwaysInPosition
<1>2. WorkflowInv => MoneyMatchesStatus
  BY DEF WorkflowInv
<1> QED
  BY <1>1, <1>2, PTL

-----------------------------------------------------------------------------
(* The refinement of PaymentLifecycle. *)

LEMMA AdvanceIsLifecycle ==
  ASSUME WorkflowInv, Advance
  PROVE  [Lifecycle!LifecycleNext]_Lifecycle!lifecycleVars
<1> DEFINE status     == [p \in PaymentIDs |-> payments[p].status]
           money      == [p \in PaymentIDs |-> Money(p)]
           mishaps    == [p \in PaymentIDs |-> Mishaps(p, Money(p))]
           newStatus  == [p \in PaymentIDs |-> payments'[p].status]
           newMoney   == [p \in PaymentIDs |-> NewMoney(p)]
           newMishaps == [p \in PaymentIDs |-> MishapsIn(NewRecord(p), NewMoney(p))]
<1>1. status' = newStatus /\ money' = newMoney /\ mishaps' = newMishaps
  <2>1. ASSUME NEW p
        PROVE  Money(p)' = NewMoney(p) /\ Mishaps(p, Money(p))' = MishapsIn(NewRecord(p), NewMoney(p))
    <3>1. Money(p)' = NewMoney(p)
      BY MoneyIs
    <3>2. Mishaps(p, Money(p))' = MishapsIn(NewRecord(p), Money(p)')
      BY DEF Mishaps, MishapsIn, NewRecord
    <3> QED
      BY <3>1, <3>2
  <2> QED
    BY <2>1
<1>2. ASSUME NEW p, NewRecord(p) = Record(p), NewMoney(p) = Money(p)
      PROVE  /\ payments'[p].status = payments[p].status
             /\ MishapsIn(NewRecord(p), NewMoney(p)) = Mishaps(p, Money(p))
  <2>1. payments'[p].status = payments[p].status
    BY <1>2 DEF Record, NewRecord
  <2>2. MishapsIn(NewRecord(p), NewMoney(p)) = MishapsIn(Record(p), Money(p))
    BY <1>2
  <2>3. Mishaps(p, Money(p)) = MishapsIn(Record(p), Money(p))
    BY DEF Mishaps, MishapsIn, Record
  <2> QED
    BY <2>1, <2>2, <2>3
<1>3. CASE NoMove
  <2>1. newStatus = status /\ newMoney = money /\ newMishaps = mishaps
    BY <1>2, <1>3 DEF NoMove
  <2>2. ioFailures' = ioFailures
    BY <1>3 DEF NoMove
  <2> QED
    BY <1>1, <2>1, <2>2 DEF Lifecycle!lifecycleVars
<1>4. ASSUME NEW p \in PaymentIDs, NEW a \in Positions, NEW b \in Positions, MovesTo(p, a, b)
      PROVE  [Lifecycle!LifecycleNext]_Lifecycle!lifecycleVars
  <2>1. \A q \in PaymentIDs \ {p} :
          newStatus[q] = status[q] /\ newMoney[q] = money[q] /\ newMishaps[q] = mishaps[q]
    BY <1>2, <1>4 DEF MovesTo, OthersStay, OthersKeep
  <2>2. /\ newStatus = [status EXCEPT ![p] = newStatus[p]]
        /\ newMoney = [money EXCEPT ![p] = newMoney[p]]
        /\ newMishaps = [mishaps EXCEPT ![p] = newMishaps[p]]
    BY <2>1
  <2>3. /\ newStatus[p] = status[p] => newStatus = status
        /\ newMoney[p] = money[p] => newMoney = money
        /\ newMishaps[p] = mishaps[p] => newMishaps = mishaps
    BY <2>1
  <2>4. /\ status[p] = a[1] /\ newStatus[p] = b[1]
        /\ money[p] = a[2] /\ newMoney[p] = b[2]
        /\ mishaps[p] = MishapsIn(Record(p), a[2])
        /\ newMishaps[p] = MishapsIn(NewRecord(p), b[2])
    <3>1. /\ Record(p)[1] = a[1] /\ NewRecord(p)[1] = b[1] /\ Money(p) = a[2] /\ NewMoney(p) = b[2]
      BY <1>4 DEF MovesTo, Stands
    <3>2. payments[p].status = a[1] /\ payments'[p].status = b[1]
      BY <3>1 DEF Record, NewRecord
    <3>3. Mishaps(p, a[2]) = MishapsIn(Record(p), a[2])
      BY DEF Mishaps, MishapsIn, Record
    <3> QED
      BY <3>1, <3>2, <3>3
  <2>5. LegalStep(Record(p), a, NewRecord(p), b)
    BY <1>4 DEF MovesTo
  <2> HIDE DEF status, money, mishaps, newStatus, newMoney, newMishaps
  <2>6. CASE a = b /\ NewRecord(p) = Record(p) /\ ioFailures' = ioFailures
    <3>1. newStatus = status /\ newMoney = money /\ newMishaps = mishaps
      BY <2>3, <2>4, <2>6
    <3> QED
      BY <1>1, <2>6, <3>1 DEF Lifecycle!lifecycleVars, status, money, mishaps
  <2>7. CASE /\ <<a, b>> \in LegalMoves
             /\ MishapsIn(NewRecord(p), b[2]) = MishapsIn(Record(p), a[2])
             /\ ioFailures' = ioFailures
    <3>1. mishaps' = mishaps /\ ioFailures' = ioFailures
      BY <1>1, <2>3, <2>4, <2>7
    <3>2. /\ status' = [status EXCEPT ![p] = newStatus[p]] /\ money' = [money EXCEPT ![p] = newMoney[p]]
          /\ newStatus[p] = status[p] => status' = status
          /\ newMoney[p] = money[p] => money' = money
      BY <1>1, <2>2, <2>3
    <3>3. \/ /\ status[p] = "none" /\ money[p] = "none"
             /\ newStatus[p] = "initialized" /\ newMoney[p] = "none"
          \/ /\ status[p] = "initialized" /\ money[p] = "none"
             /\ newStatus[p] = "initialized" /\ newMoney[p] = "held"
          \/ /\ status[p] = "initialized" /\ money[p] = "none"
             /\ newStatus[p] = "rejected" /\ newMoney[p] = "none"
          \/ /\ status[p] = "initialized" /\ money[p] = "held"
             /\ newStatus[p] = "pending" /\ newMoney[p] = "held"
          \/ /\ status[p] = "pending" /\ money[p] = "held"
             /\ newStatus[p] = "pending" /\ newMoney[p] = "captured"
          \/ /\ status[p] = "pending" /\ money[p] = "captured"
             /\ newStatus[p] = "succeeded" /\ newMoney[p] = "captured"
          \/ /\ status[p] = "pending" /\ money[p] = "held"
             /\ newStatus[p] = "failed" /\ newMoney[p] = "held"
          \/ /\ status[p] = "failed" /\ money[p] = "held"
             /\ newStatus[p] = "failed" /\ newMoney[p] = "released"
      BY <2>4, <2>7 DEF LegalMoves
    <3>4. \/ Lifecycle!Submit(p) \/ Lifecycle!Hold(p) \/ Lifecycle!Reject(p)
          \/ Lifecycle!Await(p) \/ Lifecycle!Capture(p) \/ Lifecycle!Succeed(p)
          \/ Lifecycle!Fail(p) \/ Lifecycle!Release(p)
      BY <3>1, <3>2, <3>3
         DEF Lifecycle!Submit, Lifecycle!Hold, Lifecycle!Reject, Lifecycle!Await,
             Lifecycle!Capture, Lifecycle!Succeed, Lifecycle!Fail, Lifecycle!Release,
             Lifecycle!Move, Lifecycle!Transfer, status, money, mishaps
    <3> QED
      BY <3>4 DEF Lifecycle!LifecycleNext
  <2>8. CASE /\ a = b /\ a \in {<<"initialized", "none">>, <<"failed", "held">>}
             /\ MishapsIn(NewRecord(p), b[2]) = MishapsIn(Record(p), a[2]) + 1
             /\ ioFailures' = ioFailures + 1
    <3>1. status' = status /\ money' = money
      BY <1>1, <2>3, <2>4, <2>8
    <3>2. mishaps' = [mishaps EXCEPT ![p] = mishaps[p] + 1]
      BY <1>1, <2>2, <2>4, <2>8
    <3>3. \/ status[p] = "initialized" /\ money[p] = "none"
          \/ status[p] = "failed" /\ money[p] = "held"
      BY <2>4, <2>8
    <3>4. Lifecycle!MisHold(p) \/ Lifecycle!MisRelease(p)
      BY <2>8, <3>1, <3>2, <3>3
         DEF Lifecycle!MisHold, Lifecycle!MisRelease, Lifecycle!Mishap, status, money, mishaps
    <3> QED
      BY <3>4 DEF Lifecycle!LifecycleNext
  <2> QED
    BY <2>5, <2>6, <2>7, <2>8 DEF LegalStep
<1> QED
  BY <1>3, <1>4 DEF Advance

LEMMA InitIsLifecycle == Init => Lifecycle!LifecycleInit
<1> SUFFICES ASSUME Init PROVE Lifecycle!LifecycleInit
  OBVIOUS
<1>1. ASSUME NEW p \in PaymentIDs
      PROVE  payments[p].status = "none" /\ Money(p) = "none" /\ Mishaps(p, Money(p)) = 0
  <2>1. /\ payments[p].status = "none" /\ charges[p] = 0 /\ debits[p] = 0 /\ refunds[p] = 0
    BY DEF Init, NoPayment
  <2>2. Money(p) = "none"
    BY <2>1 DEF Money, Held
  <2> QED
    BY <2>1, <2>2 DEF Mishaps
<1>2. ioFailures = 0
  BY DEF Init, WalletInit
<1> QED
  BY <1>1, <1>2 DEF Lifecycle!LifecycleInit

\* The workflow implements PaymentLifecycle: whatever the interleaving, every
\* step of Create and of a handler moves one payment along the lifecycle, or leaves
\* all of them where they are, or is a debit or a refund that a failed write of
\* wallets.json turned into a mishap.
THEOREM WorkflowImplementsLifecycle == ASSUME UniqueIDs PROVE Spec => ImplementsLifecycle
<1>1. WorkflowInv /\ [Next]_vars => WorkflowInv'
  BY NextAdvances
<1>2. WorkflowInv /\ WorkflowInv' /\ [Next]_vars =>
        [Lifecycle!LifecycleNext]_Lifecycle!lifecycleVars
  BY NextAdvances, AdvanceIsLifecycle
<1> QED
  BY <1>1, <1>2, InitInPosition, InitIsLifecycle, PTL
     DEF Spec, ImplementsLifecycle, Lifecycle!LifecycleSpec

=============================================================================
