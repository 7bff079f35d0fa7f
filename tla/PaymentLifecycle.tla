-------------------------- MODULE PaymentLifecycle --------------------------
(***************************************************************************)
(* What the payment system promises for one payment, without saying how.   *)
(*                                                                         *)
(* A payment moves forward through the statuses of payment/model.go and    *)
(* its money moves with it: it is held in the wallet before the payment is *)
(* pending, captured by the gateway before the payment is succeeded, and   *)
(* given back only after the payment is failed.  A rejected payment has no *)
(* money held.                                                             *)
(*                                                                         *)
(* A write of wallets.json that fails leaves a debit or a refund behind    *)
(* that was done and reported as an error: a mishap.                       *)
(***************************************************************************)
EXTENDS Naturals

CONSTANT PaymentIDs

VARIABLES
  status,    \* "none", or the status of the payment
  money,     \* what happened to the amount: none, held, captured, released
  mishaps,   \* debits and refunds beyond that
  failures   \* failed writes of wallets.json

lifecycleVars == <<status, money, mishaps, failures>>

LifecycleInit ==
  /\ status = [p \in PaymentIDs |-> "none"]
  /\ money = [p \in PaymentIDs |-> "none"]
  /\ mishaps = [p \in PaymentIDs |-> 0]
  /\ failures = 0

\* p, in status from with its money in m, moves to status to.
Move(p, from, m, to) ==
  /\ status[p] = from
  /\ money[p] = m
  /\ status' = [status EXCEPT ![p] = to]
  /\ UNCHANGED <<money, mishaps, failures>>

\* The money of p, whose status is s, goes from m to n.
Transfer(p, s, m, n) ==
  /\ status[p] = s
  /\ money[p] = m
  /\ money' = [money EXCEPT ![p] = n]
  /\ UNCHANGED <<status, mishaps, failures>>

\* The debit or the refund of p, whose status is s and whose money is in m, is done
\* and wallets.json cannot be written.
Mishap(p, s, m) ==
  /\ status[p] = s
  /\ money[p] = m
  /\ mishaps' = [mishaps EXCEPT ![p] = @ + 1]
  /\ failures' = failures + 1
  /\ UNCHANGED <<status, money>>

Submit(p)     == Move(p, "none", "none", "initialized")
MisHold(p)    == Mishap(p, "initialized", "none")
Hold(p)       == Transfer(p, "initialized", "none", "held")
Reject(p)     == Move(p, "initialized", "none", "rejected")
Await(p)      == Move(p, "initialized", "held", "pending")
Capture(p)    == Transfer(p, "pending", "held", "captured")
Succeed(p)    == Move(p, "pending", "captured", "succeeded")
Fail(p)       == Move(p, "pending", "held", "failed")
MisRelease(p) == Mishap(p, "failed", "held")
Release(p)    == Transfer(p, "failed", "held", "released")

LifecycleNext ==
  \E p \in PaymentIDs :
    \/ Submit(p) \/ MisHold(p) \/ Hold(p) \/ Reject(p) \/ Await(p)
    \/ Capture(p) \/ Succeed(p) \/ Fail(p) \/ MisRelease(p) \/ Release(p)

LifecycleSpec == LifecycleInit /\ [][LifecycleNext]_lifecycleVars

=============================================================================
