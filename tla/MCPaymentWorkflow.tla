-------------------------- MODULE MCPaymentWorkflow --------------------------
(***************************************************************************)
(* Small instances of PaymentWorkflow for TLC.  The amounts pick what the  *)
(* gateway answers (13: accepted, 11: 4xx, 7: 5xx).                        *)
(***************************************************************************)
EXTENDS PaymentWorkflow, TLC

CONSTANTS p1, p2, r1, r2, s1, s2, u1

OneShard == [p \in PaymentIDs |-> s1]
TwoShards == (p1 :> s1) @@ (p2 :> s2)

\* Each request with a payment id of its own, and both with the same one.
OwnPayments == (r1 :> p1) @@ (r2 :> p2)
SamePayment == (r1 :> p1) @@ (r2 :> p1)

OnlyUser == [r \in Requests |-> u1]

\* An accepted charge, and one that the gateway refuses for good.
AcceptedAndClientError == (r1 :> 13) @@ (r2 :> 11)
\* Two charges that the gateway accepts.
BothAccepted == (r1 :> 13) @@ (r2 :> 13)
\* An accepted charge, and one that the gateway always fails.
AcceptedAndServerError == (r1 :> 13) @@ (r2 :> 7)

\* Enough for either of the two payments, but not for both.
Twenty == [u \in Users |-> 20]
\* Enough for either of 13 and 11, or for 11 twice, but not for both.
TwentyThree == [u \in Users |-> 23]
\* Enough for both, more than once.
Hundred == [u \in Users |-> 100]

=============================================================================
