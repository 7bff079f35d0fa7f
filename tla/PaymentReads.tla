----------------------------- MODULE PaymentReads -----------------------------
(***************************************************************************)
(* What GET /payments/ promises, without saying where the answer comes     *)
(* from: read again, a payment is where it was or further along the        *)
(* statuses of payment/model.go, also when the process was started anew in *)
(* between.  It can be set back once, to initialized, until the read model *)
(* has been told of its beginning; it can be forgotten until its POST has  *)
(* been answered; and the promise is off for a payment with an event that  *)
(* the store failed to write.                                              *)
(***************************************************************************)
CONSTANT Payments

VARIABLES
  answer,     \* the status GET would answer, "none" for 404
  announced,  \* payments whose beginning the read model has been told
  accepted,   \* payments whose POST was answered with 202
  unsaved     \* payments with an event that is not in the store's file

readsVars == <<answer, announced, accepted, unsaved>>

\* The statuses further along than a status.
Further(status) ==
  CASE status = "none"        -> {"initialized", "pending", "rejected", "succeeded", "failed"}
    [] status = "initialized" -> {"pending", "rejected", "succeeded", "failed"}
    [] status = "pending"     -> {"succeeded", "failed"}
    [] OTHER                  -> {}

ReadsInit ==
  /\ answer = [p \in Payments |-> "none"]
  /\ announced = {}
  /\ accepted = {}
  /\ unsaved = {}

GoesOn(p) == answer'[p] = answer[p] \/ answer'[p] \in Further(answer[p])

SetBackOnce(p) ==
  answer'[p] = "initialized" /\ p \notin announced /\ p \in announced'

ForgottenUnanswered(p) == answer'[p] = "none" /\ p \notin accepted

\* One step may change the answers of all payments: a restart does.
ReadsNext ==
  /\ announced \subseteq announced'
  /\ accepted \subseteq accepted'
  /\ unsaved \subseteq unsaved'
  /\ \A p \in Payments \ unsaved :
       GoesOn(p) \/ SetBackOnce(p) \/ ForgottenUnanswered(p)

ReadsSpec == ReadsInit /\ [][ReadsNext]_readsVars

=============================================================================
