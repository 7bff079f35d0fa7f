SPECIFICATION Spec
CONSTANTS
  p1 = p1
  p2 = p2
  r1 = r1
  r2 = r2
  s1 = s1
  s2 = s2
  u1 = u1
  Users = {u1}
  NoUser = NoUser
  PaymentIDs = {p1, p2}
  Shards = {s1, s2}
  Requests = {r1, r2}
  ShardOf <- TwoShards
  ReqPayment <- OwnPayments
  ReqUser <- OnlyUser
  ReqAmount <- AcceptedAndClientError
  InitialWallets <- TwentyThree
  MaxInt = 100
  MaxIOFailures = 2
CHECK_DEADLOCK FALSE
INVARIANTS WorkflowInv MoneyMatchesStatus NothingForgotten RetryBudget
PROPERTIES ImplementsLifecycle
