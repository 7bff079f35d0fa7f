SPECIFICATION Spec
CONSTANTS
  p1 = p1
  p2 = p2
  r1 = r1
  r2 = r2
  s1 = s1
  s2 = s2
  u1 = u1
  Users = {u1}
  NoUser = NoUser
  PaymentIDs = {p1, p2}
  Shards = {s1}
  Requests = {r1, r2}
  ShardOf <- OneShard
  ReqPayment <- OwnPayments
  ReqUser <- OnlyUser
  ReqAmount <- BothAccepted
  InitialWallets <- Hundred
  MaxInt = 100
  MaxIOFailures = 0
CHECK_DEADLOCK FALSE
INVARIANTS FailedOnlyByGateway
