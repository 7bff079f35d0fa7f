SPECIFICATION Spec
CONSTANTS
  p1 = p1
  p2 = p2
  r1 = r1
  r2 = r2
  s1 = s1
  s2 = s2
  u1 = u1
  Users = {u1}
  NoUser = NoUser
  PaymentIDs = {p1}
  Shards = {s1}
  Requests = {r1, r2}
  ShardOf <- OneShard
  ReqPayment <- SamePayment
  ReqUser <- OnlyUser
  ReqAmount <- AcceptedAndClientError
  InitialWallets <- Hundred
  MaxInt = 100
  MaxIOFailures = 2
CHECK_DEADLOCK FALSE
INVARIANTS TypeOK ChargedOncePerSubmission DamageBounded DrivenOn
