SPECIFICATION Spec
CONSTANTS
  u1 = u1
  u2 = u2
  c1 = c1
  c2 = c2
  Users = {u1, u2}
  Clients = {c1, c2}
  Amounts = {1}
  MaxInt = 2
  InitialWallets <- SomeMoney
  MaxIOFailures = 1
  MaxRestarts = 1
SYMMETRY ClientSymmetry
INVARIANTS TypeOK LedgerExact NoOverdraft ForgetsOnlyErrors
