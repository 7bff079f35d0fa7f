SPECIFICATION HealthFairSpec
CONSTANTS
  w1 = w1
  h1 = h1
  h2 = h2
  Callers = {w1, h1, h2}
  Workers = {w1}
  Posts = {h1, h2}
  FailureThreshold = 2
  SuccessThreshold = 2
  MaxBudget = 2
  MaxMishaps = 2
INVARIANTS TypeOK ProbeAccounted CountersMatchState ProbesBounded OpenBreakerShutsDoor
PROPERTIES RefusesOnlyForAWhile KeepsLettingIn
