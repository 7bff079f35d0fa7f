SPECIFICATION Spec
CONSTANTS
  p1 = p1
  c1 = c1
  u = u
  s1 = s1
  Payments = {p1}
  Credits = {c1}
  Users = {u}
  Shards = {s1}
  Owner <- OneUser
  ShardOf <- OneShard
  Aggregates <- AllAggregates
  Records <- Event
  MaxRestarts = 1
  MaxWriteFailures = 0
CHECK_DEADLOCK FALSE
PROPERTIES ReplayRebuildsViews
