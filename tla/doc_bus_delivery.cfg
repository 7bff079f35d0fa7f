SPECIFICATION FairSpec
CONSTANTS
  s1 = s1
  s2 = s2
  p1 = p1
  p2 = p2
  a = a
  b = b
  c = c
  afterA = afterA
  afterB = afterB
  Shards = {s1, s2}
  Publishers = {p1, p2}
  Events = {a, b, c, afterA, afterB}
  Capacity = 2
  MaxAttempts = 0
  MaxFailures = 0
  ShardOf <- OneKey
  Reactions <- FollowUps
  Script <- TwoAtOnce
CHECK_DEADLOCK FALSE
PROPERTIES EnqueuedIsSettled
