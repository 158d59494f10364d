CONSTANTS
  None = None
  Call = {r1}
  Provider = {p1, p2, p3}
  Makeable = {p1, p2}
  Strategies = {"failover", "failfast", "failsafe", "failback", "forking", "broadcast", "available", "mock"}
  Retries = 1
  Forks = 3
  MaxChange = 4
  Client = {c1, c2}
  Key = {k1, k2, k3}
  MaxSize = 2
  Ttl = 1
  MaxTime = 2
  User = {u1, u2, u3}
  Address = {a1, a2}
  InitialDelay = 1
  MaxDelay = 3
  Multiplier = 2
  MaxAttempts = 1
  MaxOpen = 3
  MaxFail = 4
  Caller = {c1, c2}
  Invoker = {i1, i2}
  Weight = 100
  Latency = {0, 7}
  MaxReport = 3
  MaxLost = 1
  Env = {"e1"}
  Tag = {"t1", "t2"}
  NoValue = NoValue
  N = 3
  Unset = Unset
  Token = {"t1", "t2"}
  OwnKeyKnown = FALSE
  Tolerance = 1
  MaxClock = 2
  MaxAttempt = 2
  Offered = 3
  Configured = {0, 1, 2, 3}
  Actives = {0, 1}
  ResponseTimes = {1, 2}
  NoData = 0
  Warmup = 4
  CounterSize = 16
  Rulebooks <- ConsumerRulebooks
  Scripts <- ConsumerScripts

SPECIFICATION ConsumerSpec

INVARIANTS
  SteadyAreTried
  OutcomesAreEarned
  
  
  ActiveIsOutstanding
  CacheKeepsRecent
  
  

PROPERTIES
  RemovedAreLetGo
  CallsReturn

CHECK_DEADLOCK FALSE
