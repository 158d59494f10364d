\* More successes asked for than probes let in, as in CircuitBreaker::new().
CONSTANTS
  Task = {p1}
  FailureThreshold = 2
  SuccessThreshold = 3
  MaxProbes = 2

SPECIFICATION FairBreakerSpec

PROPERTY HalfOpenResolves
