SPECIFICATION RetryFairSpec
CONSTANTS
  Calls = {c1, c2, c3, c4}
  MaxFailures = 2
  HalfOpenMaxCalls = 2
  Panicking = {c1}
  FailureBound = 4
  Caller = c1
  MaxRetries = 2
INVARIANTS TypeOK ProbesLimited ClosedBelowLimit SomeProbeDecides RetryFindsClosed
PROPERTIES TripsOnFailures HalfOpenEnds
