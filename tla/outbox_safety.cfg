CONSTANTS
  e1 = e1  d1 = d1  d2 = d2
  i1 = i1  i2 = i2  w1 = w1  w2 = w2  w3 = w3  none = none
  Endpoints = {e1}
  Deliveries = {d1, d2}
  Target <- OneEndpoint
  Instances = {i1, i2}
  Workers = {w1, w2, w3}
  Home <- ThreeWorkers
  Callers = {c1}
  NoDelivery = none
  MaxAttempts = 2
  AutoDisableAfter = 2
  BatchSize = 2
  LeaseHolds = TRUE
  MaxCrashes = 1
  MaxDbFailures = 1
  MaxUpdates = 2
SPECIFICATION Spec
INVARIANTS RowsAreSound ExclusiveClaim AttemptsAccountedFor CircuitBreaker
PROPERTIES ImplementsContract
