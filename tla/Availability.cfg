\* A start of two steps, and four requests that share two connections.
SPECIFICATION AvailabilityFairSpec
CONSTANTS
  Steps = 2
  PoolMax = 2
  DataRequests = {r1, r2, r3, r4}
  Nobody = Nobody
INVARIANTS ServedAfterStart
PROPERTIES GateFollows RequestsAnswered
CHECK_DEADLOCK FALSE
