\* A probe may end in a provider 4xx: the slot stays taken.
SPECIFICATION FairSpec
CONSTANTS
  c1 = c1  c2 = c2  c3 = c3
  Call = {c1, c2}
  FailureThreshold = 1
  ResetTime = 1
  MaxRetries = 0
  Outcomes = {"ok", "retryable", "fatal"}
PROPERTIES
  ProbeSlotReturned
