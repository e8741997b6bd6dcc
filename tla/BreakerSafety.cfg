\* Three concurrent calls, every outcome.
SPECIFICATION FairSpec
CONSTANTS
  c1 = c1  c2 = c2  c3 = c3
  Call = {c1, c2, c3}
  FailureThreshold = 2
  ResetTime = 2
  MaxRetries = 2
  Outcomes = {"ok", "retryable", "fatal", "cancelled"}
INVARIANTS
  TypeOK
  TripsOnUnbrokenRun
  OneProbePerEpisode
PROPERTIES
  CallsEnd
