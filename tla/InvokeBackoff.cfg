\* The grant is revoked while a retry sleeps.
SPECIFICATION Spec
CONSTANTS
  i1 = i1  i2 = i2
  None = None
  Invocation = {i1}
  Keyed = {}
  MaxRetries = 1
  Faults = {}
PROPERTIES
  RetriesStopOnRevocation
CHECK_DEADLOCK FALSE
