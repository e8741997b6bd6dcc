\* Redis and the database fail, tasks are cancelled; two invocations share a key.
SPECIFICATION Spec
CONSTANTS
  i1 = i1  i2 = i2
  None = None
  Invocation = {i1, i2}
  Keyed = {i1, i2}
  MaxRetries = 1
  Faults = {"redis", "db", "cut"}
SYMMETRY InvocationSymmetry
INVARIANTS
  TypeOK
  AuditedOnce
  RevokedNeverSent
  AuditTruthful
  ReservationSettled
  SendsBounded
CHECK_DEADLOCK FALSE
