\* Two gRPC calls and two HTTP requests.
SPECIFICATION FairSpec
CONSTANTS
  c1 = c1  c2 = c2  q1 = q1  q2 = q2
  Rpc = {c1, c2}
  Request = {q1, q2}
INVARIANTS
  TypeOK
  NoUseAfterClose
  CleanExit
PROPERTIES
  ShutdownCompletes
CHECK_DEADLOCK FALSE
