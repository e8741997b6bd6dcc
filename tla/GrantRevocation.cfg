\* Requests race for one slot; grants are revoked and expire; Redis loses keys.
SPECIFICATION Spec
CONSTANTS
  alice = alice  bob = bob  ghost = ghost  list = list  send = send
  a1 = a1  b1 = b1  r1 = r1  r2 = r2  r3 = r3  v1 = v1  v2 = v2
  g1 = g1  g2 = g2  g3 = g3
  KnownAgent = {alice, bob}
  KnownTool = {list, send}
  Scope = {"read", "write"}
  AgentUser <- MCAgentUser
  AllowedTools <- MCAllowedTools
  ToolScope <- MCToolScope
  ToolProvider <- MCToolProvider
  AccountUser <- MCAccountUser
  AccountProvider <- MCAccountProvider
  None = None
  Argument <- TwoArguments
  Request = {r1, r2}
  Revoker = {v1, v2}
  Account = {a1, b1}
  GrantId = {g1, g2}
  MaxActive = 1
  TTL = 1
  MaxTime = 1
SYMMETRY HandlerSymmetry
INVARIANTS
  TypeOK
  ActiveLimit
  CacheBehindDB
  RevocationDurable
PROPERTIES
  ImplementsLedger
CHECK_DEADLOCK FALSE
