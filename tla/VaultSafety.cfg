\* One consent, a repeated callback, two invocations, one restart.
SPECIFICATION Spec
CONSTANTS
  f1 = f1  h1 = h1  h2 = h2  i1 = i1  i2 = i2
  NonceSize = 1
  TagSize = 1
  KeySize = 1
  MaxKeyLen = 8
  Flow = {f1}
  Callback = {h1, h2}
  Invocation = {i1, i2}
  MaxRestarts = 1
  None = None
SYMMETRY TaskSymmetry
INVARIANTS
  TypeOK
  RefreshTokenKept
  StoredReadable
  DamageRefused
  OnlyMalformedLeaks
CHECK_DEADLOCK FALSE
