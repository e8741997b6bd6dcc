\* Calls outlive their reservation, handlers are cut, Redis loses keys.
SPECIFICATION FairSpec
CONSTANTS
  c1 = c1  c2 = c2  c3 = c3  c4 = c4  k1 = k1  k2 = k2
  Call = {c1, c2, c3}
  Key = {k1}
  KeyOf <- OneKey
  None = None
  ReservationTTL = 2
  Window = 3
  CallBudget = 4
  UrgentAct = TRUE
  Faults = {"cut", "flush"}
INVARIANTS
  ActsOnOwnMarker
PROPERTIES
  ResultsKept
  KeyNotWedged
