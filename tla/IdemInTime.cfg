\* Calls end within the reservation's lifetime and nothing is cut.
SPECIFICATION Spec
CONSTANTS
  c1 = c1  c2 = c2  c3 = c3  c4 = c4  k1 = k1  k2 = k2
  Call = {c1, c2, c3, c4}
  Key = {k1, k2}
  KeyOf <- SharedKey
  None = None
  ReservationTTL = 3
  Window = 4
  CallBudget = 2
  UrgentAct = FALSE
  Faults = {}
SYMMETRY CallSymmetry
INVARIANTS
  TypeOK
  OneCallInFlight
PROPERTIES
  OncePerWindow
  ImplementsCallOnce
