\* One tick is 15 s: four attempts of 15 s and the backoff outlive the 60 s reservation.
SPECIFICATION Spec
CONSTANTS
  c1 = c1  c2 = c2  c3 = c3  c4 = c4  k1 = k1  k2 = k2
  Call = {c1, c2, c3, c4}
  Key = {k1, k2}
  KeyOf <- SharedKey
  None = None
  ReservationTTL = 4
  Window = 6
  CallBudget = 5
  UrgentAct = TRUE
  Faults = {}
INVARIANTS
  OneCallInFlight
