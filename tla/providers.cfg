SPECIFICATION Spec
CONSTANTS
  Orders = {o1, o2}
  Keys = {k1, k2}
  Payments = {p1, p2}
  Providers = {"stripe", "mock_bank"}
  Workers = {w1, w2}
  MaxFaults = 0
  None = None
SYMMETRY Symmetry
INVARIANTS
  IInv
  PaidIsCaptured
  RecordedForItsOrder
PROPERTY
  RecordsAreKept
CHECK_DEADLOCK FALSE
