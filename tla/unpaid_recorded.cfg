SPECIFICATION Spec
CONSTANTS
  Orders = {o1}
  Keys = {k1, k2}
  Payments = {p1, p2}
  Providers = {"mock_bank"}
  Workers = {w1, w2}
  MaxFaults = 0
  None = None
SYMMETRY Symmetry
INVARIANT
  RecordedOnlyOnSuccess
CHECK_DEADLOCK FALSE
