SPECIFICATION Spec
CONSTANTS
  Orders = {o1, o2}
  Keys = {k1, k2}
  Payments = {p1, p2}
  Providers = {"stripe", "mock_bank"}
  Workers = {w1}
  MaxFaults = 2
  None = None
SYMMETRY Symmetry
INVARIANT
  RecordedOrderIsPaid
PROPERTY
  PaidStaysPaid
CHECK_DEADLOCK FALSE
