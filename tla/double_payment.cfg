SPECIFICATION Spec
CONSTANTS
  Orders = {o1}
  Keys = {k1, k2}
  Payments = {p1, p2}
  Providers = {"stripe"}
  Workers = {w1, w2}
  MaxFaults = 0
  None = None
SYMMETRY Symmetry
INVARIANT
  NoDoublePayment
CHECK_DEADLOCK FALSE
