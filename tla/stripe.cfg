SPECIFICATION Spec
CONSTANTS
  Orders = {o1}
  Keys = {k1, k2}
  Payments = {p1, p2}
  Providers = {"stripe"}
  Workers = {w1, w2}
  MaxFaults = 1
  None = None
SYMMETRY Symmetry
INVARIANTS
  TypeOK
  PaidIsCaptured
  FailedIsDeclined
  RecordedIsCaptured
  ProcessedIsSealed
  PaidIsRecordedOrRepairable
PROPERTY
  ImplementsLedger
CHECK_DEADLOCK FALSE
