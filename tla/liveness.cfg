SPECIFICATION FairSpec
CONSTANTS
  Orders = {o1}
  Keys = {k1}
  Payments = {p1}
  Providers = {"stripe"}
  Workers = {w1, w2}
  MaxFaults = 2
  None = None
PROPERTIES
  CapturedIsRecorded
  ChargedIsRecorded
CHECK_DEADLOCK FALSE
