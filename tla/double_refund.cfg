SPECIFICATION Spec
CONSTANTS
  Orders = {o1}
  Txs = {1}
  Requests = {r1}
  AdminKeys = {d1, d2}
  Providers = {"stripe"}
  Workers = {w1}
  MaxFaults = 0
  None = None
INVARIANT NoDoubleRefund
CHECK_DEADLOCK FALSE
