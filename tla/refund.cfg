SPECIFICATION FairSpec
CONSTANTS
  Orders = {o1}
  Txs = {1}
  Requests = {r1, r2}
  AdminKeys = {r1}
  Providers = {"stripe", "mock_bank"}
  Workers = {w1, w2}
  MaxFaults = 1
  None = None
INVARIANTS
  IInv
  RefundedIsPaidBack
  SucceededIsPaidBack
  DeclinedIsNotPaidBack
  SecondFollowsLostAnswer
  RefundsReconcile
  AuditedIsPaidBack
PROPERTIES
  DecisionsStand
  ApprovedIsSettled
  ImplementsRefundLedger
ACTION_CONSTRAINT MCLateApproval
CHECK_DEADLOCK FALSE
