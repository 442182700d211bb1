SPECIFICATION StorefrontSpec
CONSTANTS
  Products = {p1, p2}
  Sellers = {s1, s2}
  Prices = {1, 2}
  Orders = {o1}
  Nonces = {n1, n2, n3}
  Keys = {k1}
  Workers = {w1, w2}
  MaxItems = 2
  MaxQuantity = 1
  MaxFails = 1
  Window = 1
  MaxTime = 1
  MaxChanges = 1
  None = None
  Emails = {e1, e2}
  AdminEmail = e1
  SeedUsers <- MCSeedUsers
  Persons = {x, y}
  Operator = Operator
  Clients = {c1, c2}
  NoEmail = NoEmail
SYMMETRY MCSymmetry
INVARIANTS
  TypeOK
  OrderAddsUp
  ChargedAsOrdered
  NonceBeginsOnePayment
  FailuresBounded
  RegistrantOwnsAccount
  DeployedHasAdmin
CHECK_DEADLOCK FALSE
