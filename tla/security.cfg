SPECIFICATION DeskSpec
CONSTANTS
  Writers = {w1, w2}
  MaxStamp = 2
  Events <- MCEvents
  Limit = 2
  Nobody = Nobody
  MaxVersion = 3
  MaxPairs = 3
INVARIANTS
  DeskInv
  ChainedToTheLast
  OrderedLogVerifies
  AlterationDetected
  ReceiptsVerify
  ActiveCanSign
  RotationsLoggedAreReal
  VerdictsAreTrue
SYMMETRY MCSymmetry
CONSTRAINTS
  MCUntouched
  MCOneReceipt
CHECK_DEADLOCK FALSE
