SPECIFICATION DeskSpec
CONSTANTS
  Writers = {w1, w2}
  MaxStamp = 3
  Events <- MCEvents
  Limit = 3
  Nobody = Nobody
  MaxVersion = 2
  MaxPairs = 2
INVARIANT
  UntouchedLogVerifies
CHECK_DEADLOCK FALSE
