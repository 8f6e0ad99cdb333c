SPECIFICATION Spec
CONSTANTS
  r1 = r1
  r2 = r2
  r3 = r3
  other = other
  k1 = k1
  k2 = k2
  Requests <- TwoRetries
  Keys <- AllKeys
  KeyOf <- OneKey
  NoOrder = NoOrder
  NoRecord = NoRecord
  MaxAttempts = 3
  Environment = {}
CHECK_DEADLOCK FALSE
INVARIANTS
  NoConcurrentProcessing
