SPECIFICATION Spec
CONSTANTS
  r1 = r1
  r2 = r2
  r3 = r3
  other = other
  k1 = k1
  k2 = k2
  Requests <- AllRequests
  Keys <- AllKeys
  KeyOf <- TwoKeys
  NoOrder = NoOrder
  NoRecord = NoRecord
  MaxAttempts = 2
  Environment = {"crash", "database", "expiry"}
CHECK_DEADLOCK FALSE
SYMMETRY RequestSymmetry
INVARIANTS
  TypeOK
  OrderIffEvent
  AnswersAreGenuine
  AcknowledgedOrderIsStable
  SecondOrderNeedsFailure
  NeverLockedOut
