SPECIFICATION Spec
CONSTANTS
  d1 = d1
  d2 = d2
  d3 = d3
  other = other
  o1 = o1
  o2 = o2
  Deliveries <- AllDeliveries
  Orders <- AllOrders
  OrderOf <- MCOrderOf
  Faults = {"crash", "database", "loss"}
CHECK_DEADLOCK FALSE
SYMMETRY CopySymmetry
INVARIANTS
  TypeOK
  PaymentsAreAnnounced
  ProcessedIsPaid
  OnePaymentUnlessOverlapped
PROPERTIES
  PaidOrderIsNotCharged
