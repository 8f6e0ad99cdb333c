SPECIFICATION FairSpec
CONSTANTS
  o1 = o1
  Orders <- OneOrder
  OrderRetries = 1
  EventRetries = 1
  OrderResends = 1
  EventResends = 1
  MaxBreaks = 1
  Faults = {"crash", "loss"}
CHECK_DEADLOCK FALSE
INVARIANTS
  MailsAreForPaidOrders
  OneMailPerOrder
PROPERTIES
  EveryOrderIsConcluded
