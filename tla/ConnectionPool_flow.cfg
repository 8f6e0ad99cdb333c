SPECIFICATION FairSpec
CONSTANTS
  c1 = c1
  c2 = c2
  copy1 = copy1
  copy2 = copy2
  other = other
  order1 = order1
  order2 = order2
  b1 = b1
  b2 = b2
  None = None
  Connections <- TwoConnections
  Handlers <- ThreeHandlers
  Orders <- TwoOrders
  OrderOf <- TwoCopies
  Bookings <- TwoBookings
  Faults = {"statement", "connection", "crash"}
CHECK_DEADLOCK FALSE
INVARIANTS
  TypeOK
  ReturnedIsDurable
  UndoneStaysUndone
PROPERTIES
  EveryHandlerFinishes
