SPECIFICATION Spec
CONSTANTS
  d1 = d1
  d2 = d2
  d3 = d3
  other = other
  e1 = e1
  e2 = e2
  Deliveries <- AllDeliveries
  Events <- AllEvents
  EventOf <- MCEventOf
  Faults = {"database"}
CHECK_DEADLOCK FALSE
INVARIANTS
  FailedRowsWereNotSent
