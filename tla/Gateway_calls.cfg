SPECIFICATION FairSpec
CONSTANTS
  first = first
  retry = retry
  anonymous = anonymous
  bad = bad
  blank = blank
  k1 = k1
  Missing = Missing
  Malformed = Malformed
  NoOrder = NoOrder
  NoRecord = NoRecord
  Calls <- FiveCalls
  Keys <- OneKey
  HeaderOf <- Headers
  ValidBodies <- Bodies
  MaxAttempts = 2
  Environment = {"crash", "database", "connection", "exhausted"}
CHECK_DEADLOCK FALSE
INVARIANTS
  TypeOK
  RepliesAreGenuine
  OverlapNeedsBreak
  
PROPERTIES
  EveryCallIsAnswered
