SPECIFICATION FairSpec
CONSTANTS
  w1 = w1
  w2 = w2
  Events = {1, 2}
  Workers <- TwoWorkers
  BatchSize = 2
  MaxRetries = 2
  MaxResends = 2
  Faults = {"crash", "database", "broker", "connection", "leak"}
INVARIANTS
  TypeOK
  ClaimExclusive
  HeldRowsAreOwned
  SentWasPublished
  PublishesAreBounded
PROPERTIES
  TerminalIsFinal
  DeliversEvents
  ConcludesEvents
  OnlyFaultsStrand
