SPECIFICATION FairSpec
CONSTANTS
  w1 = w1
  w2 = w2
  Events = {1}
  Workers <- OneWorker
  BatchSize = 1
  MaxRetries = 5
  MaxResends = 1
  Faults = {"broker", "database"}
PROPERTIES
  FailedPublishIsRetried
