SPECIFICATION FairSpec
CONSTANTS
  x = x
  Destinations = {x}
  DestinationOf <- OneDestination
  Deliveries = {1}
  Workers = {w1}
  MaxAttempts = 2
  ReaperBatch = 1
  Overrun = FALSE
  MaxFaults = 1
  MaxQueued = 1
  NoJob = NoJob
PROPERTY FailedIsRetried
