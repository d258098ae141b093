SPECIFICATION BookSpec
CONSTANTS
  x = x
  Destinations = {x}
  DestinationOf <- OneDestination
  Deliveries = {1}
  Workers = {w1, w2}
  MaxAttempts = 2
  ReaperBatch = 1
  Overrun = FALSE
  MaxFaults = 1
  MaxQueued = 2
  NoJob = NoJob
SYMMETRY WorkerSymmetry
INVARIANT RejectedIsSentOnlyOnFault
INVARIANT ClaimExclusive
INVARIANT AttemptsBounded
INVARIANT OpenRowIsDriven
INVARIANT CountedOnce
PROPERTY SettledStaysSettled
PROPERTY ImplementsLifecycle
