SPECIFICATION IngestFairSpec
CONSTANTS
  Hooks = {h1, h2}
  Content <- Bodies
  Requests = {r1, r2}
  Destinations = {d1}
  Settings <- Stored
  Opens = {"k1"}
  MaxEdits = 1
  MaxDeletes = 1
  MaxFaults = 1
  MaxEvents = 4
  Null = Null
CHECK_DEADLOCK FALSE
INVARIANT AnswersAreTrue
INVARIANT DuplicatesAreVouchedFor
PROPERTY HooksGetThrough
PROPERTY ImplementsStore
