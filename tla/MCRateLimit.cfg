SPECIFICATION LimitSpec
CONSTANTS
  Keys = {s1, s2}
  Callers = {c1, c2}
  Override <- Own
  Env <- Variables
  Preset <- Presets
  Slack = 1
  Slowest = 2
  s1 = s1
  s2 = s2
  FallbackMax = 1
  MaxClock = 5
  MaxCalls = 3
  MaxOutages = 1
  None = None
SYMMETRY Symmetric
CHECK_DEADLOCK FALSE
INVARIANT GrantsAreEarned
INVARIANT LocalIsBounded
