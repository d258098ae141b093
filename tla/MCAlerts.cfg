SPECIFICATION AlertsFairSpec
CONSTANTS
  Forms <- ThreeForms
  Cooldowns = {2, 3}
  MinCooldown = 2
  DefaultCooldown = 3
  RetryDelays <- Delays
  RatePct = 50
  WindowCount = 2
  AfterSuccesses = 1
  MaxDeliveries = 2
  MaxJobs = 2
  MaxSaves = 2
  MaxFaults = 2
  FaultKinds = {"reject", "enqueue", "crash"}
  Blank = Blank
  Null = Null
  Gone = Gone
CHECK_DEADLOCK FALSE
PROPERTY CooldownIsKept
PROPERTY AlertIsAnswered
