SPECIFICATION LiveFairSpec
CONSTANTS
  Events = {1, 2}
  Streams = {s1, s2}
  MaxStreams = 2
  FaultKinds = {"publish", "delete", "break", "start"}
  MaxFaults = 2
  None = None
INVARIANT SlotsAreCounted
INVARIANT NoGapAfterMarker
PROPERTY FollowsTheLog
PROPERTY FlushedOnce
PROPERTY SlotComesBackOrFailed
