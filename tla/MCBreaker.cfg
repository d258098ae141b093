SPECIFICATION BreakerFairSpec
CONSTANTS
  Destinations = {dest}
  Callers = {c1, c2, c3}
  Operators = {o1, o2}
  Threshold = 2
  MaxFailures = 3
  MaxAbandoned = 1
  NoDestination = NoDestination
  NoMail = NoMail
INVARIANT AutoDisabledIsOff
INVARIANT ThresholdIsActedOn
PROPERTY TripIsMailedOrAbandoned
