SPECIFICATION WorkSpec
CONSTANTS
  Users = {alice, bob}
  Callers = {c1, c2}
  Limit <- Limits
  Styles = {stripe}
  MaxRows = 4
  Null = Null
  None = None
SYMMETRY Symmetric
CHECK_DEADLOCK FALSE
INVARIANT OwnersAgree
INVARIANT QuotaNearlyHolds
PROPERTY OnlyOwnRows
