SPECIFICATION DashboardSpec
CONSTANTS
  MaxEvent = 4
  Earlier = 3
  a = a
  b = b
  x = x
  y = y
  Slots = {a, b}
  Destinations = {x, y}
  To <- Targets
  Histories <- HistorySet
  Matching = {1, 3}
  Limit = 1
  ScanCap = 2
  ScanBatch = 1
  Window = 2
  Bucket = 2
  TopN = 1
  Tabs = {t1, t2}
  Providers = {p1, p2}
  Null = Null
  Budgets <- BudgetSet
SYMMETRY Symmetry
INVARIANT EachHitOnce
INVARIANT FiguresAgree
INVARIANT AnswerIsStored
INVARIANT KeysStayUsable
CHECK_DEADLOCK FALSE
