CONSTANTS
  m0 = m0  m1 = m1  ticker = ticker
  Zone = Zone
  Whole = Whole
  Scopes = {Zone, Whole}
  Masters = {m0, m1}
  Fragments = {ticker}
  Nothing = Nothing
  Edited = {m0}
  Tables <- MCTables
  Runs = {1, 2}
  Automation = Automation
  Admin = Admin
  Week = 1
  Retry = 1
  Retention = 1
  MaxTime = 2
  Calm = 1
  MaxChanges = 1
  MaxCalls = 1
  MaxPrunes = 1
  Overlap = FALSE
  Faults = {"failed", "lost", "cut"}
SPECIFICATION MotdSpec
CHECK_DEADLOCK FALSE
INVARIANT MotdSafe
PROPERTIES WeekKept Converges
