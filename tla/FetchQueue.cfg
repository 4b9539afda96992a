CONSTANTS
  u1 = u1
  Jobs = {"add", "drain"}
  NoRun = 0
  MaxCalls = 2
  MaxBoots = 1
  Items = {u1}
  NoItem = NoItem
  Deletable = {u1}
  MaxAttempts = 3
SPECIFICATION FairSpec
INVARIANTS FetchSafe ClaimedOnce
PROPERTY AllSettles
CHECK_DEADLOCK FALSE
