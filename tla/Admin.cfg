CONSTANTS
  Modes = {"schedules", "templates", "playlists", "visibility", "blackouts"}
  Ids = {"s"}
  Rules = {"until"}
  Until = 4
  Span = 3
  Edits = {"e1", "e2"}
  Buyer = "buyer"
  Nobody = "nobody"
  Period = 3
  PreFire = 1
  Longest = 1
  MaxTime = 4
  Horizon = 2
  Faults = {"clear_failed"}
  Overlap = FALSE
  MaxRestarts = 1
  Names = {"m1", "m2"}
  Seed = "m1"
  Slugs = {"i"}
  Editors = {a1, a2}
  System = "system"
  NoOne = "none"
  MaxCalls = 4
  MaxCuts = 1
  Medias = {"a", "b"}
  Callers = {"p", "q"}
  MaxEdits = 3
  MaxRows = 3
  Tokens = {"a"}
  Shapes = {"url", "token"}
  Layouts = {"single", "parted"}
  MaxTurns = 2
  Airing = {"x", "y"}
  Fridays = {4, 11}
  BlackoutDays = 10
  LastDay = 22
  MaxScans = 2
SPECIFICATION AdminSpec
SYMMETRY Symmetry
CHECK_DEADLOCK FALSE
INVARIANTS SchedulesSafe TemplatesSafe ListsSafe VisibilitySafe BlackoutsSafe
PROPERTY FiredOnce
