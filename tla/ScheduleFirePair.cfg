CONSTANTS
  f1 = f1  f2 = f2
  Fires = {f1, f2}
  NoFire = NoFire
  NoItem = NoItem
  Size = 2
  FallbackSize = 1
  Faults = {"missing", "clear_failed", "add_failed", "poll_failed"}
  Admin = TRUE
  MaxStrays = 3
  MaxRestarts = 1
SPECIFICATION Spec
INVARIANT LoadsApart
