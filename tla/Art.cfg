CONSTANTS
  Modes = {"enrichment"}
  Users = {"u", "v"}
  Socks = {1, 2, 3}
  Owner <- SockOwner
  Poller = "poller"
  Presence = "presence"
  NoSock = 0
  NoCaster = "none"
  MaxVersion = 1
  Races = {"r1", "r2"}
  Spectators = {"p", "q"}
  NoRace = "none"
  Viewers = {"u"}
  Codes = {1}
  Televisions = {"s", "t"}
  MaxDevices = 2
  MaxKeys = 2
  MaxCrashes = 1
  Tiers <- TwoTiers
  MaxClock = 9
  Works = {1, 2}
  Tts = {"tt1", "tt2"}
  TtOf <- OneUnknown
  KnownTts = {"derived", "tt1"}
  Limit = 1
  MaxDone = 2
SPECIFICATION LiveSpec
CHECK_DEADLOCK FALSE

PROPERTIES ArtSticks
