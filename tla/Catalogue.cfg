CONSTANTS
  r1 = r1  r2 = r2
  Modes = {"completion", "downloader", "sync", "tools", "workbook", "lookups", "rules"}
  Titles = {"a", "b"}
  Alien = "x"
  Length <- TitleLength
  Stopped = "none"
  MaxPlays = 3
  Urls = {"u", "w"}
  Runs = {r1, r2}
  TitleOf <- OneTitle
  Plans <- OneOrTwo
  Batches <- OneLine
  MaxTries = 1
  MaxItems = 2
  MaxRuns = 2
  Tokens = {"t", "u", "v"}
  FirstLists <- Pair
  Reserved = {"v"}
  PageSize = 1
  Least = 2
  MaxSyncs = 3
  MaxActs = 2
  Videos = {1, 2}
  Tools = {"meta", "tv", "titles", "writer"}
  MaxScans = 2
  MaxUpsets = 2
  Films = {"a", "b"}
  FirstSheets <- GapFirst
  MaxJobs = 2
  MaxEdits = 3
  Works = {1, 2}
  Names = {2, 3}
  Asked = {1, 2}
  MaxEpisodes = 2
  MaxWords = 4
  Scopes = {"master"}
  Qualities = {0, 1, 2}
  Heights = {0, 1, 2, 3}
  MaxStreams = 3
  TagCap = 2
  Spelled <- Spellings
  Linked = {"t", "u"}
  Tables <- PairsOf
SPECIFICATION CatalogueSpec
SYMMETRY Symmetry
CHECK_DEADLOCK FALSE
INVARIANTS PlaysCounted IngestSafe MirrorSafe ToolsSafe WorkbookSafe RulesHold TitlesRead
PROPERTY StepsRight
