SPECIFICATION SpecLive
CONSTANTS
  d1 = d1
  d2 = d2
  d3 = d3
  d4 = d4
  f = f
  g = g
  None = None
  Dir = {d1, d2, d3, d4}
  RepoDir = {d1, d2}
  Unsized = {d3}
  Unreadable = {d4}
  File = {f, g}
  Tracked = {f}
  Indexed = {}
  FilesOf <- MCFilesOf
  MaxShows = 2
  MaxSpaces = 2
INVARIANTS TypeOK StatsSettle RowsAreEntries
PROPERTIES TurnsToDirty LoadingEnds
CHECK_DEADLOCK FALSE
