SPECIFICATION Spec
CONSTANTS
  DayTicks = 5
  NyOffset = 2
  AsOfTick = 3
  Sessions <- OverWeekend
  FirstDay = 0
  Lookback = 3
  LastFile = 2
  HeadlineFile = 2
  Runners = {r1, r2}
  MaxStarts = 2
  ChunkRows = 2
  Ranges <- TwoRanges
  MaxImports = 2
  Unusable = Unusable
  CsvFiles <- SmallFiles
INVARIANTS
  SchemaIsRecorded
  ImportedOnce
  NoLookAhead
  ScanOnlyNarrows
  NoneMissed
PROPERTIES
  AllFilesOrNone
SYMMETRY Containers
CHECK_DEADLOCK FALSE
