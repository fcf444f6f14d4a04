SPECIFICATION KstdioSpec
CONSTANTS
  Block = 4
  IntMax = 7
  Word = 64
  Archives <- MCArchives
  Width = 2
  Height = 2
  LastRow = 1
  Tab = 3
  NumBytes = 14
  HexDigits = 4
  NumMax = 511
  Files = {1, 2}
  Devices <- MCDevices
  Scenes <- MCScenes
  MaxInodes = 2
  MaxBytes = 3
  MaxRows = 4
  Paths <- MCPaths
  SeekEmpty = FALSE
INVARIANT TreeExact
INVARIANT ReadsInside
INVARIANT TmpfsExact
INVARIANT ScreenShowsTail
INVARIANT FormatExact
CHECK_DEADLOCK FALSE
