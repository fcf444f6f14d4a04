SPECIFICATION Spec
CONSTANTS
  PageBytes = 8
  MaxOrder = 2
  HeaderBytes = 3
  DescBytes = 1
  FirstMax = 399
  Counts = {1, 3}
  MaxLive = 2
  EntryBytes = 3
  InfoBytes = 8
  Machines <- MCMachines
  Top = 580
  Fan = 8
  LoaderBase = 31
  LoaderSize = 14
  KernelBase = 104
  BiosEnd = 5
  Ebda <- MCEbda
  Screen <- MCScreen
  ScreenPages = 6
INVARIANT BitmapsFit
INVARIANT AllocationsDisjoint
INVARIANT LoadedKept
INVARIANT UsedIsMapped
INVARIANT StricterWins
INVARIANT Orderly
PROPERTY Boots
CHECK_DEADLOCK FALSE
