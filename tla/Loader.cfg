SPECIFICATION LoaderSpec
CONSTANTS
  HeadCount = 2
  SectorPerTrack = 3
  CylinderMod = 10
  MaxSectors = 2
  Errors = {1, 4}
  BytesPerSector = 2
  PerFatSector = 3
  PerDirSector = 2
  LastCluster <- MCLastCluster
  Volumes <- MCVolumes
  Names = {"KERNEL", "INITRD", "BOOT.INI"}
  Counts = {0, 1, 3, 12}
  Offsets = {0, 1, 4, 5, 8}
  UintMod = 64
  FatReadsFail = FALSE
  Defaults <- MCDefaults
  NumberOf <- MCNumberOf
  Modes <- MCModes
  EntryBytes = 2
  InfoBytes = 3
  Memory = {0, 1, 2, 3, 4, 5, 6, 7, 8, 9, 10, 11, 12, 13, 14, 15, 16, 17, 18, 19, 20, 21, 22, 23, 24, 25, 26, 27, 28, 29, 30, 31}
  Consec = 2
  EhdrBytes = 2
  PhdrBytes = 1
  MapCounts = {1, 2}
  MmapCallFails = FALSE
  BootVolumes <- MCBootVolumes
  ConfigVolumes <- MCConfigVolumes
  Stages <- MCStages
INVARIANT ReadExact
INVARIANT AnswersExact
INVARIANT OnlyOwnClusters
INVARIANT Handover
INVARIANT OptionsExact
INVARIANT ModeFits
PROPERTY TransfersLegal
PROPERTY LoaderEnds
CHECK_DEADLOCK FALSE
