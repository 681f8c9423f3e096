SPECIFICATION Spec
CONSTANTS
  Capacity = 3
  Byte = {0, 65, 66}
  s1 = s1
  s2 = s2
  s3 = s3
  zero = zero
  Sector <- MCSector
  ZeroSector = zero
  Files <- MCFiles
  NoImage = NoImage
  Shadowed = TRUE
  LbaValues <- MCLba
  CountValues <- MCCount
  Commands <- MCCommands
  Radix = 2
  MaxTime = 2
  ByteValues = 2
  RamSize = 22
  AddrSize = 29
  Base <- MCBase
  Size <- MCSize
  Words <- MCWords
  UartDr = 0
  UartFr = 4
  Rxfe = 8
  MaxStores = 2
  Space = 6
  MaxDevs = 2
  Catalog <- MCCatalog
  Kinds <- MCKinds
  Scales <- MCScales
  Cycles <- MCCycles
INVARIANTS DrqShowsCommandedSector ErrMeansUnreadable StartsClean FrozenReadsAgree TimeNeverGoesBack MemInv OneAnswers
PROPERTIES RefinesFifo DataChangesOnlyWithDrq DeviceHidesRam
