SPECIFICATION Spec
CONSTANTS
  Sector <- AllSectors
  ZeroSector <- Zero
  Files <- BootImages
  NoImage = NoImage
  Shadowed = TRUE
  EntriesPerSector = 2
  SectorBytes = 2
  Modulus = 32
  RamSectors = 7
  BootSlot = 1
  MonitorSlot = 3
  HeaderSlot = 5
  DirSlot = 6
  BiosCode <- Bios
  BootCode <- Bcode
  MaxHost = 3
INVARIANTS TypeOK OutcomeIsExpected LoadedInPlace
PROPERTY BootEnds
CHECK_DEADLOCK FALSE
