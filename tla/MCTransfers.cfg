SPECIFICATION Spec
CONSTANTS
  Width = 4
  ByteBits = 1
  RamSize = 8
  Regs = {1, 2}
  Pc = 4
  Offsets = {0, 1}
  Starts <- MCStarts
  MaxSteps = 2
  StackWidth = 8
  StackByteBits = 2
  StackRam = 36
  Saved = {4, 5}
  Bottom = 16
  Room = 3
  Scratch = {27, 228}
  Elsewhere <- MCElsewhere
INVARIANTS LoadStoreInv MultipleIsSequence ShiftIsSteps
PROPERTY FramesKept
CHECK_DEADLOCK FALSE
