SPECIFICATION Spec
CONSTANTS
  RamWords = 3
  Space = 16
  Values <- MCValues
  HostPc <- MCHostPc
  Images <- MCImages
  LoadAddr <- MCLoadAddr
  Budgets <- NoRun
PROPERTY ClearHaltClearsCpu
