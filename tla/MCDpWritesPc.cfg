SPECIFICATION Spec
CONSTANTS
  RamWords = 3
  Space = 16
  Values <- MCValues
  HostPc <- MCHostPc
  Images <- PcImages
  LoadAddr <- MCLoadAddr
  Budgets <- NoRun
PROPERTY DpWritesPc
