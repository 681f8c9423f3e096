SPECIFICATION FairSpec
CONSTANTS
  RamWords = 3
  Space = 16
  Values <- MCValues
  HostPc <- MCHostPc
  Images <- MCImages
  LoadAddr <- MCLoadAddr
  Budgets <- MCBudgets
INVARIANT PcIsEven
PROPERTIES StopsOnBreakpoint FaultLeavesCpu LatchedCpuStays RefinesHaltControl RunsItsBudget BoundedRunReturns
