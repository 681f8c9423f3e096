CONSTANTS
  Radix = 2
  MaxTime = 3
SPECIFICATION RtcSpec
INVARIANT TimeShownIsATime
